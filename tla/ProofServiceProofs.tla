------------------------- MODULE ProofServiceProofs -------------------------
(***************************************************************************)
(* Theorems about ProofService: which reads a stable proof is made of, who *)
(* builds, whom a follower waits for, and what a cache hit is worth.  One  *)
(* invariant, ServiceInv, carries all of them.                             *)
(***************************************************************************)
EXTENDS ProofService, TLAPS

\* Every row of a proof that a build has reached was read between the revision the build
\* goes by and the present: what the stability check turns into one revision.
ReadsInOrder ==
  \A r \in Request :
    /\ pc[r] \in {"rows", "nodes", "flush", "check"} => built[r].revision <= revision
    /\ pc[r] \in {"nodes", "flush", "check"} =>
         /\ proof[r].seen # {}
         /\ \A s \in proof[r].seen : built[r].revision <= s /\ s <= revision
    /\ pc[r] = "publish" => proof[r].seen = {built[r].revision}

\* Response p has read what revision n, the leases up to l and the present allow to say.
SpeaksFor(n, l, p) ==
  /\ p.kind = "STABLE" /\ p.lapsed = l /\ n <= revision
  /\ p.settled /\ revision = n => settled

\* What a build returns speaks for the context it returns with it, an entry for its key,
\* and a hit for the context of its request.  Before the stability check the rows may
\* still be of several revisions; from the store on they are of one.
KeysTellTheReads ==
  /\ \A r \in Request :
       /\ pc[r] \in Building \ {"command", "unstable"} => proof[r].kind = "STABLE"
       /\ pc[r] \in {"flush", "check", "publish"} =>
            SpeaksFor(built[r].revision, built[r].lapsed, proof[r])
       /\ pc[r] = "hit" =>
            /\ SpeaksFor(context[r].revision, context[r].lapsed, proof[r])
            /\ proof[r].seen = {context[r].revision}
  /\ \A e \in cache :
       /\ SpeaksFor(e.key.revision, e.key.nearest_lease_expiry, e.response)
       /\ e.response.seen = {e.key.revision}

\* The request that owns the future in flight is the one that builds.
OwnerBuilds == \A r \in Request : pc[r] \in Building <=> inflight = r

\* No follower is orphaned: the future it waits for has its outcome, or belongs to the
\* request that builds and is found under _state_lock; and an outcome comes with the end
\* of the build, successful or not.
FollowersHaveAnOwner ==
  \A r \in Request :
    /\ pc[r] = "waiting" => future[r] \in Request /\ (future[r] \in done \/ inflight = future[r])
    /\ r \in done => pc[r] \in {"built", "failed"}

\* A build begins after the context it is asked in was read: only a follower can be given
\* something older than its own request, the counterexample of NoStaleAnswer.
OwnAnswerIsCurrent ==
  \A r \in Request :
    /\ context[r].revision <= revision
    /\ pc[r] \in {"nodes", "flush", "check", "publish", "unstable", "built", "hit"} =>
         \A s \in proof[r].seen : context[r].revision <= s

ServiceInv ==
  /\ ProofTypeOK
  /\ ReadsInOrder
  /\ StableProofIsOneRevision
  /\ OwnerBuilds
  /\ FollowersHaveAnOwner
  /\ KeysTellTheReads
  /\ OwnAnswerIsCurrent

\* What the stability property says of the cache and of one request.
Published(r) == pc[r] \in {"built", "followed", "hit"}

OneRevision(p) == p.kind = "STABLE" => \E v \in p.seen : p.seen = {v}

\* The property about the published proofs, one by one.
LEMMA StablePointwise ==
  StableProofIsOneRevision <=>
    /\ \A e \in cache : OneRevision(e.response)
    /\ \A r \in Request : Published(r) => OneRevision(proof[r])
  BY DEF StableProofIsOneRevision, published, Published, OneRevision

\* The service starts with nothing published and nobody in flight.
LEMMA ServiceInit == ProofInit => ServiceInv
  <1> SUFFICES ASSUME ProofInit PROVE ServiceInv  OBVIOUS
  <1>1. ProofTypeOK
    <2>1. NoContext \in Context /\ NoProof \in Proof
      BY DEF NoContext, Context, NoProof, Proof
    <2>2. context \in [Request -> Context] /\ built \in [Request -> Context]
      BY <2>1 DEF ProofInit
    <2>3. /\ proof \in [Request -> Proof] /\ pc \in [Request -> Steps]
          /\ future \in [Request -> Request \cup {NoRequest}] /\ tries \in [Request -> Nat]
      BY <2>1 DEF ProofInit, Steps
    <2>4. /\ {revision, lapsed, sequence, mark} \subseteq Nat /\ settled \in BOOLEAN
          /\ cache \in SUBSET Entry /\ done \in SUBSET Request
          /\ inflight \in Request \cup {NoRequest}
      <3>1. revision = 1 /\ lapsed = 0 /\ sequence = 0 /\ mark = 0 /\ settled = FALSE
        BY DEF ProofInit
      <3>2. cache = {} /\ done = {} /\ inflight = NoRequest
        BY DEF ProofInit
      <3>3. {revision, lapsed, sequence, mark} \subseteq Nat
        BY <3>1
      <3>4. settled \in BOOLEAN
        BY <3>1
      <3> QED  BY <3>2, <3>3, <3>4
    <2> QED  BY <2>2, <2>3, <2>4 DEF ProofTypeOK
  <1>2. \A r \in Request : pc[r] = "idle"
    BY DEF ProofInit
  <1>3. ReadsInOrder /\ KeysTellTheReads
    BY <1>2 DEF ProofInit, ReadsInOrder, KeysTellTheReads, Building
  <1>4. StableProofIsOneRevision
    BY <1>2, StablePointwise DEF ProofInit, Published
  <1>4a. OwnAnswerIsCurrent
    BY <1>2 DEF ProofInit, NoContext, OwnAnswerIsCurrent
  <1>5. OwnerBuilds /\ FollowersHaveAnOwner
    BY <1>2, ProofAssumption DEF ProofInit, OwnerBuilds, FollowersHaveAnOwner, Building
  <1> QED  BY <1>1, <1>3, <1>4, <1>4a, <1>5 DEF ServiceInv

-----------------------------------------------------------------------------
(* Types.                                                                  *)

\* ProofTypeOK is kept by every step.
LEMMA ServiceTypeStep == ProofTypeOK /\ [ProofNext]_proof_vars => ProofTypeOK'
  <1> SUFFICES ASSUME ProofTypeOK, [ProofNext]_proof_vars PROVE ProofTypeOK'  OBVIOUS
  <1>n. /\ revision \in Nat /\ lapsed \in Nat /\ sequence \in Nat /\ mark \in Nat
        /\ settled \in BOOLEAN
    BY DEF ProofTypeOK
  <1>e. \A e \in cache : e.response \in Proof
    BY DEF ProofTypeOK, Entry
  <1>b. NoContext \in Context /\ NoProof \in Proof
    BY DEF NoContext, Context, NoProof, Proof
  <1> USE DEF ProofTypeOK, env, goto, at
  <1>1. ASSUME NEW r \in Request, _current_context(r) PROVE ProofTypeOK'
    BY <1>1, <1>n DEF _current_context, Context, Steps
  <1>2. ASSUME NEW r \in Request, initial_watermark(r) PROVE ProofTypeOK'
    BY <1>2, <1>n DEF initial_watermark, Context, Steps
  <1>3. ASSUME NEW r \in Request, NEW ttl \in BOOLEAN, lookup_hit(r, ttl) PROVE ProofTypeOK'
    <2>1. kept(r, ttl) \subseteq cache
      BY DEF kept
    <2>2. PICK e \in kept(r, ttl) : proof' = [proof EXCEPT ![r] = e.response]
      BY <1>3 DEF lookup_hit
    <2>3. proof' \in [Request -> Proof] /\ cache' \in SUBSET Entry
      BY <1>3, <1>e, <2>1, <2>2 DEF lookup_hit
    <2> QED  BY <1>3, <1>n, <2>3 DEF lookup_hit, Steps, Answered
  <1>4. ASSUME NEW r \in Request, NEW ttl \in BOOLEAN, lookup_follow(r, ttl) PROVE ProofTypeOK'
    BY <1>4, <1>n DEF lookup_follow, Steps
  <1>5. ASSUME NEW r \in Request, NEW ttl \in BOOLEAN, lookup_own(r, ttl) PROVE ProofTypeOK'
    BY <1>5, <1>n DEF lookup_own, Steps, Building
  <1>6. ASSUME NEW r \in Request, follow(r) PROVE ProofTypeOK'
    <2>1. future[r] \in Request
      BY <1>6 DEF follow
    <2> QED  BY <1>6, <1>n, <2>1 DEF follow, Steps, Answered
  <1>7. ASSUME NEW r \in Request, build_command(r) PROVE ProofTypeOK'
    BY <1>7, <1>n DEF build_command, read, Steps, Building, Proof, NoProof
  <1>8. ASSUME NEW r \in Request, build_revision(r) PROVE ProofTypeOK'
    <2>1. built' \in [Request -> Context]
      BY <1>8, <1>n DEF build_revision, Context
    <2> QED  BY <1>8, <1>n, <2>1 DEF build_revision, read, Steps, Building
  <1>9. ASSUME NEW r \in Request, build_rows(r) PROVE ProofTypeOK'
    <2>1. [proof[r] EXCEPT !.seen = {revision}, !.lapsed = lapsed] \in Proof
      BY <1>n DEF Proof
    <2>2. proof' = [proof EXCEPT ![r] = [proof[r] EXCEPT !.seen = {revision}, !.lapsed = lapsed]]
      BY <1>9 DEF build_rows, Proof
    <2>3. proof' \in [Request -> Proof]
      BY <2>1, <2>2
    <2> QED  BY <1>9, <1>n, <2>3 DEF build_rows, read, Steps, Building
  <1>10. ASSUME NEW r \in Request, build_nodes(r) PROVE ProofTypeOK'
    <2>1. /\ [proof[r] EXCEPT !.seen = @ \cup {revision}, !.settled = settled] \in Proof
          /\ [built[r] EXCEPT !.lapsed = proof[r].lapsed] \in Context
      BY <1>n DEF Proof, Context
    <2>2. /\ proof' = [proof EXCEPT ![r] = [proof[r] EXCEPT !.seen = @ \cup {revision}, !.settled = settled]]
          /\ built' = [built EXCEPT ![r] = [built[r] EXCEPT !.lapsed = proof[r].lapsed]]
      BY <1>10 DEF build_nodes, Proof, Context
    <2>3. proof' \in [Request -> Proof] /\ built' \in [Request -> Context]
      BY <2>1, <2>2
    <2> QED  BY <1>10, <1>n, <2>3 DEF build_nodes, read, Steps, Building
  <1>11. ASSUME NEW r \in Request, NEW ok \in BOOLEAN, build_flush(r, ok) PROVE ProofTypeOK'
    <2>1. sequence' = sequence + 1 /\ mark' \in Nat
      BY <1>11, <1>n DEF build_flush
    <2>2. built' \in [Request -> Context]
      BY <1>11, <1>n, <2>1 DEF build_flush, Context
    <2> QED  BY <1>11, <1>n, <2>1, <2>2 DEF build_flush, Steps, Building
  <1>12. ASSUME NEW r \in Request, build_check(r) PROVE ProofTypeOK'
    BY <1>12, <1>n DEF build_check, Steps, Building
  <1>13. ASSUME NEW r \in Request, publish(r) PROVE ProofTypeOK'
    <2>1. entry(r) \in Entry
      BY DEF entry, _cache_key, Entry, Key, Context
    <2>2. cache' \in SUBSET Entry
      BY <1>13, <2>1 DEF publish
    <2> QED  BY <1>13, <1>n, <1>b, <2>2 DEF publish, complete_future, Steps, Answered
  <1>14. ASSUME NEW r \in Request, publish_unstable(r) PROVE ProofTypeOK'
    <2>1. proof' \in [Request -> Proof]
      BY <1>14 DEF publish_unstable, Proof
    <2> QED
      BY <1>14, <1>n, <1>b, <2>1 DEF publish_unstable, complete_future, Steps, Answered
  <1>15. ASSUME NEW r \in Request, build_raises(r) PROVE ProofTypeOK'
    BY <1>15, <1>n, <1>b DEF build_raises, complete_future, Steps, Answered
  <1>16. CASE proof_relevant_write \/ lease_lapses \/ window_passes \/ other_export
    <2>1. /\ revision' \in Nat /\ lapsed' \in Nat /\ sequence' \in Nat /\ mark' \in Nat
          /\ settled' \in BOOLEAN /\ UNCHANGED requests
      <3>1. CASE proof_relevant_write
        BY <3>1, <1>n DEF proof_relevant_write
      <3>2. CASE lease_lapses
        BY <3>2, <1>n DEF lease_lapses
      <3>3. CASE window_passes
        BY <3>3, <1>n DEF window_passes
      <3>4. CASE other_export
        BY <3>4, <1>n DEF other_export
      <3> QED  BY <1>16, <3>1, <3>2, <3>3, <3>4
    <2> QED  BY <2>1 DEF requests
  <1>17. CASE UNCHANGED proof_vars
    BY <1>17 DEF proof_vars
  <1> QED
    BY <1>1, <1>2, <1>3, <1>4, <1>5, <1>6, <1>7, <1>8, <1>9, <1>10, <1>11, <1>12, <1>13,
       <1>14, <1>15, <1>16, <1>17 DEF ProofNext, Serve

-----------------------------------------------------------------------------
(* The invariant, conjunct by conjunct.                                    *)

\* The reads of a build stay between the revision of the proof and the present, whoever
\* writes between two of them; the stability check then leaves one revision.
LEMMA ReadsStep == ProofTypeOK /\ ReadsInOrder /\ [ProofNext]_proof_vars => ReadsInOrder'
  <1> SUFFICES ASSUME ProofTypeOK, ReadsInOrder, [ProofNext]_proof_vars PROVE ReadsInOrder'
    OBVIOUS
  <1>n. /\ revision \in Nat /\ pc \in [Request -> Steps] /\ proof \in [Request -> Proof]
        /\ \A r \in Request : built[r].revision \in Nat /\ proof[r].seen \in SUBSET Nat
        /\ built \in [Request -> Context]
    BY DEF ProofTypeOK, Proof, Context
  <1> USE DEF ReadsInOrder, env, goto, at
  <1>1. ASSUME NEW r \in Request, _current_context(r) PROVE ReadsInOrder'
    BY <1>1, <1>n DEF _current_context
  <1>2. ASSUME NEW r \in Request, initial_watermark(r) PROVE ReadsInOrder'
    BY <1>2, <1>n DEF initial_watermark
  <1>3. ASSUME NEW r \in Request, NEW ttl \in BOOLEAN, lookup_hit(r, ttl) PROVE ReadsInOrder'
    BY <1>3, <1>n DEF lookup_hit
  <1>4. ASSUME NEW r \in Request, NEW ttl \in BOOLEAN, lookup_follow(r, ttl) PROVE ReadsInOrder'
    BY <1>4, <1>n DEF lookup_follow
  <1>5. ASSUME NEW r \in Request, NEW ttl \in BOOLEAN, lookup_own(r, ttl) PROVE ReadsInOrder'
    BY <1>5, <1>n DEF lookup_own
  <1>6. ASSUME NEW r \in Request, follow(r) PROVE ReadsInOrder'
    BY <1>6, <1>n DEF follow
  <1>7. ASSUME NEW r \in Request, build_command(r) PROVE ReadsInOrder'
    BY <1>7, <1>n DEF build_command, read
  <1>8. ASSUME NEW r \in Request, build_revision(r) PROVE ReadsInOrder'
    BY <1>8, <1>n DEF build_revision, read
  <1>9. ASSUME NEW r \in Request, build_rows(r) PROVE ReadsInOrder'
    BY <1>9, <1>n DEF build_rows, read
  <1>10. ASSUME NEW r \in Request, build_nodes(r) PROVE ReadsInOrder'
    BY <1>10, <1>n DEF build_nodes, read
  <1>11. ASSUME NEW r \in Request, NEW ok \in BOOLEAN, build_flush(r, ok) PROVE ReadsInOrder'
    BY <1>11, <1>n DEF build_flush
  <1>12. ASSUME NEW r \in Request, build_check(r) PROVE ReadsInOrder'
    BY <1>12, <1>n DEF build_check, stable
  <1>13. ASSUME NEW r \in Request, publish(r) PROVE ReadsInOrder'
    BY <1>13, <1>n DEF publish, complete_future
  <1>14. ASSUME NEW r \in Request, publish_unstable(r) PROVE ReadsInOrder'
    BY <1>14, <1>n DEF publish_unstable, complete_future
  <1>15. ASSUME NEW r \in Request, build_raises(r) PROVE ReadsInOrder'
    BY <1>15, <1>n DEF build_raises, complete_future
  <1>16. CASE proof_relevant_write \/ lease_lapses \/ window_passes \/ other_export
    BY <1>16, <1>n DEF proof_relevant_write, lease_lapses, window_passes, other_export, requests
  <1>17. CASE UNCHANGED proof_vars
    BY <1>17 DEF proof_vars
  <1> QED
    BY <1>1, <1>2, <1>3, <1>4, <1>5, <1>6, <1>7, <1>8, <1>9, <1>10, <1>11, <1>12, <1>13,
       <1>14, <1>15, <1>16, <1>17 DEF ProofNext, Serve

\* One request owns the future in flight and builds; the others find it, or find its outcome.
LEMMA FlightStep ==
  ProofTypeOK /\ OwnerBuilds /\ FollowersHaveAnOwner /\ [ProofNext]_proof_vars
    => OwnerBuilds' /\ FollowersHaveAnOwner'
  <1> SUFFICES ASSUME ProofTypeOK, OwnerBuilds, FollowersHaveAnOwner, [ProofNext]_proof_vars
      PROVE  OwnerBuilds' /\ FollowersHaveAnOwner'
    OBVIOUS
  <1>n. /\ inflight \in Request \cup {NoRequest} /\ NoRequest \notin Request
        /\ pc \in [Request -> Steps] /\ future \in [Request -> Request \cup {NoRequest}]
    BY ProofAssumption DEF ProofTypeOK
  <1> USE DEF OwnerBuilds, FollowersHaveAnOwner, env, goto, at, joins, Building
  <1>1. ASSUME NEW r \in Request, _current_context(r) PROVE OwnerBuilds' /\ FollowersHaveAnOwner'
    BY <1>1, <1>n DEF _current_context
  <1>2. ASSUME NEW r \in Request, initial_watermark(r) PROVE OwnerBuilds' /\ FollowersHaveAnOwner'
    BY <1>2, <1>n DEF initial_watermark
  <1>3. ASSUME NEW r \in Request, NEW ttl \in BOOLEAN, lookup_hit(r, ttl) PROVE OwnerBuilds' /\ FollowersHaveAnOwner'
    BY <1>3, <1>n DEF lookup_hit
  <1>4. ASSUME NEW r \in Request, NEW ttl \in BOOLEAN, lookup_follow(r, ttl) PROVE OwnerBuilds' /\ FollowersHaveAnOwner'
    BY <1>4, <1>n DEF lookup_follow
  <1>5. ASSUME NEW r \in Request, NEW ttl \in BOOLEAN, lookup_own(r, ttl) PROVE OwnerBuilds' /\ FollowersHaveAnOwner'
    BY <1>5, <1>n DEF lookup_own
  <1>6. ASSUME NEW r \in Request, follow(r) PROVE OwnerBuilds' /\ FollowersHaveAnOwner'
    BY <1>6, <1>n DEF follow
  <1>7. ASSUME NEW r \in Request, build_command(r) PROVE OwnerBuilds' /\ FollowersHaveAnOwner'
    BY <1>7, <1>n DEF build_command, read
  <1>8. ASSUME NEW r \in Request, build_revision(r) PROVE OwnerBuilds' /\ FollowersHaveAnOwner'
    BY <1>8, <1>n DEF build_revision, read
  <1>9. ASSUME NEW r \in Request, build_rows(r) PROVE OwnerBuilds' /\ FollowersHaveAnOwner'
    BY <1>9, <1>n DEF build_rows, read
  <1>10. ASSUME NEW r \in Request, build_nodes(r) PROVE OwnerBuilds' /\ FollowersHaveAnOwner'
    BY <1>10, <1>n DEF build_nodes, read
  <1>11. ASSUME NEW r \in Request, NEW ok \in BOOLEAN, build_flush(r, ok) PROVE OwnerBuilds' /\ FollowersHaveAnOwner'
    BY <1>11, <1>n DEF build_flush
  <1>12. ASSUME NEW r \in Request, build_check(r) PROVE OwnerBuilds' /\ FollowersHaveAnOwner'
    BY <1>12, <1>n DEF build_check
  <1>13. ASSUME NEW r \in Request, publish(r) PROVE OwnerBuilds' /\ FollowersHaveAnOwner'
    BY <1>13, <1>n DEF publish, complete_future
  <1>14. ASSUME NEW r \in Request, publish_unstable(r) PROVE OwnerBuilds' /\ FollowersHaveAnOwner'
    BY <1>14, <1>n DEF publish_unstable, complete_future
  <1>15. ASSUME NEW r \in Request, build_raises(r) PROVE OwnerBuilds' /\ FollowersHaveAnOwner'
    BY <1>15, <1>n DEF build_raises, complete_future
  <1>16. CASE proof_relevant_write \/ lease_lapses \/ window_passes \/ other_export
    BY <1>16, <1>n DEF proof_relevant_write, lease_lapses, window_passes, other_export, requests
  <1>17. CASE UNCHANGED proof_vars
    BY <1>17 DEF proof_vars
  <1> QED
    BY <1>1, <1>2, <1>3, <1>4, <1>5, <1>6, <1>7, <1>8, <1>9, <1>10, <1>11, <1>12, <1>13,
       <1>14, <1>15, <1>16, <1>17 DEF ProofNext, Serve

\* The clock of the classification gives the lease of the key, the stability check the
\* revision, and no write but a later one takes the end of the stability window back.
LEMMA KeysStep ==
  ProofTypeOK /\ ReadsInOrder /\ KeysTellTheReads /\ [ProofNext]_proof_vars => KeysTellTheReads'
  <1> SUFFICES ASSUME ProofTypeOK, ReadsInOrder, KeysTellTheReads, [ProofNext]_proof_vars
      PROVE  KeysTellTheReads'
    OBVIOUS
  <1>n. /\ pc \in [Request -> Steps] /\ proof \in [Request -> Proof]
        /\ context \in [Request -> Context]
    BY DEF ProofTypeOK
  <1> USE DEF KeysTellTheReads, SpeaksFor, Building, env, goto, at
  <1>1. ASSUME NEW r \in Request, _current_context(r) PROVE KeysTellTheReads'
    BY <1>1, <1>n DEF _current_context
  <1>2. ASSUME NEW r \in Request, initial_watermark(r) PROVE KeysTellTheReads'
    BY <1>2, <1>n DEF initial_watermark
  <1>3. ASSUME NEW r \in Request, NEW ttl \in BOOLEAN, lookup_hit(r, ttl) PROVE KeysTellTheReads'
    BY <1>3, <1>n DEF lookup_hit, kept, _cache_key
  <1>4. ASSUME NEW r \in Request, NEW ttl \in BOOLEAN, lookup_follow(r, ttl) PROVE KeysTellTheReads'
    BY <1>4, <1>n DEF lookup_follow
  <1>5. ASSUME NEW r \in Request, NEW ttl \in BOOLEAN, lookup_own(r, ttl) PROVE KeysTellTheReads'
    BY <1>5, <1>n DEF lookup_own
  <1>6. ASSUME NEW r \in Request, follow(r) PROVE KeysTellTheReads'
    BY <1>6, <1>n DEF follow
  <1>7. ASSUME NEW r \in Request, build_command(r) PROVE KeysTellTheReads'
    BY <1>7, <1>n DEF build_command, read, NoProof
  <1>8. ASSUME NEW r \in Request, build_revision(r) PROVE KeysTellTheReads'
    BY <1>8, <1>n DEF build_revision, read
  <1>9. ASSUME NEW r \in Request, build_rows(r) PROVE KeysTellTheReads'
    BY <1>9, <1>n DEF build_rows, read
  <1>10. ASSUME NEW r \in Request, build_nodes(r) PROVE KeysTellTheReads'
    <2>1. /\ proof' = [proof EXCEPT ![r] = [proof[r] EXCEPT !.seen = @ \cup {revision}, !.settled = settled]]
          /\ built' = [built EXCEPT ![r] = [built[r] EXCEPT !.lapsed = proof[r].lapsed]]
          /\ pc' = [pc EXCEPT ![r] = "flush"] /\ pc[r] = "nodes"
          /\ UNCHANGED <<env, cache, context>>
      BY <1>10 DEF build_nodes, read
    <2>2. proof[r] \in Proof /\ built[r] \in Context
      BY DEF ProofTypeOK
    <2>3. /\ proof'[r].kind = proof[r].kind /\ proof'[r].lapsed = proof[r].lapsed
          /\ proof'[r].settled = settled
          /\ built'[r].lapsed = proof[r].lapsed /\ built'[r].revision = built[r].revision
      BY <1>n, <2>1, <2>2 DEF Proof, Context, ProofTypeOK
    <2>4. proof[r].kind = "STABLE" /\ built[r].revision <= revision
      BY <2>1 DEF ReadsInOrder
    <2>5. \A q \in Request \ {r} : proof'[q] = proof[q] /\ built'[q] = built[q] /\ pc'[q] = pc[q]
      BY <1>n, <2>1 DEF ProofTypeOK
    <2>6. pc'[r] = "flush"
      BY <1>n, <2>1
    <2> QED  BY <2>1, <2>3, <2>4, <2>5, <2>6
  <1>11. ASSUME NEW r \in Request, NEW ok \in BOOLEAN, build_flush(r, ok) PROVE KeysTellTheReads'
    BY <1>11, <1>n DEF build_flush
  <1>12. ASSUME NEW r \in Request, build_check(r) PROVE KeysTellTheReads'
    BY <1>12, <1>n DEF build_check
  <1>13. ASSUME NEW r \in Request, publish(r) PROVE KeysTellTheReads'
    <2>1. \A e \in cache' : e \in cache \/ e = entry(r)
      BY <1>13 DEF publish
    <2>2. /\ entry(r).key.revision = built[r].revision
          /\ entry(r).key.nearest_lease_expiry = built[r].lapsed
          /\ entry(r).response = proof[r]
      BY DEF entry, _cache_key
    <2>3. /\ pc[r] = "publish" /\ pc' = [pc EXCEPT ![r] = "built"]
          /\ \A q \in Request \ {r} : built'[q] = built[q]
          /\ UNCHANGED <<env, context, proof>>
      BY <1>13, <1>n DEF publish, complete_future, ProofTypeOK
    <2>4. /\ SpeaksFor(built[r].revision, built[r].lapsed, proof[r])
          /\ proof[r].seen = {built[r].revision}
      BY <2>3 DEF ReadsInOrder
    <2>5. pc'[r] = "built" /\ \A q \in Request \ {r} : pc'[q] = pc[q]
      BY <1>n, <2>3
    <2> QED  BY <2>1, <2>2, <2>3, <2>4, <2>5
  <1>14. ASSUME NEW r \in Request, publish_unstable(r) PROVE KeysTellTheReads'
    BY <1>14, <1>n DEF publish_unstable, complete_future
  <1>15. ASSUME NEW r \in Request, build_raises(r) PROVE KeysTellTheReads'
    BY <1>15, <1>n DEF build_raises, complete_future
  <1>16. CASE proof_relevant_write \/ lease_lapses \/ window_passes \/ other_export
    <2>1. /\ UNCHANGED <<cache, pc, context, built, proof>>
          /\ revision' \in Nat /\ revision <= revision'
          /\ revision' = revision => settled' = settled \/ settled'
      BY <1>16, <1>n
         DEF proof_relevant_write, lease_lapses, window_passes, other_export, requests, ProofTypeOK
    <2>2. ASSUME NEW n \in Nat, NEW l, NEW p, SpeaksFor(n, l, p) PROVE SpeaksFor(n, l, p)'
      BY <1>n, <2>1, <2>2 DEF ProofTypeOK
    <2>3. /\ \A q \in Request : built[q].revision \in Nat /\ context[q].revision \in Nat
          /\ \A e \in cache : e.key.revision \in Nat
      BY DEF ProofTypeOK, Context, Entry, Key
    <2> QED  BY <2>1, <2>2, <2>3
  <1>17. CASE UNCHANGED proof_vars
    BY <1>17 DEF proof_vars
  <1> QED
    BY <1>1, <1>2, <1>3, <1>4, <1>5, <1>6, <1>7, <1>8, <1>9, <1>10, <1>11, <1>12, <1>13,
       <1>14, <1>15, <1>16, <1>17 DEF ProofNext, Serve

\* Revisions only grow, and the build reads its own after the request read its context.
LEMMA OwnAnswerStep ==
  /\ ProofTypeOK /\ KeysTellTheReads /\ OwnAnswerIsCurrent /\ [ProofNext]_proof_vars
  => OwnAnswerIsCurrent'
  <1> SUFFICES ASSUME ProofTypeOK, KeysTellTheReads, OwnAnswerIsCurrent, [ProofNext]_proof_vars
      PROVE  OwnAnswerIsCurrent'
    OBVIOUS
  <1>n. /\ revision \in Nat
        /\ \A r \in Request : context[r].revision \in Nat /\ proof[r].seen \in SUBSET Nat
        /\ pc \in [Request -> Steps] /\ proof \in [Request -> Proof]
        /\ context \in [Request -> Context]
    BY DEF ProofTypeOK, Context, Proof
  <1> USE DEF OwnAnswerIsCurrent, env, goto, at
  <1>1. ASSUME NEW r \in Request, _current_context(r) PROVE OwnAnswerIsCurrent'
    BY <1>1, <1>n DEF _current_context
  <1>2. ASSUME NEW r \in Request, initial_watermark(r) PROVE OwnAnswerIsCurrent'
    BY <1>2, <1>n DEF initial_watermark
  <1>3. ASSUME NEW r \in Request, NEW ttl \in BOOLEAN, lookup_hit(r, ttl) PROVE OwnAnswerIsCurrent'
    <2>1. PICK e \in kept(r, ttl) : proof' = [proof EXCEPT ![r] = e.response]
      BY <1>3 DEF lookup_hit
    <2>2. e.response.seen = {context[r].revision}
      BY <2>1 DEF kept, _cache_key, KeysTellTheReads
    <2> QED  BY <1>3, <1>n, <2>1, <2>2 DEF lookup_hit
  <1>4. ASSUME NEW r \in Request, NEW ttl \in BOOLEAN, lookup_follow(r, ttl) PROVE OwnAnswerIsCurrent'
    BY <1>4, <1>n DEF lookup_follow
  <1>5. ASSUME NEW r \in Request, NEW ttl \in BOOLEAN, lookup_own(r, ttl) PROVE OwnAnswerIsCurrent'
    BY <1>5, <1>n DEF lookup_own
  <1>6. ASSUME NEW r \in Request, follow(r) PROVE OwnAnswerIsCurrent'
    BY <1>6, <1>n DEF follow
  <1>7. ASSUME NEW r \in Request, build_command(r) PROVE OwnAnswerIsCurrent'
    BY <1>7, <1>n DEF build_command, read
  <1>8. ASSUME NEW r \in Request, build_revision(r) PROVE OwnAnswerIsCurrent'
    BY <1>8, <1>n DEF build_revision, read
  <1>9. ASSUME NEW r \in Request, build_rows(r) PROVE OwnAnswerIsCurrent'
    BY <1>9, <1>n DEF build_rows, read
  <1>10. ASSUME NEW r \in Request, build_nodes(r) PROVE OwnAnswerIsCurrent'
    BY <1>10, <1>n DEF build_nodes, read
  <1>11. ASSUME NEW r \in Request, NEW ok \in BOOLEAN, build_flush(r, ok) PROVE OwnAnswerIsCurrent'
    BY <1>11, <1>n DEF build_flush
  <1>12. ASSUME NEW r \in Request, build_check(r) PROVE OwnAnswerIsCurrent'
    BY <1>12, <1>n DEF build_check
  <1>13. ASSUME NEW r \in Request, publish(r) PROVE OwnAnswerIsCurrent'
    BY <1>13, <1>n DEF publish, complete_future
  <1>14. ASSUME NEW r \in Request, publish_unstable(r) PROVE OwnAnswerIsCurrent'
    BY <1>14, <1>n DEF publish_unstable, complete_future
  <1>15. ASSUME NEW r \in Request, build_raises(r) PROVE OwnAnswerIsCurrent'
    BY <1>15, <1>n DEF build_raises, complete_future
  <1>16. CASE proof_relevant_write \/ lease_lapses \/ window_passes \/ other_export
    BY <1>16, <1>n DEF proof_relevant_write, lease_lapses, window_passes, other_export, requests
  <1>17. CASE UNCHANGED proof_vars
    BY <1>17 DEF proof_vars
  <1> QED
    BY <1>1, <1>2, <1>3, <1>4, <1>5, <1>6, <1>7, <1>8, <1>9, <1>10, <1>11, <1>12, <1>13,
       <1>14, <1>15, <1>16, <1>17 DEF ProofNext, Serve

\* What is published is a finished build that passed the check, is marked CHANGED, or is a
\* copy of something published.
LEMMA StableStep ==
  /\ ProofTypeOK /\ ReadsInOrder /\ FollowersHaveAnOwner
  /\ StableProofIsOneRevision /\ [ProofNext]_proof_vars
  => StableProofIsOneRevision'
  <1> SUFFICES ASSUME ProofTypeOK, ReadsInOrder, FollowersHaveAnOwner,
                      StableProofIsOneRevision, [ProofNext]_proof_vars
      PROVE  StableProofIsOneRevision'
    OBVIOUS
  <1> DEFINE Good == /\ \A e \in cache : OneRevision(e.response)
                     /\ \A r \in Request : Published(r) => OneRevision(proof[r])
  <1>g. Good
    BY StablePointwise
  <1>n. /\ pc \in [Request -> Steps] /\ proof \in [Request -> Proof]
        /\ \A r \in Request : pc[r] = "publish" => proof[r].seen = {built[r].revision}
        /\ \A r \in Request : pc[r] = "waiting" => future[r] \in Request
    BY DEF ProofTypeOK, ReadsInOrder, FollowersHaveAnOwner
  <1> SUFFICES Good'
    BY StablePointwise, PTL
  <1> USE DEF Published, OneRevision, env, goto, at
  <1>1. ASSUME NEW r \in Request, _current_context(r) PROVE Good'
    BY <1>1, <1>n, <1>g DEF _current_context
  <1>2. ASSUME NEW r \in Request, initial_watermark(r) PROVE Good'
    BY <1>2, <1>n, <1>g DEF initial_watermark
  <1>3. ASSUME NEW r \in Request, NEW ttl \in BOOLEAN, lookup_hit(r, ttl) PROVE Good'
    BY <1>3, <1>n, <1>g DEF lookup_hit, kept
  <1>4. ASSUME NEW r \in Request, NEW ttl \in BOOLEAN, lookup_follow(r, ttl) PROVE Good'
    BY <1>4, <1>n, <1>g DEF lookup_follow
  <1>5. ASSUME NEW r \in Request, NEW ttl \in BOOLEAN, lookup_own(r, ttl) PROVE Good'
    BY <1>5, <1>n, <1>g DEF lookup_own
  <1>6. ASSUME NEW r \in Request, follow(r) PROVE Good'
    BY <1>6, <1>n, <1>g DEF follow
  <1>7. ASSUME NEW r \in Request, build_command(r) PROVE Good'
    BY <1>7, <1>n, <1>g DEF build_command, read
  <1>8. ASSUME NEW r \in Request, build_revision(r) PROVE Good'
    BY <1>8, <1>n, <1>g DEF build_revision, read
  <1>9. ASSUME NEW r \in Request, build_rows(r) PROVE Good'
    BY <1>9, <1>n, <1>g DEF build_rows, read
  <1>10. ASSUME NEW r \in Request, build_nodes(r) PROVE Good'
    BY <1>10, <1>n, <1>g DEF build_nodes, read
  <1>11. ASSUME NEW r \in Request, NEW ok \in BOOLEAN, build_flush(r, ok) PROVE Good'
    BY <1>11, <1>n, <1>g DEF build_flush
  <1>12. ASSUME NEW r \in Request, build_check(r) PROVE Good'
    BY <1>12, <1>n, <1>g DEF build_check
  <1>13. ASSUME NEW r \in Request, publish(r) PROVE Good'
    <2>1. \A e \in cache' : e \in cache \/ e = entry(r)
      BY <1>13 DEF publish
    <2>2. OneRevision(proof[r]) /\ entry(r).response = proof[r]
      BY <1>13, <1>n DEF publish, entry
    <2>3. proof' = proof /\ pc' = [pc EXCEPT ![r] = "built"]
      BY <1>13 DEF publish
    <2> QED  BY <1>n, <1>g, <2>1, <2>2, <2>3
  <1>14. ASSUME NEW r \in Request, publish_unstable(r) PROVE Good'
    BY <1>14, <1>n, <1>g DEF publish_unstable, complete_future
  <1>15. ASSUME NEW r \in Request, build_raises(r) PROVE Good'
    BY <1>15, <1>n, <1>g DEF build_raises, complete_future
  <1>16. CASE proof_relevant_write \/ lease_lapses \/ window_passes \/ other_export
    BY <1>16, <1>n, <1>g DEF proof_relevant_write, lease_lapses, window_passes, other_export, requests
  <1>17. CASE UNCHANGED proof_vars
    BY <1>17, <1>g DEF proof_vars
  <1> QED
    BY <1>1, <1>2, <1>3, <1>4, <1>5, <1>6, <1>7, <1>8, <1>9, <1>10, <1>11, <1>12, <1>13,
       <1>14, <1>15, <1>16, <1>17 DEF ProofNext, Serve

-----------------------------------------------------------------------------
(* The theorems.                                                           *)

\* ServiceInv holds throughout.
LEMMA ServiceInvHolds == ProofSpec => []ServiceInv
  <1>1. ProofInit => ServiceInv
    BY ServiceInit
  <1>2. ServiceInv /\ [ProofNext]_proof_vars => ServiceInv'
    BY ServiceTypeStep, ReadsStep, FlightStep, KeysStep, OwnAnswerStep, StableStep DEF ServiceInv
  <1> QED  BY <1>1, <1>2, PTL DEF ProofSpec

\* The state of the proof service keeps its types.
THEOREM ProofTypeCorrect == ProofSpec => []ProofTypeOK
  <1>1. ServiceInv => ProofTypeOK
    BY DEF ServiceInv
  <1> QED  BY <1>1, ServiceInvHolds, PTL

\* ProofService.build: whatever writes fall between its reads and its attempts, a published
\* proof that is not marked CHANGED read every row but the command's at one revision.
THEOREM StableProofIsOneRevisionHolds == ProofSpec => []StableProofIsOneRevision
  <1>1. ServiceInv => StableProofIsOneRevision
    BY DEF ServiceInv
  <1> QED  BY <1>1, ServiceInvHolds, PTL

\* _inflight: any number of concurrent requests, at most one of them builds, and it is the
\* one the others join.
THEOREM SingleFlightHolds == ProofSpec => []SingleFlight
  <1>1. ServiceInv => SingleFlight
    BY DEF ServiceInv, OwnerBuilds, SingleFlight
  <1> QED  BY <1>1, ServiceInvHolds, PTL

\* asyncio.shield(future): a request that waits, waits for the request that builds now or
\* for an outcome that exists; no build ends without giving its future an outcome.
THEOREM NoOrphanedFollower == ProofSpec => []FollowersHaveAnOwner
  <1>1. ServiceInv => FollowersHaveAnOwner
    BY DEF ServiceInv
  <1> QED  BY <1>1, ServiceInvHolds, PTL

\* _cache_key and _cache_expiry: whatever is written, runs out or is exported between the
\* reads of a build, its stability check and the store, the key of a cache entry is true to
\* the reads the cached response is made of; a hit is of the rows and leases the request
\* found, and calls no recovery settled whose stability window is still open.
THEOREM HitIsCurrentHolds == ProofSpec => []HitIsCurrent
  <1>1. ServiceInv => HitIsCurrent
    BY DEF ServiceInv, KeysTellTheReads, SpeaksFor, HitIsCurrent, at
  <1> QED  BY <1>1, ServiceInvHolds, PTL

\* The freshness that does hold, against "never stale": the request that builds, and one
\* that is answered from the cache, gets no revision it had already seen surpassed.
THEOREM OwnAnswerIsCurrentHolds == ProofSpec => []OwnAnswerIsCurrent
  <1>1. ServiceInv => OwnAnswerIsCurrent
    BY DEF ServiceInv
  <1> QED  BY <1>1, ServiceInvHolds, PTL
=============================================================================
