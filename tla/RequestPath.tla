---------------------------- MODULE RequestPath -----------------------------
(***************************************************************************)
(* The way of an HTTP request to a service: RateLimitMiddleware            *)
(* (api/middleware.py; rate_limits.py has the same algorithm) and then     *)
(* BoundedServiceRuntime (api/dependencies.py), a pool of threads with a   *)
(* semaphore for what runs or waits.                                       *)
(*                                                                         *)
(* run() does not await before it has submitted the operation, so it is    *)
(* one action of the event loop; the threads and the shutdown, which is    *)
(* carried out in a thread, interleave with it.  Requests are numbered in  *)
(* the order of their arrival.                                             *)
(***************************************************************************)
EXTENDS Integers, Sequences, FiniteSets

CONSTANTS
  Chain,        \* the buckets a request may be counted in: its client's, then its operator's
  Limit,        \* requests_per_minute, or proof_requests_per_minute, by key
  Window,       \* the 60 seconds
  MaxBuckets,   \* rate_limit_max_buckets
  MaxWorkers, MaxQueue,
  MaxRequests, MaxStops, Horizon   \* bounds of the model

ASSUME RequestAssumption ==
  /\ \A chain \in Chain : Len(chain) \in {1, 2} /\ DOMAIN chain = 1 .. Len(chain)
  /\ {Window, MaxBuckets, MaxWorkers} \subseteq Nat \ {0}
  /\ {MaxQueue, MaxRequests, MaxStops, Horizon} \subseteq Nat

Key == UNION {{chain[i] : i \in DOMAIN chain} : chain \in Chain}

ASSUME LimitAssumption == Limit \in [Key -> Nat \ {0}]

Request == 1 .. MaxRequests

VARIABLES
  clock,     \* time.monotonic()
  buckets,   \* the OrderedDict: the least recently used bucket first
  journal,   \* history of the limiter
  permits,   \* the free capacity
  executor,  \* the number of the current pool, 0 for None
  stops,     \* how many pools were stopped
  ops        \* the operations, and whether a client still waits for each

requestVars == <<clock, buckets, journal, permits, executor, stops, ops>>

OpState == {"new", "limited", "overloaded", "queued", "running", "finished", "cancelled"}

RequestTypeOK ==
  /\ clock \in 0 .. Horizon
  /\ buckets \in Seq([key: Key, hits: Seq(Nat)]) /\ Len(buckets) <= MaxBuckets
  /\ journal \in Seq([key: Key, at: Nat, what: {"granted", "limited", "evicted"}])
  /\ permits \in 0 .. MaxWorkers + MaxQueue
  /\ executor \in 0 .. MaxStops + 1 /\ stops \in 0 .. MaxStops
  /\ ops \in [Request -> [state: OpState, pool: 0 .. MaxStops + 1, awaited: BOOLEAN]]

RequestInit ==
  /\ clock = 0 /\ buckets = <<>> /\ journal = <<>>
  /\ permits = MaxWorkers + MaxQueue
  /\ executor = 1 /\ stops = 0
  /\ ops = [r \in Request |-> [state |-> "new", pool |-> 0, awaited |-> FALSE]]

-----------------------------------------------------------------------------
(* _consume                                                                *)
place_of(table, key) == {i \in DOMAIN table : table[i].key = key}

entry(key, what) == [key |-> key, at |-> clock, what |-> what]

\* Mutant: what is exactly one window old still counts.
expired_late(hit) == hit < clock - Window

expired(hit) == hit <= clock - Window

\* What has expired is dropped from the front.
fresh_hits(hits) ==
  LET dropped == CHOOSE n \in 0 .. Len(hits) : /\ \A i \in 1 .. n : expired(hits[i])
                                               /\ n < Len(hits) => ~expired(hits[n + 1])
  IN [i \in 1 .. Len(hits) - dropped |-> hits[dropped + i]]

the_place_of(table, key) == CHOOSE i \in place_of(table, key) : TRUE

without(table, place) ==
  [j \in 1 .. Len(table) - 1 |-> IF j < place THEN table[j] ELSE table[j + 1]]

\* Mutant: a full table is not cut.
others_uncut(table, key) ==
  IF place_of(table, key) = {} THEN table ELSE without(table, the_place_of(table, key))

\* The table without the bucket of key, from which a full table loses its first.
others(table, key) ==
  IF place_of(table, key) # {} THEN without(table, the_place_of(table, key))
  ELSE IF Len(table) >= MaxBuckets THEN without(table, 1) ELSE table

evicted(table, key) ==
  IF place_of(table, key) = {} /\ Len(table) >= MaxBuckets
  THEN <<entry(table[1].key, "evicted")>> ELSE <<>>

\* Mutant: a bucket that is used stays where it is.
moved_nowhere(table, key, b) ==
  IF place_of(table, key) = {} THEN Append(others(table, key), b)
  ELSE [i \in DOMAIN table |-> IF table[i].key = key THEN b ELSE table[i]]

\* The bucket that is used moves to the end.
moved(table, key, b) == Append(others(table, key), b)

hits_of(table, key) ==
  IF place_of(table, key) = {} THEN <<>>
  ELSE fresh_hits(table[the_place_of(table, key)].hits)

_consume(state, key) ==
  LET hits == hits_of(state.table, key)
      granted == Len(hits) < Limit[key]
      b == [key |-> key, hits |-> IF granted THEN Append(hits, clock) ELSE hits] IN
  [table |-> moved(state.table, key, b),
   granted |-> granted,
   log |-> state.log \o evicted(state.table, key)
             \o <<entry(key, IF granted THEN "granted" ELSE "limited")>>]

\* The operator's bucket is used when the client's did not refuse.
consume_chain(chain) ==
  LET first == _consume([table |-> buckets, log |-> journal], chain[1]) IN
  IF first.granted /\ Len(chain) = 2 THEN _consume(first, chain[2]) ELSE first

-----------------------------------------------------------------------------
current == IF executor = 0 THEN stops + 1 ELSE executor

\* start() and the semaphore: the operation is submitted, or the service is overloaded.
run(r) ==
  /\ executor' = current
  /\ IF permits > 0
     THEN /\ permits' = permits - 1
          /\ ops' = [ops EXCEPT ![r] = [state |-> "queued", pool |-> current, awaited |-> TRUE]]
     ELSE permits' = permits /\ ops' = [ops EXCEPT ![r].state = "overloaded"]

arrive(r, chain) ==
  LET outcome == consume_chain(chain) IN
  /\ ops[r].state = "new" /\ \A q \in Request : q < r => ops[q].state # "new"
  /\ buckets' = outcome.table /\ journal' = outcome.log
  /\ IF outcome.granted THEN run(r)
     ELSE ops' = [ops EXCEPT ![r].state = "limited"] /\ UNCHANGED <<permits, executor>>
  /\ UNCHANGED <<clock, stops>>

busy(pool) == {r \in Request : ops[r].state = "running" /\ ops[r].pool = pool}
queued(pool) == {r \in Request : ops[r].state = "queued" /\ ops[r].pool = pool}

\* A thread of the pool takes the first operation of its queue.
begin(r) ==
  /\ ops[r].state = "queued"
  /\ Cardinality(busy(ops[r].pool)) < MaxWorkers
  /\ \A q \in queued(ops[r].pool) : r <= q
  /\ ops' = [ops EXCEPT ![r].state = "running"]
  /\ UNCHANGED <<clock, buckets, journal, permits, executor, stops>>

\* _run_and_release: the permit returns with the end of the operation.
end(r) ==
  /\ ops[r].state = "running"
  /\ permits' = permits + 1
  /\ ops' = [ops EXCEPT ![r].state = "finished", ![r].awaited = FALSE]
  /\ UNCHANGED <<clock, buckets, journal, executor, stops>>

outstanding(r) == ops[r].state \in {"queued", "running"}

\* Mutants: the deadline releases the permit; it cancels the operation.
leave_releasing(r) ==
  /\ ops[r].awaited /\ outstanding(r)
  /\ ops' = [ops EXCEPT ![r].awaited = FALSE]
  /\ permits' = IF permits < MaxWorkers + MaxQueue THEN permits + 1 ELSE permits
  /\ UNCHANGED <<clock, buckets, journal, executor, stops>>

leave_cancelling(r) ==
  /\ ops[r].awaited /\ outstanding(r)
  /\ ops' = [ops EXCEPT ![r].awaited = FALSE, ![r].state = "cancelled"]
  /\ UNCHANGED <<clock, buckets, journal, permits, executor, stops>>

\* The deadline passes, or the client goes away: the operation is shielded and continues.
leave(r) ==
  /\ ops[r].awaited /\ outstanding(r)
  /\ ops' = [ops EXCEPT ![r].awaited = FALSE]
  /\ UNCHANGED <<clock, buckets, journal, permits, executor, stops>>

\* stop(): the pool is withdrawn, then shut down in a thread.
stop ==
  /\ executor # 0 /\ stops < MaxStops
  /\ executor' = 0 /\ stops' = stops + 1
  /\ UNCHANGED <<clock, buckets, journal, permits, ops>>

\* shutdown(cancel_futures=True): what is still queued never runs, and its permit is lost.
drain(pool) ==
  /\ pool <= stops /\ queued(pool) # {}
  /\ ops' = [r \in Request |-> IF r \in queued(pool)
                               THEN [ops[r] EXCEPT !.state = "cancelled", !.awaited = FALSE]
                               ELSE ops[r]]
  /\ UNCHANGED <<clock, buckets, journal, permits, executor, stops>>

time_passes ==
  /\ clock < Horizon
  /\ clock' = clock + 1
  /\ UNCHANGED <<buckets, journal, permits, executor, stops, ops>>

RequestNext ==
  \/ \E r \in Request : begin(r) \/ end(r) \/ leave(r) \/ (\E chain \in Chain : arrive(r, chain))
  \/ stop \/ (\E pool \in 1 .. MaxStops : drain(pool)) \/ time_passes

\* The threads of the pool run.  Nothing is assumed of clients or of the operator.
RequestFairness == \A r \in Request : WF_requestVars(begin(r)) /\ WF_requestVars(end(r))

RequestSpec == RequestInit /\ [][RequestNext]_requestVars /\ RequestFairness

-----------------------------------------------------------------------------
\* The places of the journal where key was granted in the window that begins at place i.
granted_in_window(log, key, i) ==
  {j \in DOMAIN log :
     /\ j >= i /\ log[j].key = key /\ log[j].what = "granted"
     /\ log[j].at < log[i].at + Window
     /\ \A e \in i .. j : log[e].key = key => log[e].what # "evicted"}

\* The limit holds for every window of every key, not only for windows that begin on the
\* minute, as long as the bucket is not evicted; and it is used up before a refusal.
WindowExact ==
  \A i \in DOMAIN journal :
    LET key == journal[i].key IN
    /\ journal[i].what = "granted" => Cardinality(granted_in_window(journal, key, i)) <= Limit[key]
    /\ journal[i].what = "limited" =>
         \E s \in 1 .. i : /\ Cardinality(granted_in_window(journal, key, s) \cap 1 .. i) = Limit[key]
                           /\ journal[i].at < journal[s].at + Window

\* A bucket is forgotten only when as many other keys as the table has places were used
\* since: traffic of few clients never resets the count of one of them.
EvictionNeedsManyKeys ==
  \A i \in DOMAIN journal : journal[i].what = "evicted" =>
    LET after(s) == {journal[j].key : j \in (s + 1) .. (i + 1)} \ {journal[i].key} IN
    \E s \in 1 .. i : /\ journal[s].key = journal[i].key /\ journal[s].what # "evicted"
                      /\ Cardinality(after(s)) >= MaxBuckets
                      /\ \A j \in (s + 1) .. (i - 1) : journal[j].key # journal[i].key

\* Every permit is accounted for, by a free place, an operation that runs or waits, or one
\* that a shutdown cancelled: a client that leaves frees nothing and costs nothing.
PermitsAccountedFor ==
  permits + Cardinality({r \in Request : outstanding(r) \/ ops[r].state = "cancelled"})
    = MaxWorkers + MaxQueue

\* tests/unit/test_control_plane_runtime.py: the cancellation of a waiter does not cancel
\* the work.  What was admitted runs to its end unless its pool is stopped.
AdmittedOperationRuns ==
  \A r \in Request : ops[r].state = "queued" ~> ops[r].state = "finished" \/ ops[r].pool <= stops
=============================================================================
