--------------------------- MODULE DemoController ---------------------------
(***************************************************************************)
(* services/demo_controller.py: scripted demonstrations that call the      *)
(* control plane's services from HTTP handlers, with a keepalive thread    *)
(* (_DemoHeartbeatManager) and a worker process (runtime/demo_worker.py)   *)
(* that outlive the handler that started them.                             *)
(*                                                                         *)
(* A handler is the sequence of its calls; thread[r] holds what is left of *)
(* the handler that task r runs.  Where the code uses asyncio.gather       *)
(* the calls of one stage are made in any order.  Between two calls of a   *)
(* handler anything may happen: other requests, leases running out, the    *)
(* scanner, shutdown.  Any call may raise, which ends the handler.         *)
(*                                                                         *)
(* The entry followed is any entry of the tables.  Of the others only what *)
(* reaches it is there: close() goes through all of them, and what one     *)
(* raises ends the loop for those after it.                                *)
(***************************************************************************)
EXTENDS TraceFence

CONSTANTS
  Database, Stale, Sibling, Replacement,           \* the nodes of a session
  read_metrics, restart_postgres, reset_redis_pool,
  correction_key, closing_key,                     \* idempotency keys of commands
  stale_key, recovery_key,                         \* idempotency keys of actions
  Task,                                            \* handlers, and close(), at once
  Nobody                                           \* no holder of a session's lock

\* The identities of the nodes are fresh UUIDs, keys and tools different literals.
ASSUME DemoAssumption ==
  /\ {Database, Stale, Sibling, Replacement} \subseteq Node \ {Root}
  /\ Database \notin {Stale, Sibling, Replacement}
  /\ Stale \notin {Sibling, Replacement} /\ Sibling # Replacement
  /\ Tool = {read_metrics, restart_postgres, reset_redis_pool}
  /\ read_metrics \notin {restart_postgres, reset_redis_pool}
  /\ restart_postgres # reset_redis_pool
  /\ {correction_key, closing_key} \subseteq CommandKey /\ correction_key # closing_key
  /\ {stale_key, recovery_key} \subseteq ActionKey /\ stale_key # recovery_key
  /\ Nobody \notin Task

VARIABLES
  scenario,  \* the demonstration of this behaviour, over the run created for it
  thread,    \* per task: its handler and the stages that are left
  lock,      \* who holds _DemoSession.lock
  phase,     \* _DemoSession.phase, or what became of a lease check
  listed,    \* whether _sessions or _lease_checks has the entry
  manager,   \* the keepalive thread, the nodes it renews, whether a renewal is on its way
  attached,  \* heartbeat_manager is not None
  worker,    \* the worker process, its release pipe, and its action request on the way
  reason,    \* action_attempts.denial_reason by action key
  verdict,   \* how a check ended
  down,      \* close() has begun
  aborted    \* history: whoever took the entry out raised before it got to its manager

session == <<phase, listed, attached, verdict, down, aborted>>
demo == <<scenario, thread, lock, session, manager, worker, reason>>
demoVars == <<vars, demo>>

Scenario ==
  {"stale-supersession", "cancellation", "lease-expiry", "idempotent-retry",
   "recovery-manifest-mismatch", "sibling-isolation", "concurrent-stale-valid"}

Idle == [op |-> "idle", todo |-> <<>>]

DemoInit ==
  /\ Init
  /\ scenario \in Scenario
  /\ thread = [r \in Task |-> Idle]
  /\ lock = Nobody /\ phase = "NONE" /\ listed = FALSE
  /\ manager = [running |-> FALSE, stop |-> FALSE, nodes |-> {}, beating |-> FALSE]
  /\ attached = FALSE
  /\ worker = [state |-> "none", go |-> FALSE, sent |-> FALSE]
  /\ reason = [key \in ActionKey |-> "NONE"]
  /\ verdict = "none" /\ down = FALSE /\ aborted = FALSE

-----------------------------------------------------------------------------
(* The handlers, as the stages of calls they make.                         *)
call(what, n, arg) == [do |-> what, node |-> n, arg |-> arg]
step(what, n, arg) == <<{call(what, n, arg)}>>
plain(what) == step(what, NoNode, NoTool)
enter(name) == step("phase", NoNode, name)
action(n, key, tool) == call("execute", n, <<key, tool>>)
execute(n, key, tool) == <<{action(n, key, tool)}>>
command(type, n, key) == step("command", n, <<key, type>>)

_spawn_check_node(n, caps) == step("spawn", n, caps) \o step("activate", n, NoTool)

replacement == step("replace", Replacement, NoTool) \o step("activate", Replacement, NoTool)

\* _DemoHeartbeatManager.close(): a request to stop and a join with a deadline.
manager_close == plain("stop") \o plain("join")

start ==
  _spawn_check_node(Database, {read_metrics, restart_postgres})
  \o _spawn_check_node(Stale, {restart_postgres})
  \o _spawn_check_node(Sibling, {read_metrics})
  \o step("keep_alive", NoNode, {Root, Database, Stale, Sibling})
  \o plain("launch") \o plain("await_waiting")
  \o enter("WAITING_STALE_WORKER") \o plain("register")

supersede ==
  step("lock", NoNode, "WAITING_STALE_WORKER")
  \o manager_close \o plain("detach")
  \o command("CORRECT_SUBTREE", Database, correction_key)
  \o step("checkpoint", Database, "refused")
  \o enter("SUPERSEDED")

\* Mutant: the release is believed without reading the recorded action.
release_unread ==
  step("lock", NoNode, "SUPERSEDED")
  \o plain("go") \o plain("await_exit") \o enter("STALE_DENIED")

release_stale_worker ==
  step("lock", NoNode, "SUPERSEDED")
  \o plain("go") \o plain("await_exit") \o step("denied", Stale, stale_key)
  \o enter("STALE_DENIED")

run_replacement ==
  step("lock", NoNode, "STALE_DENIED")
  \o replacement
  \o execute(Replacement, recovery_key, reset_redis_pool)
  \o step("committed", Replacement, recovery_key)
  \o step("complete", Replacement, NoTool)
  \o enter("RECOVERY_COMMITTED")

build_proof ==
  step("lock", NoNode, "RECOVERY_COMMITTED")
  \o plain("prove") \o enter("PROOF_AVAILABLE")
  \o manager_close \o plain("detach")

reset == plain("unlist") \o plain("kill") \o manager_close

\* Both tables are emptied at once, then every entry is closed, this one after some others.
close == plain("unlist") \o plain("earlier") \o plain("kill") \o manager_close

\* _close_check_run, then what the check expects of its actions and effects.
conclude == command("CANCEL_RUN", Root, closing_key) \o plain("expect")

_check_cancellation ==
  _spawn_check_node(Database, {restart_postgres})
  \o step("checkpoint", Database, "allowed")
  \o command("CANCEL_SUBTREE", Database, correction_key)
  \o execute(Database, stale_key, restart_postgres)
  \o conclude

_start_lease_expiry ==
  _spawn_check_node(Database, {restart_postgres})
  \o step("checkpoint", Database, "allowed")
  \o step("keep_alive", NoNode, {Root})
  \o enter("WAITING_FOR_LEASE_EXPIRY") \o plain("register")

finish_lease_expiry ==
  execute(Database, stale_key, restart_postgres)
  \o plain("scan")
  \o manager_close \o plain("detach") \o enter("FINISHED")
  \o conclude

_check_idempotency ==
  _spawn_check_node(Database, {reset_redis_pool, restart_postgres})
  \o execute(Database, recovery_key, reset_redis_pool)
  \o execute(Database, recovery_key, reset_redis_pool)
  \o step("conflict", Database, <<recovery_key, restart_postgres>>)
  \o conclude

_check_manifest_mismatch ==
  _spawn_check_node(Database, {read_metrics})
  \o command("CORRECT_SUBTREE", Database, correction_key)
  \o replacement
  \o execute(Replacement, stale_key, restart_postgres)
  \o execute(Replacement, recovery_key, reset_redis_pool)
  \o conclude

_check_sibling_isolation ==
  _spawn_check_node(Database, {read_metrics})
  \o _spawn_check_node(Sibling, {read_metrics})
  \o command("CANCEL_SUBTREE", Database, correction_key)
  \o <<{action(Database, stale_key, read_metrics), action(Sibling, recovery_key, read_metrics)}>>
  \o conclude

_check_concurrent_stale_valid ==
  _spawn_check_node(Database, {restart_postgres})
  \o _spawn_check_node(Stale, {restart_postgres})
  \o command("CORRECT_SUBTREE", Database, correction_key)
  \o replacement
  \o <<{action(Stale, stale_key, restart_postgres),
        action(Replacement, recovery_key, reset_redis_pool)}>>
  \o conclude

\* The handler that begins a demonstration.
opening ==
  CASE scenario = "stale-supersession" -> start
    [] scenario = "cancellation" -> _check_cancellation
    [] scenario = "lease-expiry" -> _start_lease_expiry
    [] scenario = "idempotent-retry" -> _check_idempotency
    [] scenario = "recovery-manifest-mismatch" -> _check_manifest_mismatch
    [] scenario = "sibling-isolation" -> _check_sibling_isolation
    [] scenario = "concurrent-stale-valid" -> _check_concurrent_stale_valid

-----------------------------------------------------------------------------
(* The control of a handler.                                               *)
calls(r) == IF thread[r].todo = <<>> THEN {} ELSE Head(thread[r].todo)

left(r, c) ==
  LET later == Tail(thread[r].todo) IN
  IF calls(r) = {c} THEN later ELSE <<calls(r) \ {c}>> \o later

\* The handler returns or raises: the with block is left.
leave(r) ==
  /\ thread' = [thread EXCEPT ![r] = Idle]
  /\ lock' = IF lock = r THEN Nobody ELSE lock

continue(r, todo) ==
  IF todo = <<>> THEN leave(r)
  ELSE thread' = [thread EXCEPT ![r].todo = todo] /\ UNCHANGED lock

proceed(r, c) == continue(r, left(r, c))

\* Mutant: start does not close the manager when the worker cannot be started.
raise_open(r, c) == leave(r)

\* start closes the manager it started when the worker factory raises.
raise(r, c) ==
  IF c.do \in {"launch", "await_waiting"} THEN continue(r, manager_close) ELSE leave(r)

HTTPHandler ==
  [supersede |-> supersede, release_stale_worker |-> release_stale_worker,
   run_replacement |-> run_replacement, build_proof |-> build_proof, reset |-> reset]

begin(r, op, todo) ==
  /\ thread[r] = Idle
  /\ thread' = [thread EXCEPT ![r] = [op |-> op, todo |-> todo]]
  /\ UNCHANGED <<vars, scenario, lock, manager, worker, reason>>

\* The demonstration is begun once; each begins with a run of its own.
open(r) ==
  /\ ~down /\ registered = {Root} /\ \A q \in Task : thread[q] = Idle
  /\ begin(r, "open", opening)
  /\ UNCHANGED session

\* _get, before the lock is waited for.
transition(r) ==
  /\ ~down /\ listed /\ scenario = "stale-supersession"
  /\ \E op \in DOMAIN HTTPHandler : begin(r, op, HTTPHandler[op])
  /\ UNCHANGED session

\* Mutant: the lease is not looked at before the gateway is called.
finish_early(r) ==
  /\ ~down /\ listed /\ scenario = "lease-expiry" /\ phase # "FINISHED"
  /\ begin(r, "finish", finish_lease_expiry)
  /\ UNCHANGED session

\* finish_lease_expiry reads the check and the lease without any lock.
finish(r) ==
  /\ ~down /\ listed /\ scenario = "lease-expiry" /\ phase # "FINISHED"
  /\ lease[Database] < now
  /\ begin(r, "finish", finish_lease_expiry)
  /\ UNCHANGED session

\* The lifespan closes the controller before it waits for the operations that still run.
shut_down(r) ==
  /\ ~down
  /\ down' = TRUE
  /\ begin(r, "close", close)
  /\ UNCHANGED <<phase, listed, attached, verdict, aborted>>

-----------------------------------------------------------------------------
(* The calls.  An exception of a service ends the handler.                 *)
parent_of(n) == IF n = Stale THEN Database ELSE Root

issued(key) == {i \in DOMAIN commands : commands[i].key = key}
recorded(n, key) == \E a \in attempts : a.node = n /\ a.key = key

\* action_gateway.execute: the reason it stores.
denial_reason(n, tool) ==
  LET found == validate_node_runtime_state(n, status[n], lease[n]) IN
  IF found = "SCOPE_INVALID"
  THEN IF effective_status(n) = "SUPERSEDED" THEN "SCOPE_SUPERSEDED" ELSE "SCOPE_CANCELLED"
  ELSE IF found # "ALLOWED" THEN found
  ELSE IF ~recovery_contract_allows(n, tool) THEN "RECOVERY_TOOL_MISMATCH"
  ELSE IF tool \notin reg[n].caps THEN "TOOL_NOT_ALLOWED" ELSE "ALLOWED"

decide(n, key, tool) ==
  \/ recorded(n, key) /\ UNCHANGED <<vars, reason>>
  \/ /\ execute_allow(n, key, tool) \/ execute_deny_stale(n, key, tool)
                                    \/ execute_deny(n, key, tool)
     /\ reason' = [reason EXCEPT ![key] = denial_reason(n, tool)]

\* create_replacement with an operation_key: a retry recovers a replacement that is still
\* to be activated.
replaced ==
  \/ \E i \in issued(correction_key) : create_replacement(Root, Replacement, i)
  \/ /\ status[Replacement] = "PENDING" /\ reg[Replacement].expires > now
     /\ UNCHANGED vars

commanded(n, key, type) ==
  \/ issued(key) # {} /\ UNCHANGED vars
  \/ issue_command(Operator, key, type, n,
                   IF type = "CORRECT_SUBTREE" THEN reset_redis_pool ELSE NoTool, NoProposal)

service(r, c) ==
  /\ \/ c.do = "spawn" /\ create_spawn(parent_of(c.node), c.node, c.arg)
     \/ c.do = "activate" /\ activate(c.node, now)
     \/ c.do = "command" /\ commanded(c.node, c.arg[1], c.arg[2])
     \/ c.do = "replace" /\ replaced
     \/ c.do = "complete" /\ complete_node(c.node)
     \/ c.do = "scan" /\ expire_stale_nodes(now)
     \/ c.do = "conflict" /\ recorded(c.node, c.arg[1]) /\ UNCHANGED vars
     \/ c.do = "prove" /\ UNCHANGED vars
  /\ proceed(r, c)
  /\ UNCHANGED <<scenario, session, manager, worker, reason>>

execution(r, c) ==
  /\ c.do = "execute"
  /\ decide(c.node, c.arg[1], c.arg[2])
  /\ proceed(r, c)
  /\ UNCHANGED <<scenario, session, manager, worker>>

pending_checkpoint(n) == {k \in checkpoints : k.node = n}

\* A checkpoint's three steps, and its answer with the last.
checkpoint(n, answer) ==
  \/ answer = "none" /\ pending_checkpoint(n) = {} /\ checkpoint_read(n)
  \/ \E k \in pending_checkpoint(n) :
       \/ /\ checkpoint_decide(k)
          /\ answer = IF \E l \in checkpoints' : l.node = n THEN "none" ELSE "refused"
       \/ /\ checkpoint_write(k)
          /\ answer = IF k.to = "WAITING" THEN "allowed" ELSE "refused"

checkpointing(r, c) ==
  /\ c.do = "checkpoint"
  /\ \E answer \in {"none", "allowed", "refused"} :
       /\ checkpoint(c.node, answer)
       /\ IF answer = "none" THEN UNCHANGED <<thread, lock>>
          ELSE IF answer = c.arg THEN proceed(r, c) ELSE raise(r, c)
  /\ UNCHANGED <<scenario, session, manager, worker, reason>>

\* A service refuses or raises; a checkpoint is then given up.
failure(r, c) ==
  /\ c.do \in {"spawn", "activate", "command", "replace", "complete", "scan", "prove",
               "execute", "checkpoint", "launch"}
  /\ IF c.do = "checkpoint" /\ pending_checkpoint(c.node) # {}
     THEN \E k \in pending_checkpoint(c.node) : checkpoint_abandon(k)
     ELSE UNCHANGED vars
  /\ raise(r, c)
  /\ UNCHANGED <<scenario, session, manager, worker, reason>>

-----------------------------------------------------------------------------
(* What a check expects, by action key and effect.                         *)
effects(tool) == Cardinality({a \in attempts : a.tool = tool /\ a.decision = "ALLOW"})

as_expected ==
  LET denied == reason[stale_key]
      recovered == reason[recovery_key] = "ALLOWED"
      no_restart == effects(restart_postgres) = 0
      one_reset == effects(reset_redis_pool) = 1 IN
  CASE scenario = "cancellation" -> denied = "SCOPE_CANCELLED" /\ no_restart
    [] scenario = "lease-expiry" -> denied = "LEASE_EXPIRED" /\ no_restart
    [] scenario = "idempotent-retry" -> one_reset
    [] scenario = "recovery-manifest-mismatch" ->
         denied = "RECOVERY_TOOL_MISMATCH" /\ recovered /\ one_reset
    [] scenario = "sibling-isolation" -> denied = "SCOPE_CANCELLED" /\ recovered
    [] scenario = "concurrent-stale-valid" ->
         denied = "SCOPE_SUPERSEDED" /\ recovered /\ no_restart /\ one_reset

expectation(r, c) ==
  /\ c.do = "expect"
  /\ verdict' = IF as_expected THEN "PASS" ELSE "FAIL"
  /\ leave(r)
  /\ UNCHANGED <<vars, scenario, phase, listed, attached, down, aborted, manager, worker,
                 reason>>

\* release_stale_worker and run_replacement look at the action's decision.
looked_at(r, c) ==
  /\ \/ c.do = "denied"
        /\ IF recorded(c.node, c.arg) /\ reason[c.arg] = "SCOPE_SUPERSEDED"
           THEN proceed(r, c) ELSE raise(r, c)
     \/ c.do = "committed"
        /\ IF reason[c.arg] = "ALLOWED" THEN proceed(r, c) ELSE raise(r, c)
  /\ UNCHANGED <<vars, scenario, session, manager, worker, reason>>

-----------------------------------------------------------------------------
(* The session.                                                            *)
locking(r, c) ==
  /\ c.do = "lock" /\ lock = Nobody
  /\ IF phase = c.arg
     THEN lock' = r /\ thread' = [thread EXCEPT ![r].todo = left(r, c)]
     ELSE leave(r)
  /\ UNCHANGED <<vars, scenario, session, manager, worker, reason>>

entering(r, c) ==
  /\ c.do = "phase"
  /\ phase' = c.arg
  /\ proceed(r, c)
  /\ UNCHANGED <<vars, scenario, listed, attached, verdict, down, aborted, manager, worker,
                 reason>>

registering(r, c) ==
  /\ c.do = "register"
  /\ listed' = TRUE
  /\ proceed(r, c)
  /\ UNCHANGED <<vars, scenario, phase, attached, verdict, down, aborted, manager, worker,
                 reason>>

\* reset and close take the entry away without its lock.
unlisting(r, c) ==
  /\ c.do = "unlist"
  /\ listed' = FALSE
  /\ IF listed THEN proceed(r, c) ELSE leave(r)
  /\ UNCHANGED <<vars, scenario, phase, attached, verdict, down, aborted, manager, worker,
                 reason>>

\* The loop of close() over the entries before this one: a worker that does not die or a
\* keepalive thread that does not end in time raises, and the loop does not get here.
closing_others(r, c) ==
  /\ c.do = "earlier"
  /\ \/ proceed(r, c) /\ UNCHANGED aborted
     \/ leave(r) /\ aborted' = TRUE
  /\ UNCHANGED <<vars, scenario, phase, listed, attached, verdict, down, manager, worker, reason>>

-----------------------------------------------------------------------------
(* The keepalive thread.                                                   *)
keeping_alive(r, c) ==
  /\ c.do = "keep_alive"
  /\ manager' = [manager EXCEPT !.running = TRUE, !.nodes = c.arg]
  /\ attached' = TRUE
  /\ proceed(r, c)
  /\ UNCHANGED <<vars, scenario, phase, listed, verdict, down, aborted, worker, reason>>

stopping(r, c) ==
  /\ c.do = "stop"
  /\ manager' = [manager EXCEPT !.stop = @ \/ attached]
  /\ proceed(r, c)
  /\ UNCHANGED <<vars, scenario, session, worker, reason>>

\* join(timeout=3): the thread ended, or close() raises.
joining(r, c) ==
  /\ c.do = "join"
  /\ IF attached /\ manager.running THEN raise(r, c) ELSE proceed(r, c)
  /\ UNCHANGED <<vars, scenario, session, manager, worker, reason>>

detaching(r, c) ==
  /\ c.do = "detach"
  /\ attached' = FALSE
  /\ proceed(r, c)
  /\ UNCHANGED <<vars, scenario, phase, listed, verdict, down, aborted, manager, worker,
                 reason>>

beat ==
  /\ manager.running /\ ~manager.stop /\ ~manager.beating /\ manager.nodes # {}
  /\ manager' = [manager EXCEPT !.beating = TRUE]
  /\ UNCHANGED <<vars, scenario, thread, lock, session, worker, reason>>

\* The heartbeat is renewed, or it is refused and the node dropped, or it is tried again
\* in the next round.
beaten(n) ==
  /\ manager.beating
  /\ \/ /\ heartbeat_renewed(n, now) \/ UNCHANGED vars
        /\ manager' = [manager EXCEPT !.beating = FALSE]
     \/ /\ \/ heartbeat_expired(n, now) \/ heartbeat_fenced(n, now)
           \/ (run # "RUNNING" \/ status[n] \notin LiveStatus) /\ UNCHANGED vars
        /\ manager' = [manager EXCEPT !.beating = FALSE, !.nodes = @ \ {n}]
  /\ UNCHANGED <<scenario, thread, lock, session, worker, reason>>

ended ==
  /\ manager.running /\ ~manager.beating
  /\ manager.stop \/ manager.nodes = {}
  /\ manager' = [manager EXCEPT !.running = FALSE]
  /\ UNCHANGED <<vars, scenario, thread, lock, session, worker, reason>>

-----------------------------------------------------------------------------
(* The worker process.                                                     *)
exited == worker.state \in {"success", "failed", "killed"}

launching(r, c) ==
  /\ c.do = "launch"
  /\ worker' = [worker EXCEPT !.state = "starting"]
  /\ proceed(r, c)
  /\ UNCHANGED <<vars, scenario, session, manager, reason>>

\* Mutant: the controller waits without a deadline.
deadline_never == FALSE

\* _WORKER_START_DEADLINE_SECONDS and _WORKER_EXIT_DEADLINE_SECONDS may pass at any time.
deadline == TRUE

\* What became of a worker that was told to end and not seen to: it may run on.
perhaps_killed == {worker, [worker EXCEPT !.state = "killed"]}

\* _start_subprocess_worker looks for the node's status, not for the worker's answer.
awaiting_checkpoint(r, c) ==
  /\ c.do = "await_waiting"
  /\ \/ exited /\ raise(r, c) /\ UNCHANGED worker
     \/ ~exited /\ status[Stale] = "WAITING" /\ proceed(r, c) /\ UNCHANGED worker
     \/ deadline /\ raise(r, c) /\ worker' \in perhaps_killed
  /\ UNCHANGED <<vars, scenario, session, manager, reason>>

going(r, c) ==
  /\ c.do = "go"
  /\ IF exited \/ worker.go THEN raise(r, c) /\ UNCHANGED worker
     ELSE proceed(r, c) /\ worker' = [worker EXCEPT !.go = TRUE]
  /\ UNCHANGED <<vars, scenario, session, manager, reason>>

awaiting_exit(r, c) ==
  /\ c.do = "await_exit"
  /\ \/ worker.state = "success" /\ proceed(r, c)
     \/ worker.state \in {"failed", "killed"} /\ raise(r, c)
     \/ deadline /\ raise(r, c)
  /\ UNCHANGED <<vars, scenario, session, manager, worker, reason>>

\* terminate(): a worker that is still there after both waits makes it raise.
killing(r, c) ==
  /\ c.do = "kill"
  /\ \/ /\ worker' = [worker EXCEPT !.state = IF exited \/ @ = "none" THEN @ ELSE "killed"]
        /\ proceed(r, c)
        /\ UNCHANGED aborted
     \/ /\ ~exited /\ worker.state # "none"
        /\ worker' \in perhaps_killed
        /\ leave(r)
        /\ aborted' = TRUE
  /\ UNCHANGED <<vars, scenario, phase, listed, attached, verdict, down, manager, reason>>

\* run_demo_worker: its checkpoint, whose answer may be lost.
worker_checkpoint ==
  /\ worker.state = "starting" \/ (exited /\ pending_checkpoint(Stale) # {})
  /\ \E answer \in {"none", "allowed", "refused"} :
       /\ checkpoint(Stale, answer)
       /\ worker' \in IF exited \/ answer = "none" THEN {worker}
                      ELSE {[worker EXCEPT !.state = s] :
                              s \in IF answer = "allowed" THEN {"waiting", "failed"} ELSE {"failed"}}
  /\ UNCHANGED <<scenario, thread, lock, session, manager, reason>>

worker_released ==
  /\ worker.state = "waiting" /\ worker.go
  /\ worker' = [worker EXCEPT !.state = "acting", !.sent = TRUE]
  /\ UNCHANGED <<vars, scenario, thread, lock, session, manager, reason>>

\* The action may be served after the worker gave up or was killed.
worker_action ==
  /\ worker.sent
  /\ \/ /\ decide(Stale, stale_key, restart_postgres)
        /\ worker' = [worker EXCEPT !.sent = FALSE,
                                    !.state = IF @ = "acting" THEN "success" ELSE @]
     \/ /\ UNCHANGED <<vars, reason>>
        /\ worker' = [worker EXCEPT !.sent = FALSE,
                                    !.state = IF @ = "acting" THEN "failed" ELSE @]
  /\ UNCHANGED <<scenario, thread, lock, session, manager>>

\* The client's time limit of two seconds.
worker_timeout ==
  /\ worker.state \in {"starting", "acting"}
  /\ worker' = [worker EXCEPT !.state = "failed"]
  /\ UNCHANGED <<vars, scenario, thread, lock, session, manager, reason>>

-----------------------------------------------------------------------------
perform(r, c) ==
  \/ service(r, c) \/ execution(r, c) \/ checkpointing(r, c) \/ failure(r, c)
  \/ expectation(r, c) \/ looked_at(r, c)
  \/ locking(r, c) \/ entering(r, c) \/ registering(r, c) \/ unlisting(r, c)
  \/ keeping_alive(r, c) \/ stopping(r, c) \/ joining(r, c) \/ detaching(r, c)
  \/ launching(r, c) \/ awaiting_checkpoint(r, c) \/ going(r, c) \/ awaiting_exit(r, c)
  \/ killing(r, c) \/ closing_others(r, c)

run_thread(r) == \E c \in calls(r) : perform(r, c)

Requests == \E r \in Task : open(r) \/ transition(r) \/ finish(r) \/ shut_down(r)

Threads == \E r \in Task : run_thread(r)

Keepalive == beat \/ (\E n \in manager.nodes : beaten(n)) \/ ended

WorkerProcess == worker_checkpoint \/ worker_released \/ worker_action \/ worker_timeout

Elsewhere == (expire_stale_nodes(now) \/ tick) /\ UNCHANGED demo

DemoNext == Requests \/ Threads \/ Keepalive \/ WorkerProcess \/ Elsewhere

\* A thread that can go on goes on: every service call returns or raises, and the waits
\* of the controller have deadlines.
DemoFairness == \A r \in Task : WF_demoVars(run_thread(r))

DemoSpec == DemoInit /\ [][DemoNext]_demoVars /\ DemoFairness

-----------------------------------------------------------------------------
\* The phase a browser is shown is true, whatever was retried, answered late or failed in
\* between: the scope was superseded before SUPERSEDED, the stale action was denied for
\* it before STALE_DENIED, and the recovery was committed once by the replacement and the
\* replacement completed before RECOVERY_COMMITTED.
PhaseTruthful ==
  scenario = "stale-supersession" =>
    /\ phase \in {"SUPERSEDED", "STALE_DENIED", "RECOVERY_COMMITTED", "PROOF_AVAILABLE"} =>
         /\ scope[Database].status = "SUPERSEDED"
         /\ effects(restart_postgres) = 0
    /\ phase \in {"STALE_DENIED", "RECOVERY_COMMITTED", "PROOF_AVAILABLE"} =>
         \E a \in attempts : a.node = Stale /\ a.decision = "DENY" /\ a.matched # {}
    /\ phase \in {"RECOVERY_COMMITTED", "PROOF_AVAILABLE"} =>
         /\ effects(reset_redis_pool) = 1
         /\ \A i \in issued(correction_key) : commands[i].rstatus = "COMPLETED"

\* Docstring of _DemoHeartbeatManager: an "explicitly joined keepalive loop".  When no
\* handler runs and the controller has forgotten the session, nobody can stop its keepalive
\* thread any more.  It was asked to stop, whoever forgot the session and whatever raised,
\* but for one way: reset or close() took the entry out of its table and raised before it
\* came to the manager.
ForgottenManagerStops ==
  ~listed /\ manager.running =>
    manager.stop \/ aborted \/ \E r \in DOMAIN thread : thread[r] # Idle

\* A check that ran to its end and failed shows nothing but a lease that ran out while it
\* was running: no interleaving makes the gateway commit or deny anything else.
ChecksFailClosed ==
  verdict = "FAIL" =>
    \E n \in registered : status[n] = "LEASE_EXPIRED" \/ lease[n] <= now

\* A handler that is not waiting for a session's lock ends, and leaves the lock.
HandlersEnd ==
  \A r \in Task :
    LET waiting == \E c \in calls(r) : c.do = "lock" IN
    thread[r] # Idle /\ ~waiting ~> thread[r] = Idle /\ lock # r
=============================================================================
