------------------------------- MODULE Worker -------------------------------
(***************************************************************************)
(* runtime/worker.py: the process that drives one node over HTTP.  Two     *)
(* asyncio tasks share the event lease_lost: run_worker itself (main) and  *)
(* heartbeat_loop (beat).  Every request may be lost, refused, answered    *)
(* late or given up while the control plane still serves it.               *)
(***************************************************************************)
EXTENDS TraceFence

CONSTANTS
  Worker,                \* the node driven by the process
  MaxHeartbeatFailures,  \* --max-heartbeat-failures
  MaxAbandoned           \* bound of the model: requests given up and still to be served

ASSUME WorkerAssumption ==
  Worker \in Node \ {Root} /\ MaxHeartbeatFailures \in Nat \ {0} /\ MaxAbandoned \in Nat

VARIABLES
  mode,        \* --mode
  main,        \* what run_worker waits for
  beat,        \* heartbeat_loop: "off", "sleeping", "sending" or "ended"
  failures,    \* its consecutive transport failures
  lease_lost,  \* the event the two tasks share
  answers,     \* the answer that reached each task: its status, or a transport failure
  net,         \* requests sent and not served; the first is awaited or abandoned
  exit         \* the exit code, "none" while the process runs

process == <<mode, main, beat, failures, lease_lost, answers, net, exit>>
workerVars == <<vars, process>>

Mode == {"cooperative", "non_compliant_action"}
Awaiting == {"activate", "checkpoint", "action", "complete"}
Answer == {"none", "success", "rejected", "failed"}

WorkerTypeOK ==
  /\ mode \in Mode
  /\ main \in Awaiting \cup {"off", "waiting", "done"}
  /\ beat \in {"off", "sleeping", "sending", "ended"}
  /\ failures \in 0 .. MaxHeartbeatFailures
  /\ lease_lost \in BOOLEAN
  /\ answers \in [{"main", "beat"} -> Answer]
  /\ net \subseteq [op: Awaiting \cup {"heartbeat"}, awaited: BOOLEAN]
  /\ (exit = "none") <=> (main # "done")

WorkerInit ==
  /\ Init
  /\ mode \in Mode
  /\ main = "off" /\ beat = "off" /\ failures = 0 /\ lease_lost = FALSE
  /\ answers = [task \in {"main", "beat"} |-> "none"]
  /\ net = {} /\ exit = "none"

-----------------------------------------------------------------------------
(* The two ends of a request.                                              *)
request(op) == [op |-> op, awaited |-> TRUE]
task_of(op) == IF op = "heartbeat" THEN "beat" ELSE "main"
abandoned == {r \in net : ~r.awaited}

abandon(rs) == {[r EXCEPT !.awaited = FALSE] : r \in rs}

\* An answer reaches the task that awaits it, or is lost on the way.
answered(r, answer) ==
  answers' \in IF r.awaited THEN {[answers EXCEPT ![task_of(r.op)] = a] : a \in {answer, "failed"}}
               ELSE {answers}

\* What the control plane commits for a request that it accepts.
committed(op) ==
  \/ op = "activate" /\ \E t \in 1 .. now : activate(Worker, t)
  \/ op = "heartbeat" /\ \E t \in 1 .. now : heartbeat_renewed(Worker, t)
  \/ /\ op = "action"
     /\ \E key \in ActionKey, tool \in Tool : \/ execute_allow(Worker, key, tool)
                                             \/ execute_deny_stale(Worker, key, tool)
                                             \/ execute_deny(Worker, key, tool)
  \/ op = "complete" /\ complete_node(Worker)

\* Any request may be refused, if only by a quota; the heartbeat of an expired or fenced
\* node is recorded and refused.
refusal(op) ==
  \/ UNCHANGED vars
  \/ /\ op = "heartbeat"
     /\ \E t \in 1 .. now : heartbeat_expired(Worker, t) \/ heartbeat_fenced(Worker, t)

serve(r) ==
  /\ r \in net
  /\ r.op = "checkpoint" => checkpoints = {}
  /\ \/ committed(r.op) /\ answered(r, "success")
     \/ refusal(r.op) /\ answered(r, "rejected")
  /\ net' = net \ {r}
  /\ UNCHANGED <<mode, main, beat, failures, lease_lost, exit>>

\* A checkpoint is served in three steps and answered with the last.
serve_checkpoint(r) ==
  /\ r \in net /\ r.op = "checkpoint"
  /\ \/ checkpoints = {} /\ checkpoint_read(Worker) /\ UNCHANGED <<answers, net>>
     \/ \E c \in checkpoints :
          \/ /\ checkpoint_decide(c)
             /\ IF checkpoints' # {} THEN UNCHANGED <<answers, net>>
                ELSE answered(r, "rejected") /\ net' = net \ {r}
          \/ /\ checkpoint_write(c)
             /\ answered(r, IF c.to = "WAITING" THEN "success" ELSE "rejected")
             /\ net' = net \ {r}
  /\ UNCHANGED <<mode, main, beat, failures, lease_lost, exit>>

\* The request never arrives: a connection error.
lose(r) ==
  /\ r \in net /\ r.awaited
  /\ r.op = "checkpoint" => checkpoints = {}
  /\ answers' = [answers EXCEPT ![task_of(r.op)] = "failed"]
  /\ net' = net \ {r}
  /\ UNCHANGED <<vars, mode, main, beat, failures, lease_lost, exit>>

\* httpx times out, or the service's deadline answers 503; the operation continues.
give_up(r) ==
  /\ r \in net /\ r.awaited
  /\ Cardinality(abandoned) < MaxAbandoned
  /\ answers' \in {[answers EXCEPT ![task_of(r.op)] = a] : a \in {"failed", "rejected"}}
  /\ net' = (net \ {r}) \cup abandon({r})
  /\ UNCHANGED <<vars, mode, main, beat, failures, lease_lost, exit>>

-----------------------------------------------------------------------------
\* The finally block and the client's close: nobody waits any longer.
finish(code) ==
  /\ exit' = code
  /\ main' = "done" /\ beat' = "ended" /\ lease_lost' = TRUE
  /\ net' = abandon(net)
  /\ answers' = [task \in DOMAIN answers |-> "none"]
  /\ UNCHANGED <<mode, failures>>

\* run_worker goes on to a request, or to wait.
await(op) ==
  /\ main' = op
  /\ net' = IF op = "waiting" THEN net ELSE net \cup {request(op)}
  /\ answers' = [answers EXCEPT !["main"] = "none"]
  /\ UNCHANGED <<mode, failures, lease_lost, exit>>

\* An unusable startup payload or HTTP deadline ends the process before any request.
launch ==
  /\ main = "off" /\ status[Worker] # "NONE"
  /\ \/ await("activate") /\ UNCHANGED beat
     \/ finish("internal")
  /\ UNCHANGED vars

after_activate ==
  \/ /\ answers["main"] = "success" /\ beat' = "sleeping"
     /\ await(IF mode = "cooperative" THEN "waiting" ELSE "checkpoint")
  \/ answers["main"] = "rejected" /\ finish("activation_rejected")
  \/ answers["main"] = "failed" /\ finish("internal")

after_checkpoint ==
  \/ /\ answers["main"] = "success"
     /\ await(IF mode = "cooperative" THEN "complete" ELSE "waiting")
     /\ UNCHANGED beat
  \/ answers["main"] = "rejected" /\ finish("checkpoint_denied")
  \/ answers["main"] = "failed" /\ finish("internal")

\* A denied action is an answer like an allowed one.
after_action ==
  \/ answers["main"] = "success" /\ finish("success")
  \/ answers["main"] = "rejected" /\ finish("operation_rejected")
  \/ answers["main"] = "failed" /\ finish("internal")

\* Mutant: the answer to the completion is not looked at.
after_complete_any == answers["main"] # "none" /\ finish("success")

after_complete ==
  \/ answers["main"] = "success" /\ finish("success")
  \/ answers["main"] = "rejected" /\ finish("completion_rejected")
  \/ answers["main"] = "failed" /\ finish("internal")

\* post_while_live returns the answer although lease_lost may have been set meanwhile.
resume ==
  /\ answers["main"] # "none"
  /\ \/ main = "activate" /\ after_activate
     \/ main = "checkpoint" /\ after_checkpoint
     \/ main = "action" /\ after_action
     \/ main = "complete" /\ after_complete
  /\ UNCHANGED vars

\* Mutant: the release wins over a lease lost while waiting.
may_go_always == TRUE

may_go == ~lease_lost

\* wait_for_work_release: GO or the delay, end of input or another line.
release ==
  /\ main = "waiting" /\ may_go
  /\ \/ /\ await(IF mode = "cooperative" THEN "checkpoint" ELSE "action")
        /\ UNCHANGED beat
     \/ finish("internal")
  /\ UNCHANGED vars

notice_loss ==
  /\ main \in {"waiting", "checkpoint", "action", "complete"}
  /\ lease_lost
  /\ finish("lease_lost")
  /\ UNCHANGED vars

\* SIGTERM: the worker task is cancelled wherever it waits.
terminate ==
  /\ main \notin {"off", "done"}
  /\ finish("terminated")
  /\ UNCHANGED vars

-----------------------------------------------------------------------------
heartbeat_send ==
  /\ beat = "sleeping"
  /\ beat' = "sending"
  /\ net' = net \cup {request("heartbeat")}
  /\ answers' = [answers EXCEPT !["beat"] = "none"]
  /\ UNCHANGED <<vars, mode, main, failures, lease_lost, exit>>

\* Mutants: a refused heartbeat is taken for a success; only a refusal ends the loop.
lost_when_silent(count) == count >= MaxHeartbeatFailures
lost_when_refused(count) == answers["beat"] = "rejected"

lost_when(count) == answers["beat"] = "rejected" \/ count >= MaxHeartbeatFailures

\* A refusal of any kind, or too many failures in a row, is the loss of the lease.
heartbeat_return ==
  LET count == IF answers["beat"] = "failed" THEN failures + 1 ELSE 0 IN
  /\ beat = "sending" /\ answers["beat"] # "none"
  /\ failures' = count
  /\ lease_lost' = lost_when(count)
  /\ beat' = IF lost_when(count) THEN "ended" ELSE "sleeping"
  /\ UNCHANGED <<vars, mode, main, answers, net, exit>>

-----------------------------------------------------------------------------
Process ==
  launch \/ resume \/ release \/ notice_loss \/ terminate \/ heartbeat_send \/ heartbeat_return

Transport == \E r \in net : serve(r) \/ serve_checkpoint(r) \/ lose(r) \/ give_up(r)

\* The parent that registers the node, the operator, the scanner and the clock.
Surroundings ==
  /\ \/ \E caps \in SUBSET Capability : create_spawn(Root, Worker, caps)
     \/ \E key \in CommandKey, type \in CommandType, target \in {Root, Worker},
          tool \in Tool \cup {NoTool} :
          issue_command(Operator, key, type, target, tool, NoProposal)
     \/ Scanner
     \/ tick
  /\ UNCHANGED process

WorkerNext == Process \/ Transport \/ Surroundings

\* The event loop runs what is ready, timers fire, and every awaited request ends by an
\* answer or by the client's time limit.  Nothing is assumed of the operator, of the one
\* who releases the worker, nor of the scanner.
request_ends(op) ==
  serve(request(op)) \/ serve_checkpoint(request(op)) \/ lose(request(op)) \/ give_up(request(op))

WorkerFairness ==
  /\ WF_workerVars(resume) /\ WF_workerVars(notice_loss)
  /\ WF_workerVars(heartbeat_send) /\ WF_workerVars(heartbeat_return)
  /\ WF_workerVars(request_ends("heartbeat"))
  /\ \A op \in Awaiting : WF_workerVars(request_ends(op))

WorkerSpec == WorkerInit /\ [][WorkerNext]_workerVars /\ WorkerFairness

-----------------------------------------------------------------------------
\* The exit code is true, whatever answers were lost, came too late or were given up: the
\* success of a cooperative worker means that its node is recorded as completed, the one
\* of a non-compliant worker that the gateway has decided its action.
ExitFaithful ==
  exit = "success" => IF mode = "cooperative" THEN status[Worker] = "COMPLETED"
                      ELSE \E a \in attempts : a.node = Worker

\* Once its lease is lost a worker begins nothing new, except that the completion may
\* follow a checkpoint whose answer was already there.
NoWorkAfterLoss ==
  [][lease_lost => \A r \in net' \ net : r.awaited => r.op = "complete"]_workerVars

\* tests/subprocess/test_worker_lifecycle.py: a fenced worker ends without anybody
\* releasing it: its heartbeats are refused or fail, and it notices.
FencedWorkerStops ==
  beat # "off" /\ ~scopes_allowed(Worker) ~> main = "done"
=============================================================================
