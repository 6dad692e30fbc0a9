---------------------------- MODULE WorkerProofs ----------------------------
(***************************************************************************)
(* Theorems about the worker process: with its requests lost, refused,     *)
(* late or given up it still drives the control plane of TraceFence, it    *)
(* begins no work after its lease is lost, and its exit code is true.      *)
(***************************************************************************)
EXTENDS Worker, TraceFenceProofs

\* The worker is one of the nodes, and not the root.
LEMMA WorkerIsANode == Worker \in Node /\ Worker # Root /\ Root \in Node
  BY WorkerAssumption, RegistryAssumption

\* What a request commits, or a refusal records, is a step of the control plane.
LEMMA ServedSteps ==
  ASSUME NEW op, committed(op) \/ refusal(op)
  PROVE  [Next]_vars
  <1>1. CASE UNCHANGED vars
    BY <1>1
  <1>2. ASSUME NEW t \in 1 .. now,
               \/ activate(Worker, t) \/ heartbeat_renewed(Worker, t)
               \/ heartbeat_expired(Worker, t) \/ heartbeat_fenced(Worker, t)
        PROVE  Next
    BY <1>2, WorkerIsANode DEF Next, Lifecycle
  <1>3. ASSUME NEW key \in ActionKey, NEW tool \in Tool,
               \/ execute_allow(Worker, key, tool) \/ execute_deny_stale(Worker, key, tool)
               \/ execute_deny(Worker, key, tool)
        PROVE  Next
    <2>1. Worker \in tokens
      BY <1>3 DEF execute_allow, execute_deny_stale, execute_deny, admissible
    <2> QED  BY <1>3, <2>1 DEF Next, Gateway
  <1>4. ASSUME complete_node(Worker) PROVE Next
    BY <1>4, WorkerIsANode DEF Next, Lifecycle
  <1> QED  BY <1>1, <1>2, <1>3, <1>4 DEF committed, refusal

\* Every step of the process, of its transport and of what surrounds it is a step of the
\* control plane, or leaves its tables alone.
LEMMA WorkerSteps == [WorkerNext]_workerVars => [Next]_vars
  <1> SUFFICES ASSUME [WorkerNext]_workerVars PROVE [Next]_vars  OBVIOUS
  <1>1. CASE Process
    BY <1>1 DEF Process, launch, resume, release, notice_loss, terminate, heartbeat_send,
                heartbeat_return
  <1>2. ASSUME NEW r \in net, serve(r) PROVE [Next]_vars
    BY <1>2, ServedSteps DEF serve
  <1>3. ASSUME NEW r \in net, serve_checkpoint(r) PROVE [Next]_vars
    BY <1>3, WorkerIsANode DEF serve_checkpoint, Next, Checkpoints
  <1>4. ASSUME NEW r \in net, lose(r) \/ give_up(r) PROVE [Next]_vars
    BY <1>4 DEF lose, give_up
  <1>5. CASE Surroundings
    <2>1. ASSUME NEW caps \in SUBSET Capability, create_spawn(Root, Worker, caps) PROVE Next
      <3>1. Root \in tokens /\ Worker \in fresh
        BY <2>1 DEF create_spawn
      <3> QED  BY <2>1, <3>1 DEF Next, Lifecycle
    <2>2. ASSUME NEW key \in CommandKey, NEW type \in CommandType, NEW target \in {Root, Worker},
                 NEW tool \in Tool \cup {NoTool},
                 issue_command(Operator, key, type, target, tool, NoProposal)
          PROVE  Next
      <3>1. target \in Node /\ Operator \in Issuer
        BY WorkerIsANode DEF Issuer
      <3> QED  BY <2>2, <3>1 DEF Next, Control
    <2> QED  BY <1>5, <2>1, <2>2 DEF Surroundings, Next
  <1>6. CASE UNCHANGED workerVars
    BY <1>6 DEF workerVars
  <1> QED  BY <1>1, <1>2, <1>3, <1>4, <1>5, <1>6 DEF WorkerNext, Transport

\* runtime/worker.py reaches the control plane through its services only: a behaviour of the
\* worker is one of the control plane, so that every theorem about Spec holds of it.
THEOREM WorkerDrivesControlPlane == WorkerSpec => Spec
  <1>1. WorkerInit => Init
    BY DEF WorkerInit
  <1> QED  BY <1>1, WorkerSteps, PTL DEF WorkerSpec, Spec

\* So the fence holds under it.
LEMMA WorkerFenceInv == WorkerSpec => []FenceInv
  BY WorkerDrivesControlPlane, FenceInvInit, FenceInvStep, PTL DEF Spec

-----------------------------------------------------------------------------
(* The process.                                                            *)

\* The keepalive loop begins after the activation, and has ended when the lease is lost.
LoopInv ==
  /\ main \in {"off", "activate"} => beat = "off"
  /\ lease_lost => beat = "ended"
  /\ beat # "ended" => failures < MaxHeartbeatFailures

\* A request of run_worker that is awaited is the one it waits for.
RequestsInv ==
  \A r \in net : r.awaited /\ r.op # "heartbeat" => main = r.op /\ answers["main"] = "none"

\* Which mode does what.
ModeInv ==
  /\ mode = "cooperative" => main # "action" /\ \A r \in net : r.op # "action"
  /\ mode # "cooperative" => main # "complete"

\* No checkpoint is being served, or will be.
NoCheckpoint == checkpoints = {} /\ \A r \in net : r.op # "checkpoint"

\* A cooperative worker completes, and ends well, only when no checkpoint of it is left that
\* could still write what it read before.
CheckpointInv ==
  /\ \A c \in checkpoints : checkpoints = {c}
  /\ checkpoints # {} => \E r \in net : r.op = "checkpoint"
  /\ main \in {"off", "activate"} => NoCheckpoint
  /\ mode = "cooperative" /\ (main \in {"waiting", "complete"} \/ exit = "success")
       => NoCheckpoint
  /\ main = "checkpoint" /\ answers["main"] = "success" => NoCheckpoint
  /\ main = "checkpoint" /\ answers["main"] = "none" =>
       \A r \in net : r.op = "checkpoint" => r.awaited

Completed == status[Worker] = "COMPLETED"
Acted == \E a \in attempts : a.node = Worker

\* What an answer, and then the exit code, says has happened.
OutcomeInv ==
  /\ main = "complete" /\ answers["main"] = "success" => Completed
  /\ main = "action" /\ answers["main"] = "success" => Acted
  /\ exit = "success" => IF mode = "cooperative" THEN Completed ELSE Acted

WorkerInv ==
  WorkerTypeOK /\ LoopInv /\ RequestsInv /\ ModeInv /\ CheckpointInv /\ OutcomeInv

\* It holds before the launch.
LEMMA WorkerInitInv == WorkerInit => WorkerInv
  <1> SUFFICES ASSUME WorkerInit PROVE WorkerInv  OBVIOUS
  <1>1. checkpoints = {}
    BY DEF WorkerInit, Init, create_run
  <1>2. MaxHeartbeatFailures \in Nat /\ MaxHeartbeatFailures > 0
    BY WorkerAssumption
  <1>3a. answers \in [{"main", "beat"} -> Answer]
    BY DEF WorkerInit, Answer
  <1>3b. failures \in 0 .. MaxHeartbeatFailures /\ failures < MaxHeartbeatFailures
    BY <1>2 DEF WorkerInit
  <1>3. WorkerTypeOK /\ LoopInv
    BY <1>3a, <1>3b DEF WorkerInit, WorkerTypeOK, LoopInv
  <1>4. RequestsInv /\ ModeInv /\ CheckpointInv /\ OutcomeInv
    BY <1>1 DEF WorkerInit, RequestsInv, ModeInv, CheckpointInv, NoCheckpoint, OutcomeInv
  <1> QED  BY <1>3, <1>4 DEF WorkerInv

-----------------------------------------------------------------------------
(* The steps, in four forms.                                               *)

Task == {"main", "beat"}

\* run_worker ends; with success only on a successful answer to its last request.
Finishes(code) ==
  /\ finish(code) /\ UNCHANGED vars
  /\ main # "done" /\ code # "none"
  /\ code = "success" => main \in {"action", "complete"} /\ answers["main"] = "success"

\* run_worker goes on from one place to the next.
GoesOn(op) ==
  /\ await(op) /\ UNCHANGED vars
  /\ \/ main = "off" /\ op = "activate" /\ UNCHANGED beat
     \/ /\ main = "activate" /\ answers["main"] = "success" /\ beat' = "sleeping"
        /\ op = IF mode = "cooperative" THEN "waiting" ELSE "checkpoint"
     \/ /\ main = "checkpoint" /\ answers["main"] = "success" /\ UNCHANGED beat
        /\ op = IF mode = "cooperative" THEN "complete" ELSE "waiting"
     \/ /\ main = "waiting" /\ ~lease_lost /\ UNCHANGED beat
        /\ op = IF mode = "cooperative" THEN "checkpoint" ELSE "action"

\* Every step of run_worker has one of the two forms.
LEMMA MainForms ==
  ASSUME launch \/ resume \/ release \/ notice_loss \/ terminate
  PROVE  (\E code : Finishes(code)) \/ (\E op : GoesOn(op))
  <1>1. CASE launch
    BY <1>1 DEF launch, Finishes, GoesOn
  <1>2. CASE resume
    <2>1. CASE main = "activate" /\ after_activate
      BY <1>2, <2>1 DEF resume, after_activate, Finishes, GoesOn
    <2>2. CASE main = "checkpoint" /\ after_checkpoint
      BY <1>2, <2>2 DEF resume, after_checkpoint, Finishes, GoesOn
    <2>3. CASE main = "action" /\ after_action
      BY <1>2, <2>3 DEF resume, after_action, Finishes
    <2>4. CASE main = "complete" /\ after_complete
      BY <1>2, <2>4 DEF resume, after_complete, Finishes
    <2> QED  BY <1>2, <2>1, <2>2, <2>3, <2>4 DEF resume
  <1>3. CASE release
    BY <1>3 DEF release, may_go, Finishes, GoesOn
  <1>4. CASE notice_loss
    BY <1>4 DEF notice_loss, Finishes
  <1>5. CASE terminate
    BY <1>5 DEF terminate, Finishes
  <1> QED  BY <1>1, <1>2, <1>3, <1>4, <1>5

\* A request is served, partly or wholly, lost or given up: the task that awaits it may get an
\* answer, and then nobody awaits it any longer.
Transports(r) ==
  /\ r \in net
  /\ UNCHANGED <<mode, main, beat, failures, lease_lost, exit>>
  /\ \/ answers' = answers
     \/ /\ r.awaited /\ request(r.op) \notin net'
        /\ \E a \in Answer \ {"none"} : answers' = [answers EXCEPT ![task_of(r.op)] = a]
  /\ \/ net' = net
     \/ net' = net \ {r}
     \/ net' = (net \ {r}) \cup {[r EXCEPT !.awaited = FALSE]} /\ UNCHANGED vars

\* The requests in the network are records.
LEMMA RequestRecord ==
  ASSUME WorkerTypeOK, NEW r \in net
  PROVE  /\ r.op \in Awaiting \cup {"heartbeat"} /\ r.awaited \in BOOLEAN
         /\ r.awaited => r = request(r.op)
         /\ [r EXCEPT !.awaited = FALSE].op = r.op
         /\ ~[r EXCEPT !.awaited = FALSE].awaited
         /\ [r EXCEPT !.awaited = FALSE] \in [op: Awaiting \cup {"heartbeat"}, awaited: BOOLEAN]
  <1>1. r \in [op: Awaiting \cup {"heartbeat"}, awaited: BOOLEAN]
    BY DEF WorkerTypeOK
  <1> QED  BY <1>1 DEF request

\* Only the answer that comes with the outcome is a success.
LEMMA TransportForms ==
  ASSUME WorkerTypeOK, NEW r \in net, serve(r) \/ serve_checkpoint(r) \/ lose(r) \/ give_up(r)
  PROVE  Transports(r)
  <1> DEFINE later == [r EXCEPT !.awaited = FALSE]
  <1>r. /\ r.awaited \in BOOLEAN /\ (r.awaited => r = request(r.op))
        /\ ~later.awaited /\ request(r.op).awaited /\ abandon({r}) = {later}
    BY RequestRecord DEF request, abandon
  <1> HIDE DEF later
  <1>a. ASSUME NEW a \in {"success", "rejected"}, answered(r, a), net' = net \ {r},
               UNCHANGED <<mode, main, beat, failures, lease_lost, exit>>
        PROVE  Transports(r)
    BY <1>a, <1>r DEF answered, Transports, Answer
  <1>1. CASE serve(r)
    BY <1>1, <1>a DEF serve
  <1>2. CASE serve_checkpoint(r)
    <2>1. UNCHANGED <<mode, main, beat, failures, lease_lost, exit>>
      BY <1>2 DEF serve_checkpoint
    <2>2. \/ UNCHANGED <<answers, net>>
          \/ \E a \in {"success", "rejected"} : answered(r, a) /\ net' = net \ {r}
      BY <1>2 DEF serve_checkpoint
    <2> QED  BY <1>a, <2>1, <2>2 DEF Transports
  <1>3. CASE lose(r)
    BY <1>3, <1>r DEF lose, Transports, Answer
  <1>4. CASE give_up(r)
    <2>1. net' = (net \ {r}) \cup {later}
      BY <1>4, <1>r DEF give_up
    <2>2. request(r.op) \notin net'
      BY <1>4, <1>r, <2>1 DEF give_up
    <2> QED  BY <1>4, <2>1, <2>2 DEF give_up, Transports, Answer, later
  <1> QED  BY <1>1, <1>2, <1>3, <1>4

\* Every step, in these forms.
LEMMA StepForms ==
  ASSUME WorkerTypeOK, [WorkerNext]_workerVars
  PROVE  \/ \E code : Finishes(code)
         \/ \E op : GoesOn(op)
         \/ heartbeat_send \/ heartbeat_return
         \/ \E r \in net : Transports(r)
         \/ UNCHANGED process
  <1>1. CASE Process
    BY <1>1, MainForms DEF Process
  <1>2. CASE Transport
    BY <1>2, TransportForms DEF Transport
  <1>3. CASE Surroundings \/ UNCHANGED workerVars
    BY <1>3 DEF Surroundings, workerVars
  <1> QED  BY <1>1, <1>2, <1>3 DEF WorkerNext

-----------------------------------------------------------------------------
(* The invariants of the process, form by form.                            *)

ProcessInv == WorkerTypeOK /\ LoopInv /\ RequestsInv /\ ModeInv

\* Who is given up stays in the network, as a request nobody awaits.
LEMMA AbandonedNet ==
  ASSUME WorkerTypeOK
  PROVE  /\ abandon(net) \subseteq [op: Awaiting \cup {"heartbeat"}, awaited: BOOLEAN]
         /\ \A r \in abandon(net) : ~r.awaited /\ \E q \in net : q.op = r.op
         /\ \A q \in net : \E r \in abandon(net) : q.op = r.op
  <1>1. ASSUME NEW r \in abandon(net)
        PROVE  /\ r \in [op: Awaiting \cup {"heartbeat"}, awaited: BOOLEAN]
               /\ ~r.awaited /\ \E q \in net : q.op = r.op
    <2>1. PICK q \in net : r = [q EXCEPT !.awaited = FALSE]
      BY DEF abandon
    <2> QED  BY <2>1, RequestRecord
  <1>2. ASSUME NEW q \in net PROVE \E r \in abandon(net) : q.op = r.op
    <2>1. [q EXCEPT !.awaited = FALSE] \in abandon(net)
      BY DEF abandon
    <2> QED  BY <2>1, RequestRecord
  <1> QED  BY <1>1, <1>2

\* The end of the process.
LEMMA FinishKeeps == ASSUME ProcessInv, NEW code, Finishes(code) PROVE ProcessInv'
  <1>1. /\ exit' = code /\ code # "none" /\ main' = "done" /\ beat' = "ended" /\ lease_lost' = TRUE
        /\ net' = abandon(net) /\ UNCHANGED <<mode, failures>>
        /\ answers' = [task \in DOMAIN answers |-> "none"]
    BY DEF Finishes, finish
  <1>2. answers' \in [Task -> Answer]
    BY <1>1 DEF ProcessInv, WorkerTypeOK, Answer, Task
  <1>3. WorkerTypeOK'
    BY <1>1, <1>2, AbandonedNet DEF ProcessInv, WorkerTypeOK, Task
  <1>4. LoopInv' /\ RequestsInv' /\ ModeInv'
    BY <1>1, AbandonedNet DEF ProcessInv, LoopInv, RequestsInv, ModeInv
  <1> QED  BY <1>3, <1>4 DEF ProcessInv

\* The next request, or the wait for the release.
LEMMA GoOnKeeps == ASSUME ProcessInv, NEW op, GoesOn(op) PROVE ProcessInv'
  <1>1. /\ main' = op /\ answers' = [answers EXCEPT !["main"] = "none"]
        /\ net' = IF op = "waiting" THEN net ELSE net \cup {request(op)}
        /\ UNCHANGED <<mode, failures, lease_lost, exit>>
    BY DEF GoesOn, await
  <1>2. op \in {"activate", "waiting", "checkpoint", "complete", "action"} /\ main # "done"
    BY DEF GoesOn
  <1>3. answers' \in [Task -> Answer] /\ answers'["main"] = "none"
    BY <1>1 DEF ProcessInv, WorkerTypeOK, Answer, Task
  <1>4. /\ request(op).op = op
        /\ op # "waiting" => request(op) \in [op: Awaiting \cup {"heartbeat"}, awaited: BOOLEAN]
    BY <1>2 DEF request, Awaiting
  <1>5. beat' \in {"off", "sleeping", "sending", "ended"}
    BY DEF GoesOn, ProcessInv, WorkerTypeOK
  <1>6. WorkerTypeOK'
    BY <1>1, <1>2, <1>3, <1>4, <1>5 DEF ProcessInv, WorkerTypeOK, Awaiting, Task
  <1>7. LoopInv'
    BY <1>1 DEF GoesOn, ProcessInv, LoopInv
  <1>8. \A r \in net : r.awaited => r.op = "heartbeat"
    <2>1. \A r \in net : r.op \in Awaiting \cup {"heartbeat"}
      BY RequestRecord DEF ProcessInv
    <2> QED  BY <2>1 DEF GoesOn, ProcessInv, RequestsInv, Awaiting
  <1>9. RequestsInv'
    <2> SUFFICES ASSUME NEW r \in net', r.awaited, r.op # "heartbeat"
                 PROVE  main' = r.op /\ answers'["main"] = "none"
      BY DEF RequestsInv
    <2>1. r = request(op)
      BY <1>1, <1>8
    <2> QED  BY <1>1, <1>3, <1>4, <2>1
  <1>10. ModeInv'
    BY <1>1, <1>4 DEF GoesOn, ProcessInv, ModeInv
  <1> QED  BY <1>6, <1>7, <1>9, <1>10 DEF ProcessInv

\* The keepalive loop.
LEMMA HeartbeatKeeps == ASSUME ProcessInv, heartbeat_send \/ heartbeat_return PROVE ProcessInv'
  <1>1. CASE heartbeat_send
    <2>1. request("heartbeat") \in [op: Awaiting \cup {"heartbeat"}, awaited: BOOLEAN]
      BY DEF request
    <2>2. answers' \in [Task -> Answer] /\ answers'["main"] = answers["main"]
      BY <1>1 DEF heartbeat_send, ProcessInv, WorkerTypeOK, Answer, Task
    <2>3. WorkerTypeOK'
      BY <1>1, <2>1, <2>2 DEF heartbeat_send, ProcessInv, WorkerTypeOK, Task
    <2>4. LoopInv'
      BY <1>1 DEF heartbeat_send, ProcessInv, LoopInv
    <2>5. RequestsInv' /\ ModeInv'
      BY <1>1, <2>2 DEF heartbeat_send, ProcessInv, RequestsInv, ModeInv, request
    <2> QED  BY <2>3, <2>4, <2>5 DEF ProcessInv
  <1>2. CASE heartbeat_return
    <2> DEFINE count == IF answers["beat"] = "failed" THEN failures + 1 ELSE 0
    <2>1. /\ beat = "sending" /\ failures' = count /\ lease_lost' = lost_when(count)
          /\ beat' = IF lost_when(count) THEN "ended" ELSE "sleeping"
          /\ UNCHANGED <<mode, main, answers, net, exit>>
      BY <1>2 DEF heartbeat_return
    <2>2. /\ failures \in Nat /\ failures < MaxHeartbeatFailures
          /\ MaxHeartbeatFailures \in Nat
      BY <2>1, WorkerAssumption DEF ProcessInv, WorkerTypeOK, LoopInv
    <2>3. count \in 0 .. MaxHeartbeatFailures /\ (~lost_when(count) => count < MaxHeartbeatFailures)
      BY <2>2 DEF lost_when
    <2>4. lost_when(count) \in BOOLEAN
      BY DEF lost_when
    <2> HIDE DEF count
    <2>5. WorkerTypeOK'
      BY <2>1, <2>3, <2>4 DEF ProcessInv, WorkerTypeOK
    <2>6. LoopInv'
      BY <2>1, <2>3 DEF ProcessInv, LoopInv
    <2>7. RequestsInv' /\ ModeInv'
      BY <2>1 DEF ProcessInv, RequestsInv, ModeInv
    <2> QED  BY <2>5, <2>6, <2>7 DEF ProcessInv
  <1> QED  BY <1>1, <1>2

\* The network.
LEMMA TransportKeeps == ASSUME ProcessInv, NEW r \in net, Transports(r) PROVE ProcessInv'
  <1> DEFINE later == [r EXCEPT !.awaited = FALSE]
  <1>0. WorkerTypeOK
    BY DEF ProcessInv
  <1>1. /\ later \in [op: Awaiting \cup {"heartbeat"}, awaited: BOOLEAN]
        /\ later.op = r.op /\ ~later.awaited
        /\ r.op \in Awaiting \cup {"heartbeat"}
    BY <1>0, RequestRecord
  <1>2. net' \subseteq net \cup {later}
    BY DEF Transports
  <1>3. answers' \in [Task -> Answer]
    BY <1>0 DEF Transports, WorkerTypeOK, Task, task_of
  <1>4. UNCHANGED <<mode, main, beat, failures, lease_lost, exit>>
    BY DEF Transports
  <1>5. ASSUME NEW q \in net', q.awaited, q.op # "heartbeat"
        PROVE  q \in net /\ answers'["main"] = answers["main"]
    <2>1. q \in net /\ q = request(q.op) /\ main = q.op
      BY <1>0, <1>1, <1>2, <1>5, RequestRecord DEF ProcessInv, RequestsInv
    <2>2. CASE answers' = answers
      BY <2>1, <2>2
    <2>3. ASSUME r.awaited, request(r.op) \notin net', NEW a,
                 answers' = [answers EXCEPT ![task_of(r.op)] = a]
          PROVE  answers'["main"] = answers["main"]
      <3>1. r.op # q.op
        BY <2>1, <2>3, <1>5
      <3>2. r.op = "heartbeat"
        BY <2>1, <2>3, <3>1 DEF ProcessInv, RequestsInv
      <3> QED  BY <2>3, <3>2, <1>0 DEF task_of, WorkerTypeOK
    <2> QED  BY <2>1, <2>2, <2>3 DEF Transports
  <1> HIDE DEF later
  <1>6. WorkerTypeOK'
    BY <1>0, <1>1, <1>2, <1>3, <1>4 DEF WorkerTypeOK, Task
  <1>7. LoopInv'
    BY <1>4 DEF ProcessInv, LoopInv
  <1>8. RequestsInv'
    BY <1>4, <1>5 DEF ProcessInv, RequestsInv
  <1>9. ModeInv'
    BY <1>1, <1>2, <1>4 DEF ProcessInv, ModeInv
  <1> QED  BY <1>6, <1>7, <1>8, <1>9 DEF ProcessInv

\* So every step keeps them.
LEMMA ProcessStep == ProcessInv /\ [WorkerNext]_workerVars => ProcessInv'
  <1> SUFFICES ASSUME ProcessInv, [WorkerNext]_workerVars PROVE ProcessInv'  OBVIOUS
  <1>1. CASE UNCHANGED process
    BY <1>1 DEF process, ProcessInv, WorkerTypeOK, LoopInv, RequestsInv, ModeInv
  <1>2. WorkerTypeOK
    BY DEF ProcessInv
  <1> QED  BY <1>1, <1>2, StepForms, FinishKeeps, GoOnKeeps, HeartbeatKeeps, TransportKeeps

-----------------------------------------------------------------------------
(* Checkpoints on the way.                                                 *)

\* Only the service of a checkpoint touches what a checkpoint has read.
LEMMA OthersReadNothing ==
  /\ \A r \in net : serve(r) => checkpoints' = checkpoints
  /\ Surroundings => checkpoints' = checkpoints
  <1>1. ASSUME NEW r \in net, serve(r) PROVE checkpoints' = checkpoints
    <2>1. committed(r.op) \/ refusal(r.op)
      BY <1>1 DEF serve
    <2> QED
      BY <2>1 DEF committed, refusal, activate, heartbeat_renewed, heartbeat_expired,
                  heartbeat_fenced, execute_allow, execute_deny_stale, execute_deny,
                  complete_node, vars
  <1>2. ASSUME Surroundings PROVE checkpoints' = checkpoints
    BY <1>2 DEF Surroundings, create_spawn, issue_command, Scanner, expire_stale_nodes, tick
  <1> QED  BY <1>1, <1>2

\* An answer of the network to run_worker comes from the request it waits for.
LEMMA AnswerArrives ==
  ASSUME ProcessInv, NEW r \in net, Transports(r), answers'["main"] # answers["main"]
  PROVE  /\ r.awaited /\ r.op # "heartbeat" /\ main = r.op /\ answers["main"] = "none"
         /\ \A q \in net : q.awaited /\ q.op = r.op => q = r
  <1>1. r.awaited /\ answers' # answers
    BY DEF Transports
  <1>2. r.op # "heartbeat"
    <2> SUFFICES ASSUME r.op = "heartbeat" PROVE FALSE  OBVIOUS
    <2>1. PICK a : answers' = [answers EXCEPT !["beat"] = a]
      BY <1>1 DEF Transports, task_of
    <2> QED  BY <2>1 DEF ProcessInv, WorkerTypeOK
  <1>3. \A q \in net : q.awaited => q = request(q.op)
    BY RequestRecord DEF ProcessInv
  <1> QED  BY <1>1, <1>2, <1>3 DEF ProcessInv, RequestsInv

\* run_worker goes from place to place.
LEMMA GoOnCheckpoint ==
  ASSUME ProcessInv, CheckpointInv, NEW op, GoesOn(op)
  PROVE  CheckpointInv'
  <1>1. /\ main' = op /\ UNCHANGED <<checkpoints, mode, exit>>
        /\ net' = IF op = "waiting" THEN net ELSE net \cup {request(op)}
        /\ main # "done" /\ exit # "success"
    BY DEF GoesOn, await, vars, ProcessInv, WorkerTypeOK
  <1>2. answers'["main"] = "none"
    BY DEF GoesOn, await, ProcessInv, WorkerTypeOK
  <1>3. request(op).op = op /\ request(op).awaited
    BY DEF request
  <1>4. NoCheckpoint /\ op # "checkpoint" => NoCheckpoint'
    BY <1>1, <1>3 DEF NoCheckpoint
  <1>5. NoCheckpoint => \A r \in net' : r.op = "checkpoint" => r.awaited
    BY <1>1, <1>3 DEF NoCheckpoint
  <1>7. /\ op = "activate" => NoCheckpoint
        /\ op = "checkpoint" => NoCheckpoint
        /\ mode = "cooperative" /\ op \in {"waiting", "complete"} => NoCheckpoint
    BY DEF GoesOn, CheckpointInv
  <1>8. op # "off"
    BY DEF GoesOn
  <1>9. /\ \A c \in checkpoints' : checkpoints' = {c}
        /\ checkpoints' # {} => \E r \in net' : r.op = "checkpoint"
    BY <1>1 DEF CheckpointInv
  <1> QED  BY <1>1, <1>2, <1>4, <1>5, <1>7, <1>8, <1>9 DEF CheckpointInv

\* The other steps of the process.
LEMMA ProcessCheckpoint ==
  ASSUME ProcessInv, CheckpointInv,
         (\E code : Finishes(code)) \/ heartbeat_send \/ heartbeat_return
  PROVE  CheckpointInv'
  <1>0. WorkerTypeOK
    BY DEF ProcessInv
  <1>1. ASSUME NEW code, Finishes(code) PROVE CheckpointInv'
    <2>1. /\ main' = "done" /\ exit' = code /\ net' = abandon(net)
          /\ UNCHANGED <<checkpoints, mode>>
      BY <1>1 DEF Finishes, finish, vars
    <2>2. NoCheckpoint => NoCheckpoint'
      BY <2>1, <1>0, AbandonedNet DEF NoCheckpoint
    <2>3. code = "success" /\ mode = "cooperative" => NoCheckpoint
      BY <1>1 DEF Finishes, ProcessInv, ModeInv, CheckpointInv
    <2>4. checkpoints' # {} => \E r \in net' : r.op = "checkpoint"
      BY <2>1, <1>0, AbandonedNet DEF CheckpointInv
    <2>5. \A c \in checkpoints' : checkpoints' = {c}
      BY <2>1 DEF CheckpointInv
    <2> QED  BY <2>1, <2>2, <2>3, <2>4, <2>5 DEF CheckpointInv
  <1>2. CASE heartbeat_send
    <2>1. /\ UNCHANGED <<checkpoints, mode, main, exit>>
          /\ net' = net \cup {request("heartbeat")} /\ request("heartbeat").op = "heartbeat"
      BY <1>2 DEF heartbeat_send, vars, request
    <2>2. answers'["main"] = answers["main"]
      BY <1>2, <1>0 DEF heartbeat_send, WorkerTypeOK
    <2>3. /\ NoCheckpoint => NoCheckpoint'
          /\ \A r \in net' : r.op = "checkpoint" => r \in net
      BY <2>1 DEF NoCheckpoint
    <2> QED  BY <2>1, <2>2, <2>3 DEF CheckpointInv
  <1>3. CASE heartbeat_return
    BY <1>3 DEF heartbeat_return, CheckpointInv, NoCheckpoint, vars
  <1> QED  BY <1>1, <1>2, <1>3

\* The network: a checkpoint is answered with its last transaction, or its request is gone.
LEMMA TransportCheckpoint ==
  ASSUME ProcessInv, CheckpointInv, NEW r \in net,
         serve(r) \/ serve_checkpoint(r) \/ lose(r) \/ give_up(r)
  PROVE  CheckpointInv'
  <1>0. WorkerTypeOK /\ Transports(r)
    BY TransportForms DEF ProcessInv
  <1> DEFINE later == [r EXCEPT !.awaited = FALSE]
  <1>r. r.op \in Awaiting \cup {"heartbeat"} /\ later.op = r.op /\ ~later.awaited
    BY <1>0, RequestRecord
  <1>t. /\ UNCHANGED <<mode, main, exit>> /\ net' \subseteq net \cup {later}
        /\ answers'["main"] = "none" => answers["main"] = "none"
    BY <1>0, AnswerArrives DEF Transports
  <1>g. \A q \in net' : \E p \in net : p.op = q.op
    BY <1>r, <1>t
  \* What follows when the step is over and nothing is left, or nothing has changed.
  <1>a. ASSUME checkpoints' = {}, answers'["main"] = "success" => answers["main"] = "success",
               net' \subseteq net
        PROVE  CheckpointInv'
    <2>1. NoCheckpoint => NoCheckpoint'
      BY <1>a, <1>g DEF NoCheckpoint
    <2> QED  BY <1>a, <1>r, <1>t, <2>1 DEF CheckpointInv
  <1>1. CASE r.op # "checkpoint" /\ (serve(r) \/ lose(r) \/ give_up(r))
    <2>1. checkpoints' = checkpoints
      BY <1>1, OthersReadNothing DEF lose, give_up, vars
    <2>2. \A q \in net : q.op = "checkpoint" => q \in net'
      BY <1>1 DEF serve, lose, give_up
    <2>3. NoCheckpoint => NoCheckpoint'
      BY <1>g, <2>1 DEF NoCheckpoint
    <2>4. main = "checkpoint" => answers'["main"] = answers["main"]
      BY <1>0, <1>1, AnswerArrives
    <2>5. \A q \in net' : q.op = "checkpoint" => q \in net
      BY <1>1, <1>r, <1>t
    <2> QED  BY <1>t, <2>1, <2>2, <2>3, <2>4, <2>5 DEF CheckpointInv
  <1>2. CASE r.op = "checkpoint" /\ (serve(r) \/ lose(r))
    <2>1. net' \subseteq net
      BY <1>2 DEF serve, lose
    <2>2. checkpoints' = {}
      BY <1>2, OthersReadNothing DEF serve, lose, vars
    <2>3. serve(r) => answered(r, "rejected")
      BY <1>2 DEF serve, committed
    <2>4. answers'["main"] = "success" => answers["main"] = "success"
      BY <2>3, <1>0, <1>2 DEF answered, lose, task_of, WorkerTypeOK
    <2> QED  BY <1>a, <2>1, <2>2, <2>4
  <1>3. CASE r.op = "checkpoint" /\ give_up(r)
    <2>1. UNCHANGED checkpoints /\ r.awaited /\ net' = (net \ {r}) \cup abandon({r})
      BY <1>3 DEF give_up, vars
    <2>2. later \in net'
      BY <2>1 DEF abandon
    <2>3. answers'["main"] \in {"failed", "rejected"}
      BY <1>3, <1>0 DEF give_up, task_of, WorkerTypeOK
    <2>4. ~NoCheckpoint
      BY <1>3 DEF NoCheckpoint
    <2> QED  BY <1>3, <1>r, <1>t, <2>1, <2>2, <2>3, <2>4 DEF CheckpointInv
  <1>4. CASE serve_checkpoint(r)
    <2>1. r.op = "checkpoint" /\ ~NoCheckpoint
      BY <1>4 DEF serve_checkpoint, NoCheckpoint
    <2>2. CASE checkpoints = {} /\ checkpoint_read(Worker) /\ UNCHANGED <<answers, net>>
      <3>1. PICK c : checkpoints' = {c}
        BY <2>2 DEF checkpoint_read
      <3> QED  BY <2>1, <2>2, <3>1, <1>t DEF CheckpointInv
    <2>3. ASSUME NEW c \in checkpoints, checkpoint_decide(c),
                 IF checkpoints' # {} THEN UNCHANGED <<answers, net>>
                 ELSE answered(r, "rejected") /\ net' = net \ {r}
          PROVE  CheckpointInv'
      <3>1. checkpoints = {c}
        BY DEF CheckpointInv
      <3>2. checkpoints' = {} \/ \E d : checkpoints' = {d}
        BY <2>3, <3>1 DEF checkpoint_decide
      <3>3. CASE checkpoints' # {}
        BY <2>1, <2>3, <3>2, <3>3, <1>t DEF CheckpointInv
      <3>4. CASE checkpoints' = {}
        <4>1. answers'["main"] = "success" => answers["main"] = "success"
          BY <2>1, <2>3, <3>4, <1>0 DEF answered, task_of, WorkerTypeOK
        <4> QED  BY <1>a, <2>3, <3>4, <4>1
      <3> QED  BY <3>3, <3>4
    <2>4. ASSUME NEW c \in checkpoints, checkpoint_write(c), net' = net \ {r}
          PROVE  CheckpointInv'
      <3>1. checkpoints = {c}
        BY DEF CheckpointInv
      <3>2. checkpoints' = {}
        BY <2>4, <3>1 DEF checkpoint_write
      <3>3. CASE answers'["main"] = answers["main"]
        BY <1>a, <2>4, <3>2, <3>3
      <3>4. CASE answers'["main"] # answers["main"]
        <4>1. /\ r.awaited /\ main = "checkpoint" /\ answers["main"] = "none"
              /\ \A q \in net : q.awaited /\ q.op = r.op => q = r
          BY <2>1, <3>4, <1>0, AnswerArrives
        <4>2. \A q \in net : q.op = "checkpoint" => q = r
          BY <2>1, <4>1 DEF CheckpointInv
        <4>3. NoCheckpoint'
          BY <2>4, <3>2, <4>2 DEF NoCheckpoint
        <4> QED  BY <3>2, <4>3 DEF CheckpointInv, NoCheckpoint
      <3> QED  BY <3>3, <3>4
    <2> QED  BY <1>4, <2>2, <2>3, <2>4 DEF serve_checkpoint
  <1> QED  BY <1>1, <1>2, <1>3, <1>4, <1>r

\* Every step keeps the account of the checkpoints.
LEMMA CheckpointStep == ProcessInv /\ CheckpointInv /\ [WorkerNext]_workerVars => CheckpointInv'
  <1> SUFFICES ASSUME ProcessInv, CheckpointInv, [WorkerNext]_workerVars PROVE CheckpointInv'
    OBVIOUS
  <1>1. CASE Process
    BY <1>1, MainForms, GoOnCheckpoint, ProcessCheckpoint DEF Process
  <1>2. CASE Transport
    BY <1>2, TransportCheckpoint DEF Transport
  <1>3. CASE Surroundings \/ UNCHANGED workerVars
    <2>1. UNCHANGED <<process, checkpoints>>
      BY <1>3, OthersReadNothing DEF Surroundings, workerVars, vars
    <2> QED  BY <2>1 DEF process, CheckpointInv, NoCheckpoint
  <1> QED  BY <1>1, <1>2, <1>3 DEF WorkerNext

-----------------------------------------------------------------------------
(* What has happened to the node.                                          *)

\* Action attempts are never removed.
LEMMA ActedKept == ASSUME FenceInv, [WorkerNext]_workerVars, Acted PROVE Acted'
  <1>1. attempts \subseteq attempts'
    BY WorkerSteps, StepKinds
    DEF FenceInv, Registers, Issues, Commits, attempt, Quiet, Attributes
  <1> QED  BY <1>1 DEF Acted

\* A node recorded as completed stays so: no renewal, expiry or second completion finds it
\* live, and neither an action nor a checkpoint of it is on its way.
LEMMA CompletedKept ==
  ASSUME FenceInv, ProcessInv, [WorkerNext]_workerVars,
         mode = "cooperative", NoCheckpoint, Completed
  PROVE  Completed'
  <1>t. /\ status \in [Node -> NodeStatus \cup {"NONE"}] /\ Worker \in Node
        /\ status[Worker] = "COMPLETED"
    BY WorkerIsANode DEF FenceInv, TypeOK, Completed
  <1>1. CASE UNCHANGED status
    BY <1>1, <1>t DEF Completed
  <1>2. ASSUME NEW r \in net, serve(r) PROVE Completed'
    <2>1. r.op # "action"
      BY DEF ProcessInv, ModeInv
    <2>2. CASE committed(r.op)
      <3>1. ~(\E t \in 1 .. now : activate(Worker, t))
        BY <1>t DEF activate
      <3>2. ~(\E t \in 1 .. now : heartbeat_renewed(Worker, t))
        BY <1>t DEF heartbeat_renewed, heartbeat_live, LiveStatus
      <3>3. complete_node(Worker) => Completed'
        BY <1>t DEF complete_node, Completed
      <3> QED  BY <2>1, <2>2, <3>1, <3>2, <3>3 DEF committed
    <2>3. CASE refusal(r.op)
      BY <1>1, <1>t, <2>3
      DEF refusal, heartbeat_expired, heartbeat_fenced, heartbeat_live, LiveStatus, vars, tables
    <2> QED  BY <1>2, <2>2, <2>3 DEF serve
  <1>3. ASSUME NEW r \in net, serve_checkpoint(r) PROVE Completed'
    BY <1>3 DEF serve_checkpoint, NoCheckpoint
  <1>4. CASE Surroundings
    <2>1. ASSUME NEW caps, create_spawn(Root, Worker, caps) PROVE FALSE
      BY <2>1, <1>t DEF create_spawn, fresh, registered
    <2>2. ASSUME NEW key, NEW type, NEW target, NEW tool,
                 issue_command(Operator, key, type, target, tool, NoProposal)
          PROVE  UNCHANGED status
      BY <2>2 DEF issue_command
    <2>3. ASSUME NEW t, expire_stale_nodes(t) PROVE Completed'
      <3>1. Worker \notin stale_nodes(t)
        BY <1>t DEF stale_nodes, LiveStatus
      <3> QED  BY <2>3, <3>1, <1>t DEF expire_stale_nodes, Completed
    <2>4. tick => UNCHANGED status
      BY DEF tick, tables
    <2> QED  BY <1>1, <1>4, <2>1, <2>2, <2>3, <2>4 DEF Surroundings, Scanner
  <1>5. CASE Process \/ (\E r \in net : lose(r) \/ give_up(r)) \/ UNCHANGED workerVars
    <2>1. UNCHANGED vars
      BY <1>5 DEF Process, launch, resume, release, notice_loss, terminate, heartbeat_send,
                  heartbeat_return, lose, give_up, workerVars
    <2> QED  BY <1>1, <2>1 DEF vars, tables
  <1> QED  BY <1>2, <1>3, <1>4, <1>5 DEF WorkerNext, Transport

\* A successful answer to the last request follows what the control plane committed for it.
LEMMA AnswerTrue ==
  ASSUME FenceInv, ProcessInv, NEW r \in net,
         serve(r) \/ serve_checkpoint(r) \/ lose(r) \/ give_up(r),
         answers["main"] # "success", answers'["main"] = "success"
  PROVE  /\ main = "complete" => Completed'
         /\ main = "action" => Acted'
  <1>1. r.awaited /\ main = r.op /\ r.op # "heartbeat"
    BY TransportForms, AnswerArrives DEF ProcessInv
  <1>2. answers \in [Task -> Answer] /\ task_of(r.op) = "main"
    BY <1>1 DEF ProcessInv, WorkerTypeOK, Task, task_of
  <1>3. ~lose(r) /\ ~give_up(r)
    BY <1>2 DEF lose, give_up, Task
  <1>4. serve(r) => committed(r.op)
    BY <1>1, <1>2 DEF serve, answered, Task
  <1>5. serve_checkpoint(r) => r.op = "checkpoint"
    BY DEF serve_checkpoint
  <1>6. ASSUME main = "complete" PROVE Completed'
    <2>1. complete_node(Worker)
      BY <1>1, <1>3, <1>4, <1>5, <1>6 DEF committed
    <2> QED  BY <2>1, WorkerIsANode DEF complete_node, FenceInv, TypeOK, Completed
  <1>7. ASSUME main = "action" PROVE Acted'
    <2>1. PICK key \in ActionKey, tool \in Tool :
            \/ execute_allow(Worker, key, tool) \/ execute_deny_stale(Worker, key, tool)
            \/ execute_deny(Worker, key, tool)
      BY <1>1, <1>3, <1>4, <1>5, <1>7 DEF committed
    <2>2. \/ attempt(Worker, key, tool, "ALLOW", {}) \/ attempt(Worker, key, tool, "DENY", {})
          \/ attempt(Worker, key, tool, "DENY", commands_for_scope_mismatches(Worker))
      BY <2>1 DEF execute_allow, execute_deny_stale, execute_deny
    <2>3. PICK d, m : attempt(Worker, key, tool, d, m)
      BY <2>2
    <2> DEFINE a == [node |-> Worker, key |-> key, tool |-> tool, decision |-> d, matched |-> m,
                     place |-> Len(commands)]
    <2>4. a \in attempts' /\ a.node = Worker
      BY <2>3 DEF attempt
    <2> HIDE DEF a
    <2> QED  BY <2>4 DEF Acted
  <1> QED  BY <1>6, <1>7

\* Every step keeps the answers and the exit code true.
LEMMA OutcomeStep ==
  FenceInv /\ ProcessInv /\ CheckpointInv /\ OutcomeInv /\ [WorkerNext]_workerVars => OutcomeInv'
  <1> SUFFICES ASSUME FenceInv, ProcessInv, CheckpointInv, OutcomeInv, [WorkerNext]_workerVars
      PROVE  OutcomeInv'
    OBVIOUS
  <1>c. ASSUME mode = "cooperative" /\ (main = "complete" \/ exit = "success"), Completed
        PROVE  Completed'
    BY <1>c, CompletedKept DEF CheckpointInv
  <1>m. /\ main = "complete" => mode = "cooperative"
        /\ main = "action" => mode # "cooperative"
    BY DEF ProcessInv, ModeInv
  <1>1. ASSUME NEW code, Finishes(code) PROVE OutcomeInv'
    <2>1. main' = "done" /\ exit' = code /\ UNCHANGED mode /\ UNCHANGED <<status, attempts>>
      BY <1>1 DEF Finishes, finish, vars, tables
    <2>2. code = "success" => IF mode = "cooperative" THEN Completed ELSE Acted
      BY <1>1, <1>m DEF Finishes, OutcomeInv
    <2>3. (Completed => Completed') /\ (Acted => Acted')
      BY <2>1 DEF Completed, Acted
    <2> QED  BY <2>1, <2>2, <2>3 DEF OutcomeInv
  <1>2. ASSUME NEW op, GoesOn(op) PROVE OutcomeInv'
    <2>1. answers'["main"] = "none" /\ exit' = exit /\ exit # "success"
      BY <1>2 DEF GoesOn, await, ProcessInv, WorkerTypeOK
    <2> QED  BY <2>1 DEF OutcomeInv
  <1>3. CASE \/ heartbeat_send \/ heartbeat_return \/ Surroundings \/ UNCHANGED workerVars
    <2>1. UNCHANGED <<mode, main, exit>> /\ answers'["main"] = answers["main"]
      BY <1>3 DEF heartbeat_send, heartbeat_return, Surroundings, workerVars, process,
                  ProcessInv, WorkerTypeOK
    <2> QED  BY <2>1, <1>c, <1>m, ActedKept DEF OutcomeInv
  <1>4. ASSUME NEW r \in net, serve(r) \/ serve_checkpoint(r) \/ lose(r) \/ give_up(r)
        PROVE  OutcomeInv'
    <2>1. UNCHANGED <<mode, main, exit>>
      BY <1>4, TransportForms DEF ProcessInv, Transports
    <2>2. main = "complete" /\ answers'["main"] = "success" => Completed'
      BY <1>4, <1>c, <1>m, AnswerTrue DEF OutcomeInv
    <2>3. main = "action" /\ answers'["main"] = "success" => Acted'
      BY <1>4, AnswerTrue, ActedKept DEF OutcomeInv
    <2>4. exit = "success" => IF mode = "cooperative" THEN Completed' ELSE Acted'
      BY <1>c, ActedKept DEF OutcomeInv
    <2> QED  BY <2>1, <2>2, <2>3, <2>4 DEF OutcomeInv
  <1> QED  BY <1>1, <1>2, <1>3, <1>4, MainForms DEF WorkerNext, Process, Transport

-----------------------------------------------------------------------------
(* The theorems.                                                           *)

\* WorkerInv holds throughout.
LEMMA WorkerInvHolds == WorkerSpec => []WorkerInv
  <1>1. WorkerInit => WorkerInv
    BY WorkerInitInv
  <1>2. FenceInv /\ WorkerInv /\ [WorkerNext]_workerVars => WorkerInv'
    BY ProcessStep, CheckpointStep, OutcomeStep DEF WorkerInv, ProcessInv
  <1> QED  BY <1>1, <1>2, WorkerFenceInv, PTL DEF WorkerSpec

\* The state of the process keeps its types, and it has an exit code exactly when it is done.
THEOREM WorkerTypeCorrect == WorkerSpec => []WorkerTypeOK
  <1>1. WorkerInv => WorkerTypeOK
    BY DEF WorkerInv
  <1> QED  BY <1>1, WorkerInvHolds, PTL

\* run_worker's exit code: whatever answers were lost, came too late or were given up, success
\* means that the node is recorded as completed, or its action as decided.
THEOREM ExitFaithfulHolds == WorkerSpec => []ExitFaithful
  <1>1. WorkerInv => ExitFaithful
    BY DEF WorkerInv, OutcomeInv, ExitFaithful, Completed, Acted
  <1> QED  BY <1>1, WorkerInvHolds, PTL

\* lease_lost: once the lease is lost no request is sent, but for the completion that follows a
\* checkpoint answered before.
THEOREM NoWorkAfterLossHolds == WorkerSpec => NoWorkAfterLoss
  <1> DEFINE Body == lease_lost => \A r \in net' \ net : r.awaited => r.op = "complete"
  <1>1. ASSUME WorkerInv, [WorkerNext]_workerVars, lease_lost,
               NEW r \in net' \ net, r.awaited
        PROVE  r.op = "complete"
    <2>0. WorkerTypeOK /\ LoopInv
      BY <1>1 DEF WorkerInv
    <2>1. ASSUME NEW code, Finishes(code) PROVE FALSE
      BY <1>1, <2>0, <2>1, AbandonedNet DEF Finishes, finish
    <2>2. ASSUME NEW op, GoesOn(op) PROVE r.op = "complete"
      <3>1. op \in {"complete", "waiting"}
        BY <1>1, <2>0, <2>2 DEF GoesOn, LoopInv
      <3> QED  BY <1>1, <2>2, <3>1 DEF GoesOn, await, request
    <2>3. ~heartbeat_send
      BY <1>1, <2>0 DEF heartbeat_send, LoopInv
    <2>4. ASSUME NEW q \in net, Transports(q) PROVE FALSE
      BY <1>1, <2>0, <2>4, RequestRecord DEF Transports
    <2>5. heartbeat_return \/ UNCHANGED process => net' = net
      BY DEF heartbeat_return, process
    <2> QED  BY <1>1, <2>0, <2>1, <2>2, <2>3, <2>4, <2>5, StepForms
  <1>2. WorkerInv /\ [WorkerNext]_workerVars => [Body]_workerVars
    BY <1>1
  <1>3. NoWorkAfterLoss <=> [][Body]_workerVars
    BY DEF NoWorkAfterLoss
  <1> HIDE DEF Body
  <1> QED  BY <1>2, <1>3, WorkerInvHolds, PTL DEF WorkerSpec
=============================================================================
