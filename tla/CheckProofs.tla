---------------------------- MODULE CheckProofs -----------------------------
(***************************************************************************)
(* The checks of the demo controller fail closed: as long as no lease has  *)
(* run out, what is left of a check, the scopes, the nodes and the ledger  *)
(* agree so that the gateway can give no answer but the one the check      *)
(* expects, whatever else interleaves with it and whichever call fails.    *)
(***************************************************************************)
EXTENDS DemoProofs

-----------------------------------------------------------------------------
(* The checks: what they are to be told, and what each has done when it    *)
(* looks at that.                                                          *)

\* A node with a credential holds a lease that ran out.
Lapsed == \E n \in tokens : lease[n] <= now

\* The demonstrations that begin and end in one request.
Checks ==
  {"cancellation", "idempotent-retry", "recovery-manifest-mismatch", "sibling-isolation",
   "concurrent-stale-valid"}

activation(n) == call("activate", n, NoTool)
closing_call == call("command", Root, <<closing_key, "CANCEL_RUN">>)
expect_call == call("expect", NoNode, NoTool)

\* The command of a check, and what it makes of the database's scope.
cuts == scenario # "idempotent-retry"
cut_type == IF scenario \in {"cancellation", "sibling-isolation"} THEN "CANCEL_SUBTREE"
            ELSE "CORRECT_SUBTREE"
cutting == call("command", Database, <<correction_key, cut_type>>)
cut_status == IF ~cuts THEN "ACTIVE"
              ELSE IF cut_type = "CANCEL_SUBTREE" THEN "CANCELLED" ELSE "SUPERSEDED"

\* The actions of a check, and the reasons the gateway is to store for them.
Acts ==
  CASE scenario = "cancellation" -> {action(Database, stale_key, restart_postgres)}
    [] scenario = "idempotent-retry" -> {action(Database, recovery_key, reset_redis_pool)}
    [] scenario = "recovery-manifest-mismatch" ->
         {action(Replacement, stale_key, restart_postgres), recovery}
    [] scenario = "sibling-isolation" ->
         {action(Database, stale_key, read_metrics), action(Sibling, recovery_key, read_metrics)}
    [] scenario = "concurrent-stale-valid" -> {action(Stale, stale_key, restart_postgres), recovery}

told(key) ==
  IF key = recovery_key THEN "ALLOWED"
  ELSE IF scenario = "recovery-manifest-mismatch" THEN "RECOVERY_TOOL_MISMATCH"
  ELSE IF cut_type = "CANCEL_SUBTREE" THEN "SCOPE_CANCELLED" ELSE "SCOPE_SUPERSEDED"

\* The calls of a check.
Sound(c) ==
  /\ c.do \in {"spawn", "activate", "checkpoint", "command", "replace", "execute", "conflict",
               "expect"}
  /\ c.do = "spawn" => /\ c.node \in {Database, Stale, Sibling}
                       /\ \A d \in Acts : d.node = c.node /\ d.arg[1] = recovery_key => d.arg[2] \in c.arg
  /\ c.do = "checkpoint" => c.arg = "allowed"
  /\ c.do = "command" => c = closing_call \/ (cuts /\ c = cutting)
  /\ c.do = "execute" => c \in Acts

\* First it prepares, then it acts, then it closes its run, then it looks.
rank(c) ==
  IF c.do \in {"execute", "conflict"} THEN 2
  ELSE IF c = closing_call THEN 3
  ELSE IF c.do = "expect" THEN 4 ELSE 1

Sorted(s) ==
  \A i, j \in 1 .. Len(s) : i <= j => \A c \in s[i], d \in s[j] : rank(c) <= rank(d)

Live(n) == n \in tokens /\ status[n] \in LiveStatus

\* What a check still has to do, or has done: each action is made by a live node after the
\* command.
Kept(C) ==
  /\ expect_call \in C
  /\ \A d \in Acts : recorded(d.node, d.arg[1]) \/ (d \in C /\ (activation(d.node) \in C \/ Live(d.node)))
  /\ cuts => cutting \in C \/ scope[Database].status = cut_status

Working(s) ==
  /\ Sorted(s) /\ (\A c \in all(s) : Sound(c)) /\ Kept(all(s))
  /\ run = "CANCELLED" => \A c \in all(s) : rank(c) >= 3

Closing(s) == \A c \in all(s) : c.do \in {"unlist", "earlier", "kill", "stop", "join"}

\* At most one handler is that of the check, the others take away what it left.
Handlers ==
  /\ \A r \in Task : Closing(todo(r)) \/ Working(todo(r))
  /\ \A r, q \in Task : r = q \/ Closing(todo(r)) \/ Closing(todo(q))

\* The keepalive thread and the worker process have nothing to do with it.
Resting ==
  /\ worker = [state |-> "none", go |-> FALSE, sent |-> FALSE]
  /\ manager.nodes = {}

\* Only the database's scope is fenced, and the run's when the check is over.
Fences ==
  /\ run = "RUNNING" => scope[RunScope].status = "ACTIVE"
  /\ \A n \in registered \ {Database} : scope[n].status = "ACTIVE"
  /\ Database \in registered => scope[Database].status \in {"ACTIVE", cut_status}
  /\ \A i \in 1 .. Len(commands) :
       /\ commands[i].key = correction_key => scope[Database].status = cut_status
       /\ commands[i].type = "CORRECT_SUBTREE" => commands[i].tool = reset_redis_pool

\* The nodes are the root's children, the stale one the database's.
Lineage ==
  /\ \A n \in registered :
       snapshot_scopes(n) \subseteq {RunScope, Root, n} \cup (IF n = Stale THEN {Database} ELSE {})
  /\ Stale \in registered => Database \in snapshot_scopes(Stale)

\* The actors have the capabilities for the actions that are to be allowed.
Grants ==
  \A d \in Acts : d.node \in registered =>
    IF d.node = Replacement
    THEN LET i == reg[Replacement].cause IN
         i # 0 /\ commands[i].tool = reset_redis_pool /\ reg[Replacement].caps = {reset_redis_pool}
    ELSE /\ reg[d.node].cause = 0
         /\ d.arg[1] = recovery_key => d.arg[2] \in reg[d.node].caps

\* The gateway recorded no action but those, and each as it is expected.
Ledger ==
  /\ {stale_key, recovery_key} \subseteq DOMAIN reason
  /\ \A a \in attempts :
       /\ \E d \in Acts : a.node = d.node /\ a.key = d.arg[1] /\ a.tool = d.arg[2]
       /\ reason[a.key] = told(a.key)
       /\ a.decision = "ALLOW" <=> a.key = recovery_key
  /\ \A a, b \in attempts : a.key = b.key => a = b

CheckTables == Fences /\ Lineage /\ Grants /\ Ledger

CheckInv ==
  /\ verdict # "FAIL" /\ Resting /\ CheckTables
  /\ Root \in tokens /\ run \in {"RUNNING", "CANCELLED"} /\ (run = "CANCELLED" => Begun)
  /\ Handlers

\* A handler that finishes a lease check begins when the lease has run out.
LeaseInv ==
  /\ verdict = "FAIL" => Lapsed
  /\ listed => Database \in tokens
  /\ \A r \in Task : /\ pending(r, "expect") => Lapsed
                     /\ pending(r, "register") =>
                          activation(Database) \in all(todo(r)) \/ Database \in tokens

ChecksInv ==
  /\ scenario = "stale-supersession" => verdict # "FAIL"
  /\ scenario = "lease-expiry" => LeaseInv
  /\ scenario \in Checks => Lapsed \/ CheckInv

-----------------------------------------------------------------------------
(* The order of the calls of a check.                                      *)

\* A handler of free calls whose ranks, from i to j, never fall.
Plan(s, A, i, j) ==
  /\ FreeScript(s, A) /\ Sorted(s)
  /\ \A c \in A : i <= rank(c) /\ rank(c) <= j

\* The ranks.
LEMMA RankType == \A c : rank(c) \in 1 .. 4
  BY DEF rank

\* One stage of calls of one rank.
LEMMA PlanStage ==
  ASSUME NEW A, NEW i, \A c \in A : c.do \in FreeKinds /\ rank(c) = i
  PROVE  Plan(<<A>>, A, i, i)
<1>1. \A c, d \in A : MayFollow(c.do, d.do)
  BY AnyFollows
<1>2. FreeScript(<<A>>, A)
  BY <1>1, OneStage DEF FreeScript
<1> DEFINE s == <<A>>
<1>3. 1 .. Len(s) = {1} /\ s[1] = A
  OBVIOUS
<1> HIDE DEF s
<1>4. \A c \in A : i <= rank(c) /\ rank(c) <= i
  BY RankType
<1>5. Sorted(s)
  BY <1>3, <1>4 DEF Sorted
<1> QED
  BY <1>2, <1>4, <1>5 DEF Plan, s

\* One plan after another whose calls are of no lower ranks.
LEMMA PlanSequel ==
  ASSUME NEW s, NEW A, NEW t, NEW B,
         NEW i \in Nat, NEW j \in Nat, NEW k \in Nat, NEW l \in Nat, i <= j, j <= k, k <= l,
         Plan(s, A, i, j), Plan(t, B, k, l)
  PROVE  Plan(s \o t, A \cup B, i, l)
<1> DEFINE S == SUBSET (A \cup B)
           u == s \o t
<1>1. FreeScript(u, A \cup B)
  BY FreeSequel DEF Plan
<1>2. \A c \in A \cup B : i <= rank(c) /\ rank(c) <= l
  <2>1. \A c \in A : rank(c) \in Int /\ i <= rank(c) /\ rank(c) <= j
    BY RankType DEF Plan
  <2>2. \A c \in B : rank(c) \in Int /\ k <= rank(c) /\ rank(c) <= l
    BY RankType DEF Plan
  <2> QED
    BY <2>1, <2>2
<1>3. s \in Seq(S) /\ t \in Seq(S)
  BY SeqMonotonic DEF Plan, FreeScript, Script
<1>4. /\ Len(s) \in Nat /\ Len(t) \in Nat
      /\ Len(u) = Len(s) + Len(t)
      /\ \A m \in 1 .. Len(s) + Len(t) : u[m] = IF m <= Len(s) THEN s[m] ELSE t[m - Len(s)]
  BY <1>3, ConcatProperties, LenProperties
<1> HIDE DEF u
<1>5. ASSUME NEW m \in 1 .. Len(u)
      PROVE  \/ m \in 1 .. Len(s) /\ u[m] = s[m]
             \/ m - Len(s) \in 1 .. Len(t) /\ u[m] = t[m - Len(s)] /\ m \notin 1 .. Len(s)
  <2>1. CASE m <= Len(s)
    BY <1>4, <2>1
  <2>2. CASE ~(m <= Len(s))
    <3>1. m - Len(s) \in 1 .. Len(t) /\ m \notin 1 .. Len(s)
      BY <1>4, <2>2
    <3> QED
      BY <1>4, <2>2, <3>1
  <2> QED
    BY <2>1, <2>2
<1>6. \A c \in A, d \in B : rank(c) <= rank(d)
  <2>1. \A c \in A : rank(c) \in Int /\ rank(c) <= j
    BY RankType DEF Plan
  <2>2. \A d \in B : rank(d) \in Int /\ k <= rank(d)
    BY RankType DEF Plan
  <2> QED
    BY <2>1, <2>2
<1>7. Sorted(u)
  <2> SUFFICES ASSUME NEW m \in 1 .. Len(u), NEW n \in 1 .. Len(u), m <= n,
                      NEW c \in u[m], NEW d \in u[n]
               PROVE  rank(c) <= rank(d)
    BY DEF Sorted
  <2>1. CASE n \in 1 .. Len(s)
    <3>1. m \in 1 .. Len(s)
      BY <1>4, <2>1
    <3> QED
      BY <1>4, <1>5, <2>1, <3>1 DEF Plan, Sorted
  <2>2. CASE m \in 1 .. Len(s) /\ n \notin 1 .. Len(s)
    <3>1. c \in s[m] /\ d \in t[n - Len(s)] /\ n - Len(s) \in 1 .. Len(t)
      BY <1>5, <2>2
    <3>2. c \in all(s) /\ d \in all(t)
      BY <2>2, <3>1 DEF all
    <3> QED
      BY <1>6, <3>2 DEF Plan, FreeScript, Script
  <2>3. CASE m \notin 1 .. Len(s) /\ n \notin 1 .. Len(s)
    <3>1. /\ m - Len(s) \in 1 .. Len(t) /\ c \in t[m - Len(s)]
          /\ n - Len(s) \in 1 .. Len(t) /\ d \in t[n - Len(s)]
          /\ m - Len(s) <= n - Len(s)
      BY <1>4, <1>5, <2>3
    <3> QED
      BY <3>1 DEF Plan, Sorted
  <2> QED
    BY <2>1, <2>2, <2>3
<1> QED
  BY <1>1, <1>2, <1>7 DEF Plan, u

\* A stage before others.
LEMMA FirstStage ==
  ASSUME NEW S, NEW A \in S, NEW t \in Seq(S)
  PROVE  /\ Len(<<A>> \o t) = 1 + Len(t)
         /\ (<<A>> \o t)[1] = A
         /\ \A m \in 2 .. 1 + Len(t) : (<<A>> \o t)[m] = t[m - 1]
<1> DEFINE s == <<A>>
           u == s \o t
<1>1. s \in Seq(S) /\ Len(s) = 1 /\ s[1] = A
  OBVIOUS
<1> HIDE DEF s
<1>2. /\ Len(u) = Len(s) + Len(t)
      /\ \A m \in 1 .. Len(s) + Len(t) : u[m] = IF m <= Len(s) THEN s[m] ELSE t[m - Len(s)]
  BY <1>1, ConcatProperties
<1> HIDE DEF u
<1>3. Len(t) \in Nat
  BY LenProperties
<1>4. /\ Len(u) = 1 + Len(t)
      /\ u[1] = A
      /\ \A m \in 2 .. 1 + Len(t) : u[m] = t[m - 1]
  BY <1>1, <1>2, <1>3
<1> QED
  BY <1>4 DEF u, s

\* What is left of a plan is one, of calls of no lower rank than the one just made.
LEMMA SortedLeft ==
  ASSUME NEW r \in Task, Script(todo(r), all(todo(r))), Sorted(todo(r)), NEW c \in calls(r)
  PROVE  /\ Sorted(left(r, c))
         /\ \A d \in all(todo(r)) : rank(c) <= rank(d)
<1> DEFINE s == todo(r)
           h == Head(s)
           rest == Tail(s)
<1>1. s # <<>> /\ c \in h
  BY DEF calls, todo
<1>2. left(r, c) = IF h = {c} THEN rest ELSE <<h \ {c}>> \o rest
  BY <1>1 DEF left, calls, todo
<1> DEFINE S == SUBSET all(s)
<1>3. s \in Seq(S) /\ Sorted(s)
  BY DEF Script
<1> HIDE DEF s, S
<1>4. /\ Len(s) \in Nat /\ Len(s) > 0 /\ h = s[1]
      /\ rest \in Seq(S) /\ Len(rest) = Len(s) - 1
      /\ \A m \in 1 .. Len(rest) : rest[m] = s[m + 1]
  BY <1>1, <1>3, EmptySeq, LenProperties, HeadTailProperties
<1>5. \A d \in all(s) : rank(c) <= rank(d)
  <2> SUFFICES ASSUME NEW m \in 1 .. Len(s), NEW d \in s[m] PROVE rank(c) <= rank(d)
    BY DEF all
  <2>1. 1 \in 1 .. Len(s) /\ 1 <= m
    BY <1>4
  <2> QED
    BY <1>1, <1>3, <1>4, <2>1 DEF Sorted
<1> HIDE DEF h, rest
<1>6. Sorted(rest)
  <2> SUFFICES ASSUME NEW m \in 1 .. Len(rest), NEW n \in 1 .. Len(rest), m <= n,
                      NEW e \in rest[m], NEW d \in rest[n]
               PROVE  rank(e) <= rank(d)
    BY DEF Sorted
  <2>1. m + 1 \in 1 .. Len(s) /\ n + 1 \in 1 .. Len(s) /\ m + 1 <= n + 1
    BY <1>4
  <2> QED
    BY <1>3, <1>4, <2>1 DEF Sorted
<1>7. Sorted(<<h \ {c}>> \o rest)
  <2> DEFINE u == <<h \ {c}>> \o rest
  <2>1. h \ {c} \in S
    <3>1. h \in S
      BY <1>3, <1>4, ElementOfSeq
    <3> QED
      BY <3>1 DEF S
  <2>2. /\ Len(u) = 1 + Len(rest) /\ u[1] = h \ {c}
        /\ \A m \in 2 .. 1 + Len(rest) : u[m] = rest[m - 1]
    BY <1>4, <2>1, FirstStage
  <2> HIDE DEF u
  <2>3. ASSUME NEW m \in 1 .. Len(u) PROVE m \in 1 .. Len(s) /\ u[m] \subseteq s[m]
    <3>1. m \in 1 .. Len(s)
      BY <1>4, <2>2
    <3>2. CASE m = 1
      BY <1>4, <2>2, <3>2
    <3>3. CASE m # 1
      <4>1. m - 1 \in 1 .. Len(rest) /\ (m - 1) + 1 = m /\ m \in 2 .. 1 + Len(rest)
        BY <1>4, <2>2, <3>1, <3>3
      <4>2. rest[m - 1] = s[m]
        BY <1>4, <4>1
      <4> QED
        BY <2>2, <3>1, <4>1, <4>2
    <3> QED
      BY <3>1, <3>2, <3>3
  <2>4. Sorted(u)
    <3> SUFFICES ASSUME NEW m \in 1 .. Len(u), NEW n \in 1 .. Len(u), m <= n,
                        NEW e \in u[m], NEW d \in u[n]
                 PROVE  rank(e) <= rank(d)
      BY DEF Sorted
    <3> QED
      BY <1>3, <2>3 DEF Sorted
  <2> QED
    BY <2>4 DEF u
<1>8. Sorted(left(r, c))
  BY <1>2, <1>6, <1>7
<1> QED
  BY <1>5, <1>8 DEF s

\* The ranks of the calls that the checks make.
LEMMA Ranks ==
  /\ \A n, arg : \A what \in {"spawn", "activate", "checkpoint", "replace"} :
       rank(call(what, n, arg)) = 1
  /\ \A arg : rank(call("command", Database, arg)) = 1
  /\ \A n, arg : rank(call("conflict", n, arg)) = 2
  /\ \A n, arg : rank(call("execute", n, arg)) = 2
  /\ rank(closing_call) = 3 /\ rank(expect_call) = 4
<1>1. Database # Root
  BY DemoAssumption
<1> QED
  BY <1>1 DEF rank, call, closing_call, expect_call

\* One more call of no lower rank.
LEMMA PlanThen ==
  ASSUME NEW s, NEW A, NEW j \in 1 .. 4, NEW k \in 1 .. 4, j <= k, Plan(s, A, 1, j),
         NEW what \in FreeKinds, NEW n, NEW arg, rank(call(what, n, arg)) = k
  PROVE  Plan(s \o step(what, n, arg), A \cup {call(what, n, arg)}, 1, k)
<1> DEFINE B == {call(what, n, arg)}
<1>1. \A c \in B : c.do \in FreeKinds /\ rank(c) = k
  BY DEF call
<1>2. Plan(<<B>>, B, k, k)
  BY <1>1, PlanStage
<1>3. step(what, n, arg) = <<B>>
  BY DEF step
<1> HIDE DEF B
<1>4. Plan(s \o step(what, n, arg), A \cup B, 1, k)
  BY <1>2, <1>3, PlanSequel
<1> QED
  BY <1>4 DEF B

\* A node is spawned and activated.
SpawnCalls(n, caps) == {call("spawn", n, caps), activation(n)}

\* Both calls prepare.
LEMMA PlanSpawn ==
  ASSUME NEW n, NEW caps
  PROVE  Plan(_spawn_check_node(n, caps), SpawnCalls(n, caps), 1, 1)
<1> DEFINE A == {call("spawn", n, caps)}
<1>1. "spawn" \in FreeKinds /\ "activate" \in FreeKinds
  BY DEF FreeKinds
<1>2. \A c \in A : c.do \in FreeKinds /\ rank(c) = 1
  <2>1. call("spawn", n, caps).do = "spawn"
    BY DEF call
  <2>2. rank(call("spawn", n, caps)) = 1
    BY Ranks
  <2> QED
    BY <1>1, <2>1, <2>2
<1>3. Plan(<<A>>, A, 1, 1)
  BY <1>2, PlanStage
<1>4. step("spawn", n, caps) = <<A>>
  BY DEF step
<1>5. rank(call("activate", n, NoTool)) = 1
  BY Ranks
<1> HIDE DEF A
<1>6. Plan(step("spawn", n, caps) \o step("activate", n, NoTool), A \cup {call("activate", n, NoTool)}, 1, 1)
  BY <1>1, <1>3, <1>4, <1>5, PlanThen
<1>7. A \cup {call("activate", n, NoTool)} = SpawnCalls(n, caps)
  BY DEF A, SpawnCalls, activation
<1> QED
  BY <1>6, <1>7 DEF _spawn_check_node

\* After what was prepared, a node more.
LEMMA PlanThenSpawn ==
  ASSUME NEW s, NEW A, Plan(s, A, 1, 1), NEW n, NEW caps
  PROVE  Plan(s \o _spawn_check_node(n, caps), A \cup SpawnCalls(n, caps), 1, 1)
  BY PlanSpawn, PlanSequel

ReplaceCalls == {call("replace", Replacement, NoTool), activation(Replacement)}

\* A replacement is created and activated.
LEMMA PlanThenReplace ==
  ASSUME NEW s, NEW A, Plan(s, A, 1, 1)
  PROVE  Plan(s \o replacement, A \cup ReplaceCalls, 1, 1)
<1> DEFINE B == {call("replace", Replacement, NoTool)}
<1>1. "replace" \in FreeKinds /\ "activate" \in FreeKinds
  BY DEF FreeKinds
<1>2. \A c \in B : c.do \in FreeKinds /\ rank(c) = 1
  <2>1. call("replace", Replacement, NoTool).do = "replace"
    BY DEF call
  <2>2. rank(call("replace", Replacement, NoTool)) = 1
    BY Ranks
  <2> QED
    BY <1>1, <2>1, <2>2
<1>3. Plan(<<B>>, B, 1, 1)
  BY <1>2, PlanStage
<1>4. step("replace", Replacement, NoTool) = <<B>>
  BY DEF step
<1>5. rank(call("activate", Replacement, NoTool)) = 1
  BY Ranks
<1> HIDE DEF B
<1>6. Plan(replacement, B \cup {call("activate", Replacement, NoTool)}, 1, 1)
  BY <1>1, <1>3, <1>4, <1>5, PlanThen DEF replacement
<1>7. B \cup {call("activate", Replacement, NoTool)} = ReplaceCalls
  BY DEF B, ReplaceCalls, activation
<1> QED
  BY <1>6, <1>7, PlanSequel

\* What was prepared, or acted on, is concluded.
LEMMA PlanConcluded ==
  ASSUME NEW s, NEW A, NEW j \in 1 .. 2, Plan(s, A, 1, j)
  PROVE  Plan(s \o conclude, A \cup {closing_call, expect_call}, 1, 4)
<1> DEFINE B == {closing_call}
           C == {expect_call}
<1>1. "command" \in FreeKinds /\ "expect" \in FreeKinds
  BY DEF FreeKinds
<1>2. /\ \A c \in B : c.do \in FreeKinds /\ rank(c) = 3
      /\ \A c \in C : c.do \in FreeKinds /\ rank(c) = 4
  BY <1>1, Ranks DEF closing_call, expect_call, call
<1>3. Plan(<<B>>, B, 3, 3) /\ Plan(<<C>>, C, 4, 4)
  BY <1>2, PlanStage
<1>4. conclude = <<B>> \o <<C>>
  BY DEF conclude, command, plain, step, closing_call, expect_call
<1> HIDE DEF B, C
<1>5. Plan(conclude, B \cup C, 3, 4)
  BY <1>3, <1>4, PlanSequel
<1>6. Plan(s \o conclude, A \cup (B \cup C), 1, 4)
  BY <1>5, PlanSequel
<1>7. B \cup C = {closing_call, expect_call}
  BY DEF B, C
<1> QED
  BY <1>6, <1>7

\* Everything the check is told by is among the calls.
Prepared(A) ==
  /\ \A c \in A : Sound(c)
  /\ expect_call \in A /\ Acts \subseteq A
  /\ \A d \in Acts : activation(d.node) \in A
  /\ cuts => cutting \in A

\* The calls of the checks are sound.
LEMMA SoundCalls ==
  /\ \A n : Sound(activation(n))
  /\ \A n : Sound(call("checkpoint", n, "allowed"))
  /\ \A n, arg : Sound(call("replace", n, arg)) /\ Sound(call("conflict", n, arg))
  /\ Sound(closing_call) /\ Sound(expect_call)
  /\ cuts => Sound(cutting)
  /\ \A d \in Acts : d.do = "execute" => Sound(d)
  /\ \A n \in {Database, Stale, Sibling} : \A caps :
       (\A d \in Acts : d.node = n /\ d.arg[1] = recovery_key => d.arg[2] \in caps)
         => Sound(call("spawn", n, caps))
<1>1. \A n, arg : \A what \in {"activate", "replace", "conflict", "expect"} : Sound(call(what, n, arg))
  BY DEF Sound, call
<1>2. \A n : Sound(call("checkpoint", n, "allowed"))
  BY DEF Sound, call
<1>3. Sound(closing_call) /\ (cuts => Sound(cutting))
  <2>1. closing_call.do = "command" /\ cutting.do = "command"
    BY DEF closing_call, cutting, call
  <2> QED
    BY <2>1 DEF Sound
<1>4. \A d \in Acts : d.do = "execute" => Sound(d)
  BY DEF Sound
<1>5. \A n \in {Database, Stale, Sibling} : \A caps :
        (\A d \in Acts : d.node = n /\ d.arg[1] = recovery_key => d.arg[2] \in caps)
          => Sound(call("spawn", n, caps))
  BY DEF Sound, call
<1> QED
  BY <1>1, <1>2, <1>3, <1>4, <1>5 DEF activation, expect_call

\* An action is one call, of a rank between the preparations and the conclusion.
LEMMA PlanThenExecute ==
  ASSUME NEW s, NEW A, NEW j \in 1 .. 2, Plan(s, A, 1, j), NEW n, NEW key, NEW tool
  PROVE  Plan(s \o execute(n, key, tool), A \cup {action(n, key, tool)}, 1, 2)
<1>1. execute(n, key, tool) = step("execute", n, <<key, tool>>)
  BY DEF execute, step, action
<1>2. "execute" \in FreeKinds /\ rank(call("execute", n, <<key, tool>>)) = 2
  BY Ranks DEF FreeKinds
<1> QED
  BY <1>1, <1>2, PlanThen DEF action

\* Two actions at once.
LEMMA PlanThenActions ==
  ASSUME NEW s, NEW A, Plan(s, A, 1, 1), NEW n, NEW tool, NEW m, NEW other
  PROVE  Plan(s \o <<{action(n, stale_key, tool), action(m, recovery_key, other)}>>,
              A \cup {action(n, stale_key, tool), action(m, recovery_key, other)}, 1, 2)
<1> DEFINE B == {action(n, stale_key, tool), action(m, recovery_key, other)}
<1>1. "execute" \in FreeKinds
  BY DEF FreeKinds
<1>2. \A c \in B : c.do = "execute"
  BY DEF action, call
<1>3. \A c \in B : rank(c) = 2
  BY Ranks DEF action
<1> HIDE DEF B
<1>4. Plan(<<B>>, B, 2, 2)
  BY <1>1, <1>2, <1>3, PlanStage
<1>5. Plan(s \o <<B>>, A \cup B, 1, 2)
  BY <1>4, PlanSequel
<1> QED
  BY <1>5 DEF B

\* One more preparation: a checkpoint, or the command.
LEMMA PlanThenPrepare ==
  ASSUME NEW s, NEW A, Plan(s, A, 1, 1)
  PROVE  /\ Plan(s \o step("checkpoint", Database, "allowed"),
                 A \cup {call("checkpoint", Database, "allowed")}, 1, 1)
         /\ Plan(s \o command(cut_type, Database, correction_key), A \cup {cutting}, 1, 1)
<1>1. {"checkpoint", "command"} \subseteq FreeKinds
  BY DEF FreeKinds
<1>2. /\ rank(call("checkpoint", Database, "allowed")) = 1
      /\ rank(call("command", Database, <<correction_key, cut_type>>)) = 1
  BY Ranks
<1> QED
  BY <1>1, <1>2, PlanThen DEF command, cutting

\* The demonstration of a cancellation.
LEMMA CancellationOpens ==
  ASSUME scenario = "cancellation"
  PROVE  \E A : Plan(_check_cancellation, A, 1, 4) /\ Prepared(A)
<1> DEFINE done == action(Database, stale_key, restart_postgres)
           A1 == SpawnCalls(Database, {restart_postgres}) \cup {call("checkpoint", Database, "allowed")}
           A2 == A1 \cup {cutting} \cup {done}
           A3 == A2 \cup {closing_call, expect_call}
<1>1. cuts /\ cut_type = "CANCEL_SUBTREE" /\ Acts = {done}
  BY DEF cuts, cut_type, Acts
<1>2. Plan(_check_cancellation, A3, 1, 4)
  <2> DEFINE s1 == _spawn_check_node(Database, {restart_postgres}) \o step("checkpoint", Database, "allowed")
             s2 == s1 \o command(cut_type, Database, correction_key)
             s3 == s2 \o execute(Database, stale_key, restart_postgres)
  <2>1. Plan(s1, A1, 1, 1)
    BY PlanSpawn, PlanThenPrepare
  <2> HIDE DEF s1, A1
  <2>2. Plan(s2, A1 \cup {cutting}, 1, 1)
    BY <2>1, PlanThenPrepare
  <2> HIDE DEF s2
  <2>3. Plan(s3, A2, 1, 2)
    BY <2>2, PlanThenExecute
  <2> HIDE DEF s3, A2
  <2>4. Plan(s3 \o conclude, A3, 1, 4)
    BY <2>3, PlanConcluded
  <2>5. s3 \o conclude = _check_cancellation
    BY <1>1 DEF s1, s2, s3, _check_cancellation
  <2> QED
    BY <2>4, <2>5
<1>3. Prepared(A3)
  <2>1. done.do = "execute" /\ done.node = Database /\ done.arg[1] = stale_key
    BY DEF action, call
  <2>2. stale_key # recovery_key
    BY DemoAssumption
  <2>3. \A c \in A3 : Sound(c)
    <3> HIDE DEF done
    <3>1. Sound(call("spawn", Database, {restart_postgres})) /\ Sound(done)
      BY <1>1, <2>1, <2>2, SoundCalls
    <3> QED
      BY <1>1, <3>1, SoundCalls DEF SpawnCalls
  <2> HIDE DEF done
  <2> QED
    BY <1>1, <2>1, <2>3 DEF Prepared, SpawnCalls
<1> QED
  BY <1>2, <1>3

\* That of a request that is made twice.
LEMMA IdempotencyOpens ==
  ASSUME scenario = "idempotent-retry"
  PROVE  \E A : Plan(_check_idempotency, A, 1, 4) /\ Prepared(A)
<1> DEFINE done == action(Database, recovery_key, reset_redis_pool)
           caps == {reset_redis_pool, restart_postgres}
           other == call("conflict", Database, <<recovery_key, restart_postgres>>)
           A1 == SpawnCalls(Database, caps)
           A2 == A1 \cup {done} \cup {done} \cup {other}
           A3 == A2 \cup {closing_call, expect_call}
<1>1. ~cuts /\ Acts = {done}
  BY DEF cuts, Acts
<1>2. Plan(_check_idempotency, A3, 1, 4)
  <2> DEFINE s1 == _spawn_check_node(Database, caps)
             s2 == s1 \o execute(Database, recovery_key, reset_redis_pool)
             s3 == s2 \o execute(Database, recovery_key, reset_redis_pool)
             s4 == s3 \o step("conflict", Database, <<recovery_key, restart_postgres>>)
  <2>1. Plan(s1, A1, 1, 1)
    BY PlanSpawn
  <2> HIDE DEF s1, A1
  <2>2. Plan(s2, A1 \cup {done}, 1, 2)
    BY <2>1, PlanThenExecute
  <2> HIDE DEF s2
  <2>3. Plan(s3, A1 \cup {done} \cup {done}, 1, 2)
    BY <2>2, PlanThenExecute
  <2>4. "conflict" \in FreeKinds /\ rank(other) = 2
    BY Ranks DEF FreeKinds
  <2> HIDE DEF s3, done
  <2>5. Plan(s4, A2, 1, 2)
    BY <2>3, <2>4, PlanThen
  <2> HIDE DEF s4, A2
  <2>6. Plan(s4 \o conclude, A3, 1, 4)
    BY <2>5, PlanConcluded
  <2>7. s4 \o conclude = _check_idempotency
    BY DEF s1, s2, s3, s4, _check_idempotency
  <2> QED
    BY <2>6, <2>7
<1>3. Prepared(A3)
  <2>1. done.do = "execute" /\ done.node = Database /\ done.arg[2] = reset_redis_pool
    BY DEF action, call
  <2> HIDE DEF done
  <2>2. \A c \in A3 : Sound(c)
    <3>1. Sound(call("spawn", Database, caps)) /\ Sound(done) /\ Sound(other)
      BY <1>1, <2>1, SoundCalls
    <3> HIDE DEF caps, other
    <3> QED
      BY <1>1, <3>1, SoundCalls DEF SpawnCalls
  <2> QED
    BY <1>1, <2>1, <2>2 DEF Prepared, SpawnCalls
<1> QED
  BY <1>2, <1>3

\* That of a replacement with another tool than its manifest's.
LEMMA MismatchOpens ==
  ASSUME scenario = "recovery-manifest-mismatch"
  PROVE  \E A : Plan(_check_manifest_mismatch, A, 1, 4) /\ Prepared(A)
<1> DEFINE done == action(Replacement, stale_key, restart_postgres)
           A1 == SpawnCalls(Database, {read_metrics}) \cup {cutting} \cup ReplaceCalls
           A2 == A1 \cup {done} \cup {recovery}
           A3 == A2 \cup {closing_call, expect_call}
<1>1. cuts /\ cut_type = "CORRECT_SUBTREE" /\ Acts = {done, recovery}
  BY DEF cuts, cut_type, Acts
<1>2. Plan(_check_manifest_mismatch, A3, 1, 4)
  <2> DEFINE s1 == _spawn_check_node(Database, {read_metrics})
             s2 == s1 \o command(cut_type, Database, correction_key)
             s3 == s2 \o replacement
             s4 == s3 \o execute(Replacement, stale_key, restart_postgres)
             s5 == s4 \o execute(Replacement, recovery_key, reset_redis_pool)
  <2>1. Plan(s1, SpawnCalls(Database, {read_metrics}), 1, 1)
    BY PlanSpawn
  <2> HIDE DEF s1
  <2>2. Plan(s2, SpawnCalls(Database, {read_metrics}) \cup {cutting}, 1, 1)
    BY <2>1, PlanThenPrepare
  <2> HIDE DEF s2
  <2>3. Plan(s3, A1, 1, 1)
    BY <2>2, PlanThenReplace
  <2> HIDE DEF s3, A1
  <2>4. Plan(s4, A1 \cup {done}, 1, 2)
    BY <2>3, PlanThenExecute
  <2> HIDE DEF s4, done
  <2>5. Plan(s5, A2, 1, 2)
    BY <2>4, PlanThenExecute DEF recovery
  <2> HIDE DEF s5, A2
  <2>6. Plan(s5 \o conclude, A3, 1, 4)
    BY <2>5, PlanConcluded
  <2>7. s5 \o conclude = _check_manifest_mismatch
    BY <1>1 DEF s1, s2, s3, s4, s5, _check_manifest_mismatch
  <2> QED
    BY <2>6, <2>7
<1>3. Prepared(A3)
  <2>1. \A d \in {done, recovery} : d.do = "execute" /\ d.node = Replacement
    BY DEF action, call, recovery
  <2>2. Replacement # Database
    BY DemoAssumption
  <2> HIDE DEF done
  <2>3. \A c \in A3 : Sound(c)
    <3>1. Sound(call("spawn", Database, {read_metrics})) /\ Sound(done) /\ Sound(recovery)
      BY <1>1, <2>1, <2>2, SoundCalls
    <3> QED
      BY <1>1, <3>1, SoundCalls DEF SpawnCalls, ReplaceCalls
  <2> QED
    BY <1>1, <2>1, <2>3 DEF Prepared, ReplaceCalls
<1> QED
  BY <1>2, <1>3

\* That of a sibling of the node that is cancelled.
LEMMA SiblingOpens ==
  ASSUME scenario = "sibling-isolation"
  PROVE  \E A : Plan(_check_sibling_isolation, A, 1, 4) /\ Prepared(A)
<1> DEFINE one == action(Database, stale_key, read_metrics)
           two == action(Sibling, recovery_key, read_metrics)
           A1 == SpawnCalls(Database, {read_metrics}) \cup SpawnCalls(Sibling, {read_metrics})
                 \cup {cutting}
           A2 == A1 \cup {one, two}
           A3 == A2 \cup {closing_call, expect_call}
<1>1. cuts /\ cut_type = "CANCEL_SUBTREE" /\ Acts = {one, two}
  BY DEF cuts, cut_type, Acts
<1>2. Plan(_check_sibling_isolation, A3, 1, 4)
  <2> DEFINE s1 == _spawn_check_node(Database, {read_metrics})
             s2 == s1 \o _spawn_check_node(Sibling, {read_metrics})
             s3 == s2 \o command(cut_type, Database, correction_key)
             s4 == s3 \o <<{one, two}>>
  <2>1. Plan(s1, SpawnCalls(Database, {read_metrics}), 1, 1)
    BY PlanSpawn
  <2> HIDE DEF s1
  <2>2. Plan(s2, SpawnCalls(Database, {read_metrics}) \cup SpawnCalls(Sibling, {read_metrics}), 1, 1)
    BY <2>1, PlanThenSpawn
  <2> HIDE DEF s2
  <2>3. Plan(s3, A1, 1, 1)
    BY <2>2, PlanThenPrepare
  <2> HIDE DEF s3, A1
  <2>4. Plan(s4, A2, 1, 2)
    BY <2>3, PlanThenActions
  <2> HIDE DEF s4, A2
  <2>5. Plan(s4 \o conclude, A3, 1, 4)
    BY <2>4, PlanConcluded
  <2>6. s4 \o conclude = _check_sibling_isolation
    BY <1>1 DEF s1, s2, s3, s4, _check_sibling_isolation
  <2> QED
    BY <2>5, <2>6
<1>3. Prepared(A3)
  <2>1. /\ one.do = "execute" /\ one.node = Database /\ one.arg[2] = read_metrics
        /\ two.do = "execute" /\ two.node = Sibling /\ two.arg[2] = read_metrics
    BY DEF action, call
  <2> HIDE DEF one, two
  <2>2. \A c \in A3 : Sound(c)
    <3>1. /\ Sound(call("spawn", Database, {read_metrics})) /\ Sound(one)
          /\ Sound(call("spawn", Sibling, {read_metrics})) /\ Sound(two)
      BY <1>1, <2>1, SoundCalls
    <3> QED
      BY <1>1, <3>1, SoundCalls DEF SpawnCalls
  <2> QED
    BY <1>1, <2>1, <2>2 DEF Prepared, SpawnCalls
<1> QED
  BY <1>2, <1>3

\* That of a stale action and a valid one at once.
LEMMA ConcurrentOpens ==
  ASSUME scenario = "concurrent-stale-valid"
  PROVE  \E A : Plan(_check_concurrent_stale_valid, A, 1, 4) /\ Prepared(A)
<1> DEFINE one == action(Stale, stale_key, restart_postgres)
           A1 == SpawnCalls(Database, {restart_postgres}) \cup SpawnCalls(Stale, {restart_postgres})
                 \cup {cutting} \cup ReplaceCalls
           A2 == A1 \cup {one, recovery}
           A3 == A2 \cup {closing_call, expect_call}
<1>1. cuts /\ cut_type = "CORRECT_SUBTREE" /\ Acts = {one, recovery}
  BY DEF cuts, cut_type, Acts
<1>2. Plan(_check_concurrent_stale_valid, A3, 1, 4)
  <2> DEFINE s1 == _spawn_check_node(Database, {restart_postgres})
             s2 == s1 \o _spawn_check_node(Stale, {restart_postgres})
             s3 == s2 \o command(cut_type, Database, correction_key)
             s4 == s3 \o replacement
             s5 == s4 \o <<{one, action(Replacement, recovery_key, reset_redis_pool)}>>
  <2>1. Plan(s1, SpawnCalls(Database, {restart_postgres}), 1, 1)
    BY PlanSpawn
  <2> HIDE DEF s1
  <2>2. Plan(s2, SpawnCalls(Database, {restart_postgres}) \cup SpawnCalls(Stale, {restart_postgres}), 1, 1)
    BY <2>1, PlanThenSpawn
  <2> HIDE DEF s2
  <2>3. Plan(s3, SpawnCalls(Database, {restart_postgres}) \cup SpawnCalls(Stale, {restart_postgres})
                 \cup {cutting}, 1, 1)
    BY <2>2, PlanThenPrepare
  <2> HIDE DEF s3
  <2>4. Plan(s4, A1, 1, 1)
    BY <2>3, PlanThenReplace
  <2> HIDE DEF s4, A1
  <2>5. Plan(s5, A2, 1, 2)
    BY <2>4, PlanThenActions DEF recovery
  <2> HIDE DEF s5, A2
  <2>6. Plan(s5 \o conclude, A3, 1, 4)
    BY <2>5, PlanConcluded
  <2>7. s5 \o conclude = _check_concurrent_stale_valid
    BY <1>1 DEF s1, s2, s3, s4, s5, _check_concurrent_stale_valid
  <2> QED
    BY <2>6, <2>7
<1>3. Prepared(A3)
  <2>1. /\ one.do = "execute" /\ one.node = Stale /\ one.arg[1] = stale_key
        /\ recovery.do = "execute" /\ recovery.node = Replacement
    BY DEF action, call, recovery
  <2>2. Stale # Replacement /\ Database # Replacement /\ stale_key # recovery_key
    BY DemoAssumption
  <2> HIDE DEF one
  <2>3. \A c \in A3 : Sound(c)
    <3>1. /\ Sound(call("spawn", Database, {restart_postgres})) /\ Sound(one)
          /\ Sound(call("spawn", Stale, {restart_postgres})) /\ Sound(recovery)
      BY <1>1, <2>1, <2>2, SoundCalls
    <3> QED
      BY <1>1, <3>1, SoundCalls DEF SpawnCalls, ReplaceCalls
  <2> QED
    BY <1>1, <2>1, <2>3 DEF Prepared, SpawnCalls, ReplaceCalls
<1> QED
  BY <1>2, <1>3

\* Whichever it is, a check that begins has everything still to do.
LEMMA ChecksOpen ==
  ASSUME scenario \in Checks, run = "RUNNING"
  PROVE  Working(opening)
<1>1. PICK A : Plan(opening, A, 1, 4) /\ Prepared(A)
  BY CancellationOpens, IdempotencyOpens, MismatchOpens, SiblingOpens, ConcurrentOpens
  DEF Checks, opening
<1>2. all(opening) = A /\ Sorted(opening)
  BY <1>1 DEF Plan, FreeScript, Script
<1>3. Kept(A)
  BY <1>1 DEF Prepared, Kept
<1> QED
  BY <1>1, <1>2, <1>3 DEF Prepared, Working

-----------------------------------------------------------------------------
(* A lease that ran out is not renewed.                                    *)

\* Only an activation and a renewal of now write a lease.
LEMMA LeasesWritten ==
  ASSUME TypeOK, [DemoNext]_demoVars
  PROVE  \/ lease' = lease /\ now' \in {now, now + 1}
         \/ \E n \in Node : now' = now /\ (activate(n, now) \/ heartbeat_renewed(n, now))
<1>d. ASSUME NEW n, NEW key, NEW tool, decide(n, key, tool) PROVE UNCHANGED <<lease, now>>
  BY <1>d DEF decide, execute_allow, execute_deny_stale, execute_deny, vars, tables
<1>c. ASSUME NEW n, NEW answer, checkpoint(n, answer) PROVE UNCHANGED <<lease, now>>
  BY <1>c DEF checkpoint, checkpoint_read, checkpoint_decide, checkpoint_write, tables
<1>1. CASE Requests
  BY <1>1 DEF Requests, open, transition, finish, shut_down, begin, vars, tables
<1>2. ASSUME NEW r \in Task, NEW c \in calls(r), perform(r, c)
      PROVE  UNCHANGED <<lease, now>> \/ \E n \in Node : activate(n, now)
  <2>1. CASE service(r, c)
    <3>1. CASE activate(c.node, now)
      BY <3>1 DEF activate, registered
    <3>2. CASE UNCHANGED vars
      BY <3>2 DEF vars, tables
    <3>3. CASE create_spawn(parent_of(c.node), c.node, c.arg) \/ complete_node(c.node) \/ expire_stale_nodes(now)
      BY <3>3 DEF create_spawn, complete_node, expire_stale_nodes
    <3>4. CASE commanded(c.node, c.arg[1], c.arg[2])
      BY <3>2, <3>4 DEF commanded, issue_command
    <3>5. CASE replaced
      BY <3>2, <3>5 DEF replaced, create_replacement
    <3> QED
      BY <2>1, <3>1, <3>2, <3>3, <3>4, <3>5 DEF service
  <2>2. CASE execution(r, c)
    BY <1>d, <2>2 DEF execution
  <2>3. CASE checkpointing(r, c)
    BY <1>c, <2>3 DEF checkpointing
  <2>4. CASE failure(r, c)
    BY <2>4 DEF failure, checkpoint_abandon, vars, tables
  <2>5. CASE \/ expectation(r, c) \/ looked_at(r, c) \/ locking(r, c) \/ entering(r, c)
             \/ registering(r, c) \/ unlisting(r, c) \/ keeping_alive(r, c) \/ stopping(r, c)
             \/ joining(r, c) \/ detaching(r, c) \/ launching(r, c) \/ awaiting_checkpoint(r, c)
             \/ going(r, c) \/ awaiting_exit(r, c) \/ killing(r, c)
             \/ closing_others(r, c)
    <3>1. UNCHANGED vars
      BY <2>5 DEF expectation, looked_at, locking, entering, registering, unlisting, keeping_alive,
           stopping, joining, detaching, launching, awaiting_checkpoint, going, awaiting_exit, killing,
           closing_others
    <3> QED
      BY <3>1 DEF vars, tables
  <2> QED
    BY <1>2, <2>1, <2>2, <2>3, <2>4, <2>5 DEF perform
<1>2a. \A n, t : activate(n, t) => now' = now
  BY DEF activate
<1>3. CASE Keepalive
  <2>1. ASSUME NEW n, \/ heartbeat_expired(n, now) \/ heartbeat_fenced(n, now)
        PROVE  UNCHANGED <<lease, now>>
    BY <2>1 DEF heartbeat_expired, heartbeat_fenced
  <2>2. \A n : heartbeat_renewed(n, now) => n \in Node /\ now' = now
    BY DEF heartbeat_renewed, heartbeat_live, tokens
  <2>3. UNCHANGED vars => UNCHANGED <<lease, now>>
    BY DEF vars, tables
  <2> QED
    BY <1>3, <2>1, <2>2, <2>3 DEF Keepalive, beat, beaten, ended
<1>4. CASE WorkerProcess
  <2>1. UNCHANGED vars => UNCHANGED <<lease, now>>
    BY DEF vars, tables
  <2> QED
    BY <1>4, <1>c, <1>d, <2>1 DEF WorkerProcess, worker_checkpoint, worker_action, worker_released,
       worker_timeout
<1>5. CASE Elsewhere
  BY <1>5 DEF Elsewhere, expire_stale_nodes, tick, tables
<1>6. CASE UNCHANGED demoVars
  BY <1>6 DEF demoVars, vars, tables
<1> QED
  BY <1>1, <1>2, <1>2a, <1>3, <1>4, <1>5, <1>6 DEF DemoNext, Threads, run_thread

\* A lease that ran out stays so.
LEMMA LapsedStays ==
  ASSUME TypeOK, now # 0, [Next]_vars, [DemoNext]_demoVars, Lapsed
  PROVE  Lapsed'
<1>1. PICK n \in tokens : lease[n] <= now
  BY DEF Lapsed
<1>2. n \in Node /\ n \in tokens'
  BY CredentialsKept DEF tokens
<1>3. lease'[n] = lease[n]
  <2>1. ASSUME NEW m \in Node, activate(m, now) \/ heartbeat_renewed(m, now) PROVE lease'[n] = lease[n]
    <3>1. m # n /\ lease' = [lease EXCEPT ![m] = now + LeaseTTL]
      <4>1. CASE activate(m, now)
        BY <1>1, <4>1 DEF activate
      <4>2. CASE heartbeat_renewed(m, now)
        <5>1. lease[m] > now /\ lease[m] \in Nat /\ now \in Nat
          BY <4>2 DEF heartbeat_renewed, TypeOK
        <5> QED
          BY <1>1, <4>2, <5>1 DEF heartbeat_renewed
      <4> QED
        BY <2>1, <4>1, <4>2
    <3> QED
      BY <1>2, <3>1 DEF TypeOK
  <2> QED
    BY <2>1, LeasesWritten
<1>4. now' \in {now, now + 1}
  <2>1. \A m : activate(m, now) \/ heartbeat_renewed(m, now) => now' = now
    BY DEF activate, heartbeat_renewed
  <2> QED
    BY <2>1, LeasesWritten
<1>5. lease[n] \in Nat /\ now \in Nat
  BY <1>2 DEF TypeOK
<1> QED
  BY <1>1, <1>2, <1>3, <1>4, <1>5 DEF Lapsed

-----------------------------------------------------------------------------
(* What the gateway makes of the actions of a check.                       *)

\* The actions are of different nodes, or the replacement's, and under different keys: one
\* that is to be allowed is of a node that no command fences, one that is to be denied is of
\* a fenced node or of the replacement with the wrong tool.
LEMMA ActsAre ==
  ASSUME scenario \in Checks
  PROVE  /\ Acts # {}
         /\ \A d \in Acts :
              /\ d.do = "execute" /\ d = action(d.node, d.arg[1], d.arg[2])
              /\ d.node \in {Database, Stale, Sibling, Replacement}
              /\ d.arg[1] \in {stale_key, recovery_key} /\ d.arg[2] \in Tool
              /\ \/ d.arg[1] = recovery_key /\ d.node \in {Sibling, Replacement}
                    /\ (d.node = Replacement => d.arg[2] = reset_redis_pool)
                 \/ d.arg[1] = recovery_key /\ ~cuts /\ d.node = Database
                 \/ d.arg[1] = stale_key /\ cuts /\ d.node \in {Database, Stale}
                    /\ scenario # "recovery-manifest-mismatch"
                 \/ d.arg[1] = stale_key /\ d.node = Replacement /\ d.arg[2] # reset_redis_pool
                    /\ scenario = "recovery-manifest-mismatch"
              /\ d.arg[1] = recovery_key => d.arg[2] # restart_postgres
         /\ \A d, e \in Acts : d.arg[1] = e.arg[1] \/ (d.node = e.node /\ d.node # Replacement) => d = e
<1>0. \A n, key, tool : /\ action(n, key, tool).do = "execute" /\ action(n, key, tool).node = n
                        /\ action(n, key, tool).arg[1] = key /\ action(n, key, tool).arg[2] = tool
  BY DEF action, call
<1>1. CASE scenario = "cancellation"
  <2>1. Acts = {action(Database, stale_key, restart_postgres)} /\ cuts
    BY <1>1 DEF Acts, cuts
  <2> QED
    BY <1>0, <1>1, <2>1, DemoAssumption
<1>2. CASE scenario = "idempotent-retry"
  <2>1. Acts = {action(Database, recovery_key, reset_redis_pool)} /\ ~cuts
    BY <1>2 DEF Acts, cuts
  <2> QED
    BY <1>0, <1>2, <2>1, DemoAssumption
<1>3. CASE scenario = "recovery-manifest-mismatch"
  <2>1. Acts = {action(Replacement, stale_key, restart_postgres),
                action(Replacement, recovery_key, reset_redis_pool)}
    BY <1>3 DEF Acts, recovery
  <2> QED
    BY <1>0, <1>3, <2>1, DemoAssumption
<1>4. CASE scenario = "sibling-isolation"
  <2>1. Acts = {action(Database, stale_key, read_metrics), action(Sibling, recovery_key, read_metrics)} /\ cuts
    BY <1>4 DEF Acts, cuts
  <2> QED
    BY <1>0, <1>4, <2>1, DemoAssumption
<1>5. CASE scenario = "concurrent-stale-valid"
  <2>1. Acts = {action(Stale, stale_key, restart_postgres),
                action(Replacement, recovery_key, reset_redis_pool)} /\ cuts
    BY <1>5 DEF Acts, recovery, cuts
  <2> QED
    BY <1>0, <1>5, <2>1, DemoAssumption
<1> QED
  BY <1>1, <1>2, <1>3, <1>4, <1>5 DEF Checks

\* While the run goes on a node is fenced by the command on the database, and by no other.
LEMMA CheckScopes ==
  ASSUME FenceInv, TreeInv, ScopesStartAtOne, Fences, Lineage, run = "RUNNING", Root \in tokens,
         NEW n \in registered
  PROVE  /\ scopes_allowed(n) <=> Database \notin snapshot_scopes(n) \/ scope[Database].status = "ACTIVE"
         /\ ~scopes_allowed(n) => effective_status(n) = scope[Database].status
<1>0. TypeOK /\ FreshIsBlank /\ SnapshotsNest /\ n \in Node /\ Database \in Node /\ Database # Root
  BY DemoAssumption DEF FenceInv, TreeInv, registered
<1>1. reg[n].snapshot # {}
  BY <1>0 DEF SnapshotsNest, registered, snapshot_scopes
<1>2. Root \in registered
  BY <1>0, RegistryAssumption DEF FreshIsBlank, tokens, registered
<1>3. ASSUME NEW e \in reg[n].snapshot
      PROVE  /\ e.version = 1 /\ e.scope \in snapshot_scopes(n)
             /\ e.scope = Database \/ e \notin mismatches(n)
             /\ scope[e.scope].status = "ACTIVE" => e \notin mismatches(n)
  <2>1. e.version = 1 /\ e.scope \in snapshot_scopes(n) /\ e.scope \in Scope
    BY <1>0 DEF ScopesStartAtOne, snapshot_scopes, TypeOK, Registration
  <2>2. scope[e.scope].status = "ACTIVE" => e \notin mismatches(n)
    BY <2>1 DEF mismatches, ScopesStartAtOne
  <2>3. e.scope \in {RunScope, Root, n, Database}
    BY <2>1 DEF Lineage
  <2>4. e.scope # Database => scope[e.scope].status = "ACTIVE"
    BY <1>0, <1>2, <2>3 DEF Fences
  <2> QED
    BY <2>1, <2>2, <2>4
<1>4. CASE Database \notin snapshot_scopes(n) \/ scope[Database].status = "ACTIVE"
  <2>1. mismatches(n) = {}
    BY <1>3, <1>4 DEF mismatches
  <2> QED
    BY <1>1, <1>4, <2>1 DEF scopes_allowed
<1>5. CASE Database \in snapshot_scopes(n) /\ scope[Database].status # "ACTIVE"
  <2>1. PICK e \in reg[n].snapshot : e.scope = Database
    BY <1>5 DEF snapshot_scopes
  <2>2. e \in mismatches(n)
    BY <1>5, <2>1 DEF mismatches
  <2>3. ~scopes_allowed(n) /\ mismatches(n) # {}
    BY <2>2 DEF scopes_allowed
  <2>4. Database \in registered
    BY <1>0, <1>5 DEF SnapshotsNest, registered
  <2>5. scope[Database].status \in {"CANCELLED", "SUPERSEDED"}
    BY <1>5, <2>4 DEF Fences, cut_status
  <2>6. \A f \in mismatches(n) : f.scope = Database
    BY <1>3 DEF mismatches
  <2>7. effective_status(n) = scope[Database].status
    <3>1. CASE scope[Database].status = "CANCELLED"
      BY <2>1, <2>2, <3>1 DEF effective_status
    <3>2. CASE scope[Database].status = "SUPERSEDED"
      BY <1>1, <2>3, <2>6, <3>2 DEF effective_status
    <3> QED
      BY <2>5, <3>1, <3>2
  <2> QED
    BY <1>5, <2>3, <2>7
<1> QED
  BY <1>4, <1>5

\* The gateway stores the reason the check expects, and allows what it expects to be allowed.
LEMMA GatewayTells ==
  ASSUME scenario \in Checks, FenceInv, TreeInv, Agreement, ScopesStartAtOne, CheckTables,
         run = "RUNNING", Root \in tokens, ~Lapsed,
         NEW d \in Acts, Live(d.node), ~recorded(d.node, d.arg[1]),
         cuts => scope[Database].status = cut_status
  PROVE  /\ denial_reason(d.node, d.arg[2]) = told(d.arg[1])
         /\ d.arg[1] = recovery_key <=>
              /\ node_allowed(d.node) /\ recovery_contract_allows(d.node, d.arg[2])
              /\ d.arg[2] \in reg[d.node].caps
         /\ validate_node_runtime_state(d.node, status[d.node], lease[d.node]) = "SCOPE_INVALID" =>
              d.node # Replacement
<1> DEFINE n == d.node
           key == d.arg[1]
           tool == d.arg[2]
           found == validate_node_runtime_state(n, status[n], lease[n])
<1>0. TypeOK /\ FreshIsBlank /\ SnapshotsNest /\ Fences /\ Lineage /\ Grants /\ Ledger /\ stale_key # recovery_key
  BY DemoAssumption DEF FenceInv, TreeInv, CheckTables
<1>1. n \in registered /\ n \in tokens /\ n \in Node /\ status[n] \in LiveStatus /\ ~(lease[n] <= now)
  <2>1. n \in tokens /\ status[n] \in LiveStatus /\ n \in Node
    BY DEF Live, tokens
  <2>2. status[n] # "NONE"
    BY <2>1 DEF LiveStatus
  <2> QED
    BY <2>1, <2>2 DEF Lapsed, registered
<1>2. /\ scopes_allowed(n) <=> Database \notin snapshot_scopes(n) \/ scope[Database].status = "ACTIVE"
      /\ ~scopes_allowed(n) => effective_status(n) = scope[Database].status
  BY <1>0, <1>1, CheckScopes
<1>3. found = IF scopes_allowed(n) THEN "ALLOWED" ELSE "SCOPE_INVALID"
  BY <1>1 DEF validate_node_runtime_state
<1>4. /\ \/ key = recovery_key /\ n \in {Sibling, Replacement} /\ (n = Replacement => tool = reset_redis_pool)
         \/ key = recovery_key /\ ~cuts /\ n = Database
         \/ key = stale_key /\ cuts /\ n \in {Database, Stale} /\ scenario # "recovery-manifest-mismatch"
         \/ key = stale_key /\ n = Replacement /\ tool # reset_redis_pool
            /\ scenario = "recovery-manifest-mismatch"
  BY ActsAre
<1>5. denial_reason(n, tool) =
        IF found = "SCOPE_INVALID"
        THEN IF effective_status(n) = "SUPERSEDED" THEN "SCOPE_SUPERSEDED" ELSE "SCOPE_CANCELLED"
        ELSE IF found # "ALLOWED" THEN found
        ELSE IF ~recovery_contract_allows(n, tool) THEN "RECOVERY_TOOL_MISMATCH"
        ELSE IF tool \notin reg[n].caps THEN "TOOL_NOT_ALLOWED" ELSE "ALLOWED"
  BY DEF denial_reason
<1>6. node_allowed(n) <=> found = "ALLOWED"
  BY DEF node_allowed
<1>7. Database \in Node /\ RunScope \notin Node /\ Database \notin {Root, Sibling, Stale, Replacement}
      /\ Stale \notin {Sibling, Replacement} /\ Sibling # Replacement
  BY DemoAssumption, RegistryAssumption
<1>8. n \in {Sibling, Replacement} => scopes_allowed(n)
  BY <1>0, <1>1, <1>2, <1>7 DEF Lineage
<1>9. n = Replacement => LET i == reg[n].cause IN
                         i # 0 /\ commands[i].tool = reset_redis_pool /\ reg[n].caps = {reset_redis_pool}
                         /\ commands[i].replacement = n
  BY <1>0, <1>1 DEF Grants, Agreement, HoldersNamed
<1>10. n # Replacement => reg[n].cause = 0 /\ (key = recovery_key => tool \in reg[n].caps)
  BY <1>0, <1>1 DEF Grants
<1>11. told(recovery_key) = "ALLOWED"
  BY DEF told
<1>12. CASE key = recovery_key
  <2>0. n \in {Sibling, Replacement} \/ (~cuts /\ n = Database)
    <3>1. key # stale_key
      BY <1>0, <1>12
    <3> QED
      BY <1>4, <3>1
  <2>1. scopes_allowed(n)
    <3>1. CASE n \in {Sibling, Replacement}
      BY <1>8, <3>1
    <3>2. CASE ~cuts /\ n = Database
      BY <1>0, <1>1, <1>2, <3>2 DEF Fences, cut_status
    <3> QED
      BY <2>0, <3>1, <3>2
  <2>r. n = Replacement => tool = reset_redis_pool
    <3>1. key # stale_key
      BY <1>0, <1>12
    <3> QED
      BY <1>4, <1>7, <3>1
  <2>2. tool \in reg[n].caps
    <3>1. CASE n = Replacement
      BY <1>9, <2>r, <3>1
    <3>2. CASE n # Replacement
      BY <1>10, <1>12, <3>2
    <3> QED
      BY <3>1, <3>2
  <2>3. recovery_contract_allows(n, tool)
    <3>1. CASE n # Replacement
      BY <1>10, <3>1 DEF recovery_contract_allows
    <3>2. CASE n = Replacement
      <4>1. committed_by(n) = {}
        BY <1>0, <1>12 DEF committed_by, recorded, Ledger
      <4>2. Cardinality(committed_by(n)) < max_committed_invocations
        BY <4>1, FS_EmptySet DEF max_committed_invocations
      <4>3. tool = reset_redis_pool
        BY <2>r, <3>2
      <4> QED
        BY <1>9, <3>2, <4>2, <4>3 DEF recovery_contract_allows
    <3> QED
      BY <3>1, <3>2
  <2> HIDE DEF found, n, key, tool
  <2> QED
    BY <1>3, <1>5, <1>6, <1>11, <1>12, <2>1, <2>2, <2>3 DEF found, n, key, tool
<1>13. CASE key = stale_key /\ cuts /\ n \in {Database, Stale} /\ scenario # "recovery-manifest-mismatch"
  <2>1. Database \in snapshot_scopes(n)
    BY <1>0, <1>1, <1>13 DEF SnapshotsNest, Lineage, registered
  <2>2. scope[Database].status = cut_status /\ cut_status # "ACTIVE"
    BY <1>13 DEF cut_status
  <2>3. ~scopes_allowed(n) /\ effective_status(n) = cut_status
    BY <1>2, <2>1, <2>2
  <2>4. told(key) = IF cut_type = "CANCEL_SUBTREE" THEN "SCOPE_CANCELLED" ELSE "SCOPE_SUPERSEDED"
    BY <1>0, <1>13 DEF told
  <2>5. cut_status = IF cut_type = "CANCEL_SUBTREE" THEN "CANCELLED" ELSE "SUPERSEDED"
    BY <1>13 DEF cut_status
  <2>6. n # Replacement
    BY <1>7, <1>13
  <2> HIDE DEF found
  <2> QED
    BY <1>0, <1>3, <1>5, <1>6, <1>13, <2>3, <2>4, <2>5, <2>6 DEF found
<1>14. CASE key = stale_key /\ n = Replacement /\ tool # reset_redis_pool
            /\ scenario = "recovery-manifest-mismatch"
  <2>1. scopes_allowed(n)
    BY <1>8, <1>14
  <2>2. ~recovery_contract_allows(n, tool)
    BY <1>9, <1>14 DEF recovery_contract_allows
  <2>3. told(key) = "RECOVERY_TOOL_MISMATCH"
    BY <1>0, <1>14 DEF told
  <2> HIDE DEF found
  <2> QED
    BY <1>0, <1>3, <1>5, <1>6, <1>14, <2>1, <2>2, <2>3 DEF found
<1> QED
  BY <1>4, <1>12, <1>13, <1>14

-----------------------------------------------------------------------------
(* The tables of a check.                                                  *)

\* What is no registration, command or action leaves them alone.
LEMMA CheckTablesStay ==
  ASSUME Agreement, CheckTables, Unconcerned, registered' = registered, scenario' = scenario,
         run' = "RUNNING" => run = "RUNNING"
  PROVE  CheckTables'
<1>0. /\ UNCHANGED <<reg, scope, attempts, reason>> /\ Len(commands') = Len(commands)
      /\ \A i \in 1 .. Len(commands) : /\ commands'[i].key = commands[i].key
                                       /\ commands'[i].type = commands[i].type
                                       /\ commands'[i].tool = commands[i].tool
  BY DEF Unconcerned, CommandsStay, Stays
<1>s. /\ Acts' = Acts /\ cut_status' = cut_status /\ \A key : told(key)' = told(key)
      /\ \A n : snapshot_scopes(n)' = snapshot_scopes(n)
  BY <1>0 DEF Acts, cut_status, cuts, cut_type, told, snapshot_scopes
<1>1. Fences'
  BY <1>0, <1>s DEF CheckTables, Fences
<1>2. Lineage'
  BY <1>0, <1>s DEF CheckTables, Lineage
<1>3. Grants'
  <2> SUFFICES ASSUME NEW d \in Acts, d.node \in registered
               PROVE  IF d.node = Replacement
                      THEN /\ reg[Replacement].cause # 0
                           /\ commands'[reg[Replacement].cause].tool = reset_redis_pool
                           /\ reg[Replacement].caps = {reset_redis_pool}
                      ELSE /\ reg[d.node].cause = 0
                           /\ d.arg[1] = recovery_key => d.arg[2] \in reg[d.node].caps
    BY <1>0, <1>s DEF Grants
  <2>1. CASE d.node = Replacement
    <3> DEFINE i == reg[Replacement].cause
    <3>1. i # 0 /\ commands[i].tool = reset_redis_pool /\ reg[Replacement].caps = {reset_redis_pool}
      BY <2>1 DEF CheckTables, Grants
    <3>2. i \in 0 .. Len(commands) /\ Len(commands) \in Nat
      BY <2>1, LenProperties DEF Agreement, registered, TypeOK
    <3>3. i \in 1 .. Len(commands)
      BY <3>1, <3>2
    <3> QED
      BY <1>0, <2>1, <3>1, <3>3
  <2>2. CASE d.node # Replacement
    BY <2>2 DEF CheckTables, Grants
  <2> QED
    BY <2>1, <2>2
<1>4. Ledger'
  BY <1>0, <1>s DEF CheckTables, Ledger
<1> QED
  BY <1>1, <1>2, <1>3, <1>4 DEF CheckTables

\* What a check registers: a node with the capabilities its action is to be allowed for, or
\* the replacement for a correction.
Enrols(child, caps, cause) ==
  /\ child \in {Database, Stale, Sibling, Replacement} /\ child \in fresh
  /\ parent_of(child) \in tokens
  /\ _create_spawn_locked(parent_of(child), child, caps, cause)
  /\ IF child = Replacement
     THEN cause \in 1 .. Len(commands) /\ commands[cause].tool = reset_redis_pool /\ caps = {reset_redis_pool}
     ELSE /\ cause = 0
          /\ \A d \in Acts : d.node = child /\ d.arg[1] = recovery_key => d.arg[2] \in caps
  /\ CommandsStay
  /\ UNCHANGED <<run, attempts, reason>>

\* It inherits the scopes of the root, and of the database's node if it is below that.
LEMMA CheckTablesEnrol ==
  ASSUME TypeOK, FreshIsBlank, SnapshotsNest, Agreement, CheckTables, scenario' = scenario,
         NEW child, NEW caps, NEW cause, Enrols(child, caps, cause)
  PROVE  CheckTables'
<1> DEFINE p == parent_of(child)
<1>0. /\ UNCHANGED <<run, attempts, reason>> /\ Len(commands') = Len(commands)
      /\ \A i \in 1 .. Len(commands) : /\ commands'[i].key = commands[i].key
                                       /\ commands'[i].type = commands[i].type
                                       /\ commands'[i].tool = commands[i].tool
  BY DEF Enrols, CommandsStay, Stays
<1>s. Acts' = Acts /\ cut_status' = cut_status /\ \A key : told(key)' = told(key)
  BY DEF Acts, cut_status, cuts, cut_type, told
<1>n. /\ child \in Node /\ child # Root /\ status[child] = "NONE" /\ child \notin registered
      /\ p \in Node /\ p \in registered /\ p # child
      /\ p = IF child = Stale THEN Database ELSE Root
      /\ Database \in Node /\ Database # Root /\ Database # Stale /\ Root # Stale /\ RunScope \notin Node
  <2>1. child \in Node /\ child # Root /\ Database \in Node /\ Database # Root /\ Database # Stale /\ Root # Stale
    BY DemoAssumption DEF Enrols
  <2>2. status[child] = "NONE" /\ child \notin registered
    BY DEF Enrols, fresh, registered
  <2>3. p \in registered /\ p \in Node
    BY DEF Enrols, tokens, FreshIsBlank, registered
  <2> QED
    BY <2>1, <2>2, <2>3, RegistryAssumption DEF parent_of
<1>1. /\ \A m \in Node \ {child} : status'[m] = status[m] /\ reg'[m] = reg[m]
      /\ \A s \in Scope \ {child} : scope'[s] = scope[s]
      /\ status'[child] = "PENDING" /\ scope'[child].status = "ACTIVE"
      /\ reg'[child].caps = caps /\ reg'[child].cause = cause
      /\ reg'[child].snapshot = reg[p].snapshot \cup {[scope |-> child, version |-> 1]}
  BY <1>n DEF Enrols, _create_spawn_locked, TypeOK, Scope
<1>2. registered' = registered \cup {child}
  BY <1>1, <1>n DEF registered
<1>3. /\ \A m \in Node \ {child} : snapshot_scopes(m)' = snapshot_scopes(m)
      /\ snapshot_scopes(child)' = snapshot_scopes(p) \cup {child}
  <2> DEFINE own == [scope |-> child, version |-> 1]
  <2>1. \A m \in Node \ {child} : snapshot_scopes(m)' = snapshot_scopes(m)
    BY <1>1 DEF snapshot_scopes
  <2>2. snapshot_scopes(child)' = {e.scope : e \in reg[p].snapshot \cup {own}}
    BY <1>1 DEF snapshot_scopes
  <2>3. own.scope = child
    OBVIOUS
  <2> HIDE DEF own, p
  <2>4. {e.scope : e \in reg[p].snapshot \cup {own}} = {e.scope : e \in reg[p].snapshot} \cup {child}
    BY <2>3
  <2> QED
    BY <2>1, <2>2, <2>4 DEF snapshot_scopes, p
<1>4. Fences'
  <2>0. RunScope \in Scope \ {child} /\ Node \subseteq Scope
    BY <1>n DEF Scope
  <2>1. run' = "RUNNING" => scope'[RunScope].status = "ACTIVE"
    BY <1>0, <1>1, <2>0 DEF CheckTables, Fences
  <2>2. \A n \in registered' \ {Database} : scope'[n].status = "ACTIVE"
    BY <1>1, <1>2, <2>0 DEF CheckTables, Fences, registered
  <2>3. Database \in registered' => scope'[Database].status \in {"ACTIVE", cut_status}
    BY <1>1, <1>2, <1>n, <2>0 DEF CheckTables, Fences
  <2>4. ASSUME NEW i \in 1 .. Len(commands), commands[i].key = correction_key
        PROVE  scope'[Database].status = cut_status
    <3>1. scope[Database].status = cut_status /\ cut_status # "ABSENT"
      BY <2>4 DEF CheckTables, Fences, cut_status
    <3>2. child # Database
      BY <1>n, <3>1 DEF FreshIsBlank
    <3> QED
      BY <1>1, <1>n, <2>0, <3>1, <3>2
  <2>5. \A i \in 1 .. Len(commands) : commands[i].type = "CORRECT_SUBTREE" => commands[i].tool = reset_redis_pool
    BY DEF CheckTables, Fences
  <2> QED
    BY <1>0, <1>s, <2>1, <2>2, <2>3, <2>4, <2>5 DEF Fences
<1>5. Lineage'
  <2>1. snapshot_scopes(p) \subseteq {RunScope, Root, p}
    BY <1>n DEF CheckTables, Lineage
  <2>2. snapshot_scopes(child)' \subseteq {RunScope, Root, child} \cup (IF child = Stale THEN {Database} ELSE {})
    <3>1. snapshot_scopes(child)' = snapshot_scopes(p) \cup {child}
      BY <1>3
    <3>2. p = IF child = Stale THEN Database ELSE Root
      BY <1>n
    <3> HIDE DEF p
    <3>3. CASE child = Stale
      BY <2>1, <3>1, <3>2, <3>3
    <3>4. CASE child # Stale
      BY <2>1, <3>1, <3>2, <3>4
    <3> QED
      BY <3>3, <3>4
  <2>3. child = Stale => Database \in snapshot_scopes(child)'
    BY <1>3, <1>n DEF SnapshotsNest, registered
  <2>4. ASSUME NEW n \in registered PROVE n # child /\ n \in Node \ {child}
    BY <1>n DEF registered
  <2> QED
    BY <1>2, <1>3, <2>2, <2>3, <2>4 DEF CheckTables, Lineage
<1>6. Grants'
  <2> SUFFICES ASSUME NEW d \in Acts, d.node \in registered'
               PROVE  IF d.node = Replacement
                      THEN /\ reg'[Replacement].cause # 0
                           /\ commands'[reg'[Replacement].cause].tool = reset_redis_pool
                           /\ reg'[Replacement].caps = {reset_redis_pool}
                      ELSE /\ reg'[d.node].cause = 0
                           /\ d.arg[1] = recovery_key => d.arg[2] \in reg'[d.node].caps
    BY <1>s DEF Grants
  <2>1. CASE d.node = child
    <3>1. CASE child = Replacement
      <4>1. cause \in 1 .. Len(commands) /\ commands[cause].tool = reset_redis_pool /\ caps = {reset_redis_pool}
        BY <3>1 DEF Enrols
      <4>2. cause # 0
        BY <4>1
      <4> QED
        BY <1>0, <1>1, <2>1, <3>1, <4>1, <4>2
    <3>2. CASE child # Replacement
      BY <1>1, <2>1, <3>2 DEF Enrols
    <3> QED
      BY <3>1, <3>2
  <2>2. CASE d.node # child
    <3>1. d.node \in registered /\ d.node \in Node \ {child}
      BY <1>2, <2>2 DEF registered
    <3>2. reg'[d.node] = reg[d.node]
      BY <1>1, <3>1
    <3>3. CASE d.node = Replacement
      <4> DEFINE i == reg[Replacement].cause
      <4>1. i # 0 /\ commands[i].tool = reset_redis_pool /\ reg[Replacement].caps = {reset_redis_pool}
        BY <3>1, <3>3 DEF CheckTables, Grants
      <4>2. i \in 0 .. Len(commands) /\ Len(commands) \in Nat
        BY <3>1, <3>3, LenProperties DEF Agreement, TypeOK
      <4>3. i \in 1 .. Len(commands)
        BY <4>1, <4>2
      <4> QED
        BY <1>0, <3>2, <3>3, <4>1, <4>3
    <3>4. CASE d.node # Replacement
      BY <3>1, <3>2, <3>4 DEF CheckTables, Grants
    <3> QED
      BY <3>3, <3>4
  <2> QED
    BY <2>1, <2>2
<1>7. Ledger'
  BY <1>0, <1>s DEF CheckTables, Ledger
<1> QED
  BY <1>4, <1>5, <1>6, <1>7 DEF CheckTables

\* A check commands its cut, or that its run be cancelled.
LEMMA CheckTablesCut ==
  ASSUME TypeOK, FreshIsBlank, Agreement, CheckTables, scenario' = scenario,
         UNCHANGED reason,
         NEW n, NEW key, NEW type, NEW tool,
         \/ cuts /\ n = Database /\ key = correction_key /\ type = cut_type
         \/ n = Root /\ key = closing_key /\ type = "CANCEL_RUN",
         type = "CORRECT_SUBTREE" => tool = reset_redis_pool,
         issue_command(Operator, key, type, n, tool, NoProposal)
  PROVE  /\ CheckTables'
         /\ UNCHANGED <<status, token, attempts>>
         /\ n = Database => run' = run /\ scope'[Database].status = cut_status
         /\ n = Root => run' = "CANCELLED" /\ scope'[Database] = scope[Database]
<1> DEFINE row == command_row(Operator, key, type, n, tool, NoProposal)
           rows == commands
           S == CommandRow \cup {row}
<1>0. Database \in Node /\ Database # Root /\ RunScope \notin Node /\ Database # RunScope /\ correction_key # closing_key
  BY DemoAssumption, RegistryAssumption
<1>s. Acts' = Acts /\ cut_status' = cut_status /\ \A k : told(k)' = told(k)
  BY DEF Acts, cut_status, cuts, cut_type, told
<1>1. /\ UNCHANGED <<status, token, reg, attempts, reason>>
      /\ commands' = Append(commands, row)
      /\ invalidate_scope(target_scope(type, n), type)
      /\ run' = IF type = "CANCEL_RUN" THEN "CANCELLED" ELSE run
      /\ scope[target_scope(type, n)].status = "ACTIVE"
  BY DEF issue_command
<1>2. row.key = key /\ row.type = type /\ row.tool = tool
  BY DEF command_row
<1>3. rows \in Seq(S) /\ row \in S
  <2>1. rows \in Seq(CommandRow) /\ CommandRow \subseteq S
    BY DEF TypeOK
  <2> HIDE DEF rows, row, S
  <2>2. rows \in Seq(S)
    BY <2>1, SeqMonotonic
  <2> QED
    BY <2>2 DEF S
<1> HIDE DEF row, S
<1>4. /\ Len(commands') = Len(commands) + 1 /\ Len(commands) \in Nat
      /\ \A i \in 1 .. Len(commands) : commands'[i] = commands[i]
      /\ commands'[Len(commands) + 1] = row
  <2>1. commands' = Append(rows, row)
    BY <1>1
  <2> HIDE DEF rows
  <2>2. /\ Len(commands') = Len(rows) + 1 /\ Len(rows) \in Nat
        /\ \A i \in 1 .. Len(rows) : commands'[i] = rows[i]
        /\ commands'[Len(rows) + 1] = row
    BY <1>3, <2>1, AppendProperties, LenProperties
  <2> QED
    BY <2>2 DEF rows
<1> HIDE DEF rows
<1>5. ASSUME n = Database PROVE run' = run /\ scope'[Database].status = cut_status
  <2>1. cuts /\ key = correction_key /\ type = cut_type /\ type \in {"CANCEL_SUBTREE", "CORRECT_SUBTREE"}
    BY <1>0, <1>5 DEF cut_type
  <2>2. target_scope(type, n) = Database
    BY <1>5, <2>1 DEF target_scope
  <2>3. /\ run' = run /\ scope'[Database].status = cut_status
        /\ \A s \in Scope \ {Database} : scope'[s] = scope[s]
    BY <1>0, <1>1, <2>1, <2>2 DEF invalidate_scope, TypeOK, Scope, cut_status
  <2> QED
    BY <2>3
<1>6. ASSUME n = Root PROVE run' = "CANCELLED" /\ scope'[Database] = scope[Database]
  <2>1. key = closing_key /\ type = "CANCEL_RUN" /\ target_scope(type, n) = RunScope
    BY <1>0, <1>6 DEF target_scope
  <2>2. run' = "CANCELLED" /\ \A s \in Scope \ {RunScope} : scope'[s] = scope[s]
    BY <1>1, <2>1 DEF invalidate_scope, TypeOK
  <2>3. Database \in Scope \ {RunScope}
    BY <1>0 DEF Scope
  <2> QED
    BY <2>2, <2>3
<1>7. /\ \A m \in Node \ {Database} : scope'[m] = scope[m]
      /\ run' = "RUNNING" => run = "RUNNING" /\ scope'[RunScope] = scope[RunScope]
      /\ scope'[Database].status \in {scope[Database].status, cut_status}
      /\ key = correction_key \/ (\E i \in 1 .. Len(commands) : commands[i].key = correction_key) =>
           scope'[Database].status = cut_status
  <2>1. CASE n = Database
    <3>1. target_scope(type, n) = Database /\ type # "CANCEL_RUN" /\ run' = run /\ scope'[Database].status = cut_status
      BY <1>0, <1>1, <1>5, <2>1 DEF target_scope, cut_type
    <3>2. \A s \in Scope \ {Database} : scope'[s] = scope[s]
      BY <1>1, <3>1 DEF invalidate_scope, TypeOK
    <3> QED
      BY <1>0, <1>5, <2>1, <3>1, <3>2 DEF Scope
  <2>2. CASE n = Root
    <3>1. target_scope(type, n) = RunScope /\ key = closing_key /\ run' = "CANCELLED"
      BY <1>0, <1>6, <2>2 DEF target_scope
    <3>2. \A s \in Scope \ {RunScope} : scope'[s] = scope[s]
      BY <1>1, <3>1 DEF invalidate_scope, TypeOK
    <3>3. \A m \in Node : scope'[m] = scope[m]
      BY <1>0, <3>2 DEF Scope
    <3>4. (\E i \in 1 .. Len(commands) : commands[i].key = correction_key) => scope[Database].status = cut_status
      BY DEF CheckTables, Fences
    <3> QED
      BY <1>0, <3>1, <3>3, <3>4
  <2> QED
    BY <2>1, <2>2
<1>8. Fences'
  <2>1. \A m \in registered \ {Database} : scope'[m].status = "ACTIVE"
    BY <1>7 DEF CheckTables, Fences, registered
  <2>2. registered' = registered
    BY <1>1 DEF registered
  <2>3. ASSUME NEW i \in 1 .. Len(commands) + 1
        PROVE  /\ commands'[i].key = correction_key => scope'[Database].status = cut_status
               /\ commands'[i].type = "CORRECT_SUBTREE" => commands'[i].tool = reset_redis_pool
    <3>1. CASE i \in 1 .. Len(commands)
      BY <1>4, <1>7, <3>1 DEF CheckTables, Fences
    <3>2. CASE i \notin 1 .. Len(commands)
      <4>1. i = Len(commands) + 1
        BY <1>4, <3>2
      <4> QED
        BY <1>2, <1>4, <1>7, <4>1
    <3> QED
      BY <3>1, <3>2
  <2>4. Database \in registered => scope'[Database].status \in {"ACTIVE", cut_status}
    BY <1>7 DEF CheckTables, Fences
  <2>5. run' = "RUNNING" => scope'[RunScope].status = "ACTIVE"
    BY <1>7 DEF CheckTables, Fences
  <2> QED
    BY <1>4, <1>s, <2>1, <2>2, <2>3, <2>4, <2>5 DEF Fences
<1>9. Lineage'
  BY <1>1 DEF CheckTables, Lineage, registered, snapshot_scopes
<1>10. Grants'
  <2> SUFFICES ASSUME NEW d \in Acts, d.node \in registered
               PROVE  IF d.node = Replacement
                      THEN /\ reg[Replacement].cause # 0
                           /\ commands'[reg[Replacement].cause].tool = reset_redis_pool
                           /\ reg[Replacement].caps = {reset_redis_pool}
                      ELSE /\ reg[d.node].cause = 0
                           /\ d.arg[1] = recovery_key => d.arg[2] \in reg[d.node].caps
    BY <1>1, <1>s DEF Grants, registered
  <2>1. CASE d.node = Replacement
    <3> DEFINE i == reg[Replacement].cause
    <3>1. i # 0 /\ commands[i].tool = reset_redis_pool /\ reg[Replacement].caps = {reset_redis_pool}
      BY <2>1 DEF CheckTables, Grants
    <3>2. i \in 0 .. Len(commands)
      BY <2>1 DEF Agreement, registered
    <3>3. i \in 1 .. Len(commands)
      BY <1>4, <3>1, <3>2
    <3> QED
      BY <1>4, <2>1, <3>1, <3>3
  <2>2. CASE d.node # Replacement
    BY <2>2 DEF CheckTables, Grants
  <2> QED
    BY <2>1, <2>2
<1>11. Ledger'
  BY <1>1, <1>s DEF CheckTables, Ledger
<1> QED
  BY <1>1, <1>5, <1>6, <1>8, <1>9, <1>10, <1>11 DEF CheckTables

-----------------------------------------------------------------------------
(* What a handler of a check relies on stays.                              *)

\* Actions stay recorded, nodes live until theirs are, and the cut stays.
Lasts ==
  /\ \A d \in Acts : /\ recorded(d.node, d.arg[1]) => recorded(d.node, d.arg[1])'
                     /\ Live(d.node) => Live(d.node)' \/ recorded(d.node, d.arg[1])'
  /\ cuts /\ scope[Database].status = cut_status => scope'[Database].status = cut_status

\* An action of the check, once all is prepared, is decided as the check expects.
LEMMA CheckDecides ==
  ASSUME scenario \in Checks, scenario' = scenario, FenceInv, TreeInv, Agreement, ScopesStartAtOne,
         CheckTables, run = "RUNNING", Root \in tokens, ~Lapsed,
         NEW d \in Acts, Live(d.node), ~recorded(d.node, d.arg[1]),
         cuts => scope[Database].status = cut_status,
         Deciding(d.node, d.arg[1], d.arg[2])
  PROVE  CheckTables' /\ Lasts /\ recorded(d.node, d.arg[1])' /\ run' = run
<1> DEFINE n == d.node
           key == d.arg[1]
           tool == d.arg[2]
           found == validate_node_runtime_state(n, status[n], lease[n])
<1>0. TypeOK /\ FreshIsBlank /\ Ledger /\ stale_key # recovery_key
  BY DemoAssumption DEF FenceInv, CheckTables
<1>s. Acts' = Acts /\ cut_status' = cut_status /\ \A k : told(k)' = told(k)
  BY DEF Acts, cut_status, cuts, cut_type, told
<1>1. /\ denial_reason(n, tool) = told(key)
      /\ key = recovery_key <=>
           node_allowed(n) /\ recovery_contract_allows(n, tool) /\ tool \in reg[n].caps
      /\ found = "SCOPE_INVALID" => n # Replacement
  BY GatewayTells
<1>2. /\ n \in tokens
      /\ UNCHANGED <<reg, scope, commands>>
      /\ execute_allow(n, key, tool) => attempt(n, key, tool, "ALLOW", {})
      /\ ~execute_allow(n, key, tool) => \E matched : attempt(n, key, tool, "DENY", matched)
  BY <1>0, GatewayRecords DEF Deciding
<1>3. key \in {stale_key, recovery_key} /\ n \in Node /\ status[n] # "NONE"
  BY <1>0, <1>2, ActsAre DEF tokens, FreshIsBlank
<1> HIDE DEF key, tool, n
<1>4. UNCHANGED <<run, token>>
  BY DEF Deciding, execute_allow, execute_deny_stale, execute_deny
<1>5. execute_allow(n, key, tool) <=> key = recovery_key
  <2>1. CASE execute_allow(n, key, tool)
    BY <1>1, <2>1 DEF execute_allow
  <2>2. CASE execute_deny_stale(n, key, tool)
    <3>1. ~node_allowed(n)
      BY <2>2 DEF execute_deny_stale, node_allowed
    <3> QED
      BY <1>1, <3>1 DEF execute_allow
  <2>3. CASE execute_deny(n, key, tool)
    BY <1>1, <2>3 DEF execute_deny, execute_allow
  <2> QED
    BY <2>1, <2>2, <2>3 DEF Deciding, n, key, tool
<1>6. PICK decision, matched : /\ attempt(n, key, tool, decision, matched)
                               /\ decision = "ALLOW" <=> key = recovery_key
  <2>1. CASE execute_allow(n, key, tool)
    BY <1>2, <1>5, <2>1
  <2>2. CASE ~execute_allow(n, key, tool)
    <3>1. PICK matched : attempt(n, key, tool, "DENY", matched)
      BY <1>2, <2>2
    <3>2. "DENY" = "ALLOW" <=> key = recovery_key
      BY <1>5, <2>2
    <3> QED
      BY <3>1, <3>2
  <2> QED
    BY <2>1, <2>2
<1> DEFINE a == [node |-> n, key |-> key, tool |-> tool, decision |-> decision, matched |-> matched,
                 place |-> Len(commands)]
<1>7. attempts' = attempts \cup {a}
  BY <1>6 DEF attempt
<1>8. a.node = n /\ a.key = key /\ a.tool = tool /\ a.decision = decision
  OBVIOUS
<1> HIDE DEF a
<1>9. \A b \in attempts : b.key # key
  <2> SUFFICES ASSUME NEW b \in attempts, b.key = key PROVE FALSE
    OBVIOUS
  <2>1. PICK e \in Acts : b.node = e.node /\ b.key = e.arg[1]
    BY <1>0 DEF Ledger
  <2>2. e = d
    <3>1. d.arg[1] = e.arg[1]
      BY <2>1 DEF key
    <3> QED
      BY <3>1, ActsAre
  <2>3. b.node = d.node /\ b.key = d.arg[1]
    BY <2>1, <2>2
  <2>4. recorded(d.node, d.arg[1])
    BY <2>3 DEF recorded
  <2> QED
    BY <2>4
<1>10. /\ reason'[key] = told(key) /\ DOMAIN reason' = DOMAIN reason
       /\ \A k \in DOMAIN reason : k # key => reason'[k] = reason[k]
  BY <1>0, <1>1, <1>3 DEF Deciding, Ledger, n, key, tool
<1>11. Ledger'
  <2>1. {stale_key, recovery_key} \subseteq DOMAIN reason'
    BY <1>0, <1>10 DEF Ledger
  <2>2. ASSUME NEW b \in attempts'
        PROVE  /\ \E e \in Acts : b.node = e.node /\ b.key = e.arg[1] /\ b.tool = e.arg[2]
               /\ reason'[b.key] = told(b.key)
               /\ b.decision = "ALLOW" <=> b.key = recovery_key
    <3>1. CASE b = a
      <4>1. b.node = d.node /\ b.key = d.arg[1] /\ b.tool = d.arg[2]
        BY <1>8, <3>1 DEF n, key, tool
      <4> QED
        BY <1>6, <1>8, <1>10, <3>1, <4>1
    <3>2. CASE b # a
      <4>1. b \in attempts
        BY <1>7, <3>2
      <4>2. b.key # key
        BY <1>9, <4>1
      <4>3. PICK e \in Acts : b.node = e.node /\ b.key = e.arg[1] /\ b.tool = e.arg[2]
        BY <1>0, <4>1 DEF Ledger
      <4>4. b.key \in {stale_key, recovery_key}
        BY <4>3, ActsAre
      <4>5. reason'[b.key] = reason[b.key]
        BY <1>0, <1>10, <4>2, <4>4 DEF Ledger
      <4>6. reason[b.key] = told(b.key) /\ (b.decision = "ALLOW" <=> b.key = recovery_key)
        BY <1>0, <4>1 DEF Ledger
      <4> QED
        BY <4>3, <4>5, <4>6
    <3> QED
      BY <3>1, <3>2
  <2>3. \A b, e \in attempts' : b.key = e.key => b = e
    BY <1>0, <1>7, <1>8, <1>9 DEF Ledger
  <2> QED
    BY <1>s, <2>1, <2>2, <2>3 DEF Ledger
<1>12. \/ UNCHANGED status
       \/ n # Replacement /\ \E st : st # "NONE" /\ status' = [status EXCEPT ![n] = st]
  <2>1. CASE execute_deny_stale(n, key, tool)
    <3>1. found = "SCOPE_INVALID" /\ status' = [status EXCEPT ![n] = effective_status(n)]
      BY <2>1 DEF execute_deny_stale, n
    <3>2. effective_status(n) # "NONE"
      BY DEF effective_status
    <3> QED
      BY <1>1, <3>1, <3>2 DEF n
  <2>2. CASE execute_allow(n, key, tool) \/ execute_deny(n, key, tool)
    BY <2>2 DEF execute_allow, execute_deny
  <2> QED
    BY <2>1, <2>2 DEF Deciding, n, key, tool
<1>13. registered' = registered /\ tokens' = tokens
  BY <1>0, <1>3, <1>4, <1>12 DEF registered, tokens, TypeOK
<1>14. Fences' /\ Lineage' /\ Grants'
  BY <1>2, <1>4, <1>13, <1>s DEF CheckTables, Fences, Lineage, Grants, snapshot_scopes
<1>15. \A m, k : recorded(m, k) => recorded(m, k)'
  BY <1>7 DEF recorded
<1>16. recorded(n, key)'
  BY <1>7, <1>8 DEF recorded
<1>17. ASSUME NEW e \in Acts, Live(e.node) PROVE Live(e.node)' \/ recorded(e.node, e.arg[1])'
  <2>1. CASE e = d
    BY <1>16, <2>1 DEF n, key
  <2>2. CASE e # d
    <3>1. n # Replacement => e.node # n
      BY <2>2, ActsAre DEF n
    <3>2. e.node \in Node
      BY <1>17 DEF Live, tokens
    <3>3. status'[e.node] = status[e.node]
      BY <1>0, <1>12, <3>1, <3>2 DEF TypeOK
    <3> QED
      BY <1>13, <1>17, <3>3 DEF Live
  <2> QED
    BY <2>1, <2>2
<1>18. Lasts
  BY <1>2, <1>15, <1>17 DEF Lasts
<1> QED
  BY <1>4, <1>11, <1>14, <1>16, <1>18 DEF CheckTables, n, key

\* When every action of the check is recorded, the check finds what it expects.
LEMMA CheckExpected ==
  ASSUME scenario \in Checks, Ledger, \A d \in Acts : recorded(d.node, d.arg[1])
  PROVE  as_expected
<1>1. ASSUME NEW d \in Acts
      PROVE  \E a \in attempts : a.node = d.node /\ a.key = d.arg[1] /\ a.tool = d.arg[2]
  <2>1. PICK a \in attempts : a.node = d.node /\ a.key = d.arg[1]
    BY DEF recorded
  <2>2. PICK e \in Acts : a.key = e.arg[1] /\ a.tool = e.arg[2]
    BY DEF Ledger
  <2>3. d.arg[1] = e.arg[1]
    BY <2>1, <2>2
  <2>4. e = d
    BY <2>3, ActsAre
  <2> QED
    BY <2>1, <2>2, <2>4
<1>2. \A n, key, tool : action(n, key, tool).arg[1] = key /\ action(n, key, tool).arg[2] = tool
  BY DEF action, call
<1>3. ASSUME NEW n, NEW key, NEW tool, action(n, key, tool) \in Acts
      PROVE  /\ reason[key] = told(key)
             /\ key = recovery_key => effects(tool) = 1
  <2>1. PICK a \in attempts : a.key = key /\ a.tool = tool
    BY <1>1, <1>2, <1>3
  <2>2. reason[key] = told(key) /\ (a.decision = "ALLOW" <=> key = recovery_key)
    BY <2>1 DEF Ledger
  <2>3. ASSUME key = recovery_key PROVE effects(tool) = 1
    <3>1. \A b \in attempts : b.decision = "ALLOW" => b = a
      BY <2>1, <2>3 DEF Ledger
    <3>2. {b \in attempts : b.tool = tool /\ b.decision = "ALLOW"} = {a}
      BY <2>1, <2>2, <2>3, <3>1
    <3> QED
      BY <3>2, FS_Singleton DEF effects
  <2> QED
    BY <2>2, <2>3
<1>4. effects(restart_postgres) = 0
  <2>1. ASSUME NEW a \in attempts, a.decision = "ALLOW" PROVE a.tool # restart_postgres
    <3>1. PICK e \in Acts : a.key = e.arg[1] /\ a.tool = e.arg[2]
      BY DEF Ledger
    <3>2. e.arg[1] = recovery_key
      BY <2>1, <3>1 DEF Ledger
    <3> QED
      BY <3>1, <3>2, ActsAre
  <2>2. {a \in attempts : a.tool = restart_postgres /\ a.decision = "ALLOW"} = {}
    BY <2>1
  <2> QED
    BY <2>2, FS_EmptySet DEF effects
<1>5. told(recovery_key) = "ALLOWED" /\ stale_key # recovery_key
  BY DemoAssumption DEF told
<1>6. CASE scenario = "cancellation"
  <2>1. action(Database, stale_key, restart_postgres) \in Acts /\ told(stale_key) = "SCOPE_CANCELLED"
    BY <1>5, <1>6 DEF Acts, told, cut_type
  <2>2. reason[stale_key] = "SCOPE_CANCELLED"
    BY <1>3, <2>1
  <2> QED
    BY <1>4, <1>6, <2>2 DEF as_expected
<1>7. CASE scenario = "idempotent-retry"
  <2>1. action(Database, recovery_key, reset_redis_pool) \in Acts
    BY <1>7 DEF Acts
  <2>2. effects(reset_redis_pool) = 1
    BY <1>3, <2>1
  <2> QED
    BY <1>7, <2>2 DEF as_expected
<1>8. CASE scenario = "recovery-manifest-mismatch"
  <2>1. /\ action(Replacement, stale_key, restart_postgres) \in Acts
        /\ action(Replacement, recovery_key, reset_redis_pool) \in Acts
        /\ told(stale_key) = "RECOVERY_TOOL_MISMATCH"
    BY <1>5, <1>8 DEF Acts, told, recovery
  <2>2. /\ reason[stale_key] = "RECOVERY_TOOL_MISMATCH" /\ reason[recovery_key] = "ALLOWED"
        /\ effects(reset_redis_pool) = 1
    BY <1>3, <1>5, <2>1
  <2> QED
    BY <1>8, <2>2 DEF as_expected
<1>9. CASE scenario = "sibling-isolation"
  <2>1. /\ action(Database, stale_key, read_metrics) \in Acts
        /\ action(Sibling, recovery_key, read_metrics) \in Acts
        /\ told(stale_key) = "SCOPE_CANCELLED"
    BY <1>5, <1>9 DEF Acts, told, cut_type
  <2>2. reason[stale_key] = "SCOPE_CANCELLED" /\ reason[recovery_key] = "ALLOWED"
    BY <1>3, <1>5, <2>1
  <2> QED
    BY <1>9, <2>2 DEF as_expected
<1>10. CASE scenario = "concurrent-stale-valid"
  <2>1. /\ action(Stale, stale_key, restart_postgres) \in Acts
        /\ action(Replacement, recovery_key, reset_redis_pool) \in Acts
        /\ told(stale_key) = "SCOPE_SUPERSEDED"
    BY <1>5, <1>10 DEF Acts, told, cut_type, recovery
  <2>2. /\ reason[stale_key] = "SCOPE_SUPERSEDED" /\ reason[recovery_key] = "ALLOWED"
        /\ effects(reset_redis_pool) = 1
    BY <1>3, <1>5, <2>1
  <2> QED
    BY <1>4, <1>10, <2>2 DEF as_expected
<1> QED
  BY <1>6, <1>7, <1>8, <1>9, <1>10 DEF Checks

-----------------------------------------------------------------------------
(* The handlers of a check.                                                *)

\* What is done once a call has returned.
Made(c) ==
  /\ c \in Acts => recorded(c.node, c.arg[1])'
  /\ \A d \in Acts : c = activation(d.node) => Live(d.node)'
  /\ cuts /\ c = cutting => scope'[Database].status = cut_status

\* What is kept while the calls are others' or go on.
LEMMA KeptGoes ==
  ASSUME scenario' = scenario, Lasts, NEW C, Kept(C), NEW D, D \subseteq C,
         D = C \/ \E c \in C : Made(c) /\ c # expect_call /\ C \ {c} \subseteq D
  PROVE  Kept(D)'
<1>s. Acts' = Acts /\ (cuts' <=> cuts) /\ cut_status' = cut_status /\ cutting' = cutting
  BY DEF Acts, cut_status, cuts, cut_type, cutting
<1>1. expect_call \in D
  BY DEF Kept
<1>2. ASSUME NEW d \in Acts
      PROVE  \/ recorded(d.node, d.arg[1])'
             \/ d \in D /\ (activation(d.node) \in D \/ Live(d.node)')
  <2>1. CASE recorded(d.node, d.arg[1])
    BY <2>1 DEF Lasts
  <2>2. CASE ~recorded(d.node, d.arg[1])
    <3>1. d \in C /\ (activation(d.node) \in C \/ Live(d.node))
      BY <2>2 DEF Kept
    <3>2. d \in D \/ recorded(d.node, d.arg[1])'
      BY <3>1 DEF Made
    <3>3. activation(d.node) \in C => activation(d.node) \in D \/ Live(d.node)'
      BY DEF Made
    <3> QED
      BY <3>1, <3>2, <3>3 DEF Lasts
  <2> QED
    BY <2>1, <2>2
<1>3. cuts => cutting \in D \/ scope'[Database].status = cut_status
  BY DEF Kept, Made, Lasts
<1> QED
  BY <1>s, <1>1, <1>2, <1>3 DEF Kept

\* What a handler that was preparing is left with, as long as what it relies on lasts.
LEMMA WorkingLeft ==
  ASSUME scenario' = scenario, Lasts, NEW s, Working(s), NEW t, Sorted(t), all(t) \subseteq all(s),
         all(t) = all(s) \/ \E c \in all(s) : Made(c) /\ c # expect_call /\ all(s) \ {c} \subseteq all(t),
         run' = "CANCELLED" => \A c \in all(t) : rank(c) >= 3
  PROVE  Working(t)'
<1> DEFINE C == all(s)
           D == all(t)
<1>1. Kept(C)
  BY DEF Working
<1>2. D \subseteq C /\ (D = C \/ \E c \in C : Made(c) /\ c # expect_call /\ C \ {c} \subseteq D)
  OBVIOUS
<1> HIDE DEF C, D
<1>3. Kept(D)'
  BY <1>1, <1>2, KeptGoes
<1>4. \A c : Sound(c)' <=> Sound(c)
  BY DEF Sound, Acts, cuts, cut_type, cutting
<1>5. \A c \in D : Sound(c)
  BY <1>2 DEF Working, C
<1> QED
  BY <1>3, <1>4, <1>5 DEF Working, D

\* A handler that is not moved goes on relying on it.
LEMMA WorkingStays ==
  ASSUME scenario' = scenario, Lasts, NEW s, Working(s), run' = "CANCELLED" => run = "CANCELLED"
  PROVE  Working(s)'
  BY WorkingLeft DEF Working

\* The calls that take away what a check left do not depend on it.
LEMMA HandlersStay ==
  ASSUME scenario' = scenario, Lasts, Handlers, thread' = thread, run' = "CANCELLED" => run = "CANCELLED"
  PROVE  Handlers'
<1>1. \A r \in Task : thread'[r].todo = todo(r)
  BY DEF todo
<1>2. ASSUME NEW r \in Task PROVE Closing(thread'[r].todo) \/ Working(todo(r))'
  <2>1. CASE Closing(todo(r))
    BY <1>1, <2>1
  <2>2. CASE Working(todo(r))
    <3>1. \A u : u = todo(r) => Working(u)'
      BY <2>2, WorkingStays
    <3> QED
      BY <1>1, <3>1 DEF todo
  <2> QED
    BY <2>1, <2>2 DEF Handlers
<1> QED
  BY <1>1, <1>2 DEF Handlers, todo, Closing

\* Thread r closes down, the others stay.
LEMMA HandlersClose ==
  ASSUME scenario' = scenario, Lasts, Handlers, NEW r \in Task, NEW t, Moves(r, t), Closing(t),
         run' = "CANCELLED" => run = "CANCELLED"
  PROVE  Handlers'
<1>1. thread'[r].todo = t /\ \A q \in Task \ {r} : thread'[q].todo = todo(q)
  BY DEF Moves, todo
<1>2. ASSUME NEW q \in Task \ {r} PROVE Closing(thread'[q].todo) \/ Working(todo(q))'
  <2>1. CASE Closing(todo(q))
    BY <1>1, <2>1
  <2>2. CASE Working(todo(q))
    <3>1. \A u : u = todo(q) => Working(u)'
      BY <2>2, WorkingStays
    <3> QED
      BY <1>1, <3>1 DEF todo
  <2> QED
    BY <2>1, <2>2 DEF Handlers
<1>3. \A p, q \in Task : p = q \/ Closing(thread'[p].todo) \/ Closing(thread'[q].todo)
  <2> SUFFICES ASSUME NEW p \in Task, NEW q \in Task, p # q
               PROVE  Closing(thread'[p].todo) \/ Closing(thread'[q].todo)
    OBVIOUS
  <2>1. CASE p = r \/ q = r
    BY <1>1, <2>1
  <2>2. CASE p # r /\ q # r
    BY <1>1, <2>2 DEF Handlers
  <2> QED
    BY <2>1, <2>2
<1> QED
  BY <1>1, <1>2, <1>3 DEF Handlers, todo, Closing

\* Thread r is the one that works, or closes down; the others close down.
LEMMA HandlersWork ==
  ASSUME NEW r \in Task, NEW t, Moves(r, t), Closing(t) \/ Working(t)',
         \A q \in Task \ {r} : Closing(todo(q))
  PROVE  Handlers'
<1>1. thread'[r].todo = t /\ \A q \in Task \ {r} : thread'[q].todo = todo(q)
  BY DEF Moves, todo
<1>2. Closing(thread'[r].todo) \/ Working(todo(r))'
  BY <1>1 DEF todo
<1> QED
  BY <1>1, <1>2 DEF Handlers, todo, Closing

\* A handler that works is not one that closes down: the others are.
LEMMA OneWorks ==
  ASSUME Handlers, NEW r \in Task, Working(todo(r))
  PROVE  \A q \in Task \ {r} : Closing(todo(q))
<1>1. expect_call \in all(todo(r)) /\ expect_call.do = "expect"
  BY DEF Working, Kept, expect_call, call
<1>2. ~Closing(todo(r))
  BY <1>1 DEF Closing
<1> QED
  BY <1>2 DEF Handlers

\* Nobody's call, or one that waits, changes nothing.
LEMMA QuietCheck ==
  ASSUME Agreement, CheckTables, scenario' = scenario, UNCHANGED <<tables, reason>>
  PROVE  CheckTables' /\ Lasts
<1>1. Unconcerned /\ registered' = registered /\ run' = run
  BY DEF tables, Unconcerned, CommandsStay, Stays, registered
<1>2. CheckTables'
  BY <1>1, CheckTablesStay
<1>3. Lasts
  BY DEF tables, Lasts, recorded, Live, tokens
<1> QED
  BY <1>2, <1>3

-----------------------------------------------------------------------------
(* The services a check calls.                                             *)

\* A registration takes nothing away.
LEMMA EnrolLasts ==
  ASSUME TypeOK, FreshIsBlank, NEW child, NEW caps, NEW cause, Enrols(child, caps, cause), token' = token
  PROVE  Lasts
<1>1. /\ child \in Node /\ status[child] = "NONE" /\ Database \in Node /\ attempts' = attempts
      /\ \A m \in Node \ {child} : status'[m] = status[m]
      /\ \A s \in Scope \ {child} : scope'[s] = scope[s]
  BY DemoAssumption DEF Enrols, fresh, registered, _create_spawn_locked, TypeOK
<1>2. \A n : Live(n) => Live(n)'
  BY <1>1 DEF Live, LiveStatus, tokens
<1>3. cuts /\ scope[Database].status = cut_status => scope'[Database].status = cut_status
  <2>1. cut_status # "ABSENT"
    BY DEF cut_status
  <2> QED
    BY <1>1, <2>1 DEF FreshIsBlank, Scope
<1> QED
  BY <1>1, <1>2, <1>3 DEF Lasts, recorded

\* _spawn_check_node(), its first call.
LEMMA CheckSpawns ==
  ASSUME TypeOK, FreshIsBlank, SnapshotsNest, Agreement, CheckTables, scenario' = scenario,
         UNCHANGED reason, NEW c, Sound(c), c.do = "spawn",
         create_spawn(parent_of(c.node), c.node, c.arg)
  PROVE  CheckTables' /\ Lasts /\ run' = run
<1>1. c.node # Replacement /\ c.node \in {Database, Stale, Sibling}
  BY DemoAssumption DEF Sound
<1>2. CommandsStay
  BY DEF create_spawn, CommandsStay, Stays
<1>3. Enrols(c.node, c.arg, 0) /\ token' = token /\ run' = run
  BY <1>1, <1>2 DEF create_spawn, Enrols, Sound
<1> QED
  BY <1>3, CheckTablesEnrol, EnrolLasts

\* activate() makes its node live.
LEMMA CheckActivates ==
  ASSUME TypeOK, now # 0, Agreement, CheckTables, scenario' = scenario,
         UNCHANGED reason, NEW n, activate(n, now)
  PROVE  CheckTables' /\ Lasts /\ run' = run /\ Live(n)'
<1>1. n \in Node /\ n \in registered /\ "ACTIVE" \in ReplacementStatus
  BY DEF activate, registered, ReplacementStatus
<1>2. CommandsStay
  BY <1>1, LifecycleStays DEF activate
<1>3. /\ UNCHANGED <<run, reg, scope, attempts>>
      /\ status'[n] = "ACTIVE" /\ token'[n] = now
      /\ \A m \in Node \ {n} : status'[m] = status[m] /\ token'[m] = token[m]
  BY <1>1 DEF activate, TypeOK
<1>4. registered' = registered
  BY <1>1, <1>3 DEF registered
<1>5. CheckTables'
  BY <1>2, <1>3, <1>4, CheckTablesStay DEF Unconcerned
<1>6. \A m : Live(m) \/ m = n => Live(m)'
  BY <1>1, <1>3 DEF Live, LiveStatus, tokens
<1>7. Lasts
  BY <1>3, <1>6 DEF Lasts, recorded
<1> QED
  BY <1>3, <1>5, <1>6, <1>7

\* The command that cuts, or that cancels the run, or the replay of either.
LEMMA CheckCommands ==
  ASSUME TypeOK, FreshIsBlank, Agreement, CheckTables, scenario' = scenario,
         UNCHANGED reason, NEW c, Sound(c), c.do = "command",
         commanded(c.node, c.arg[1], c.arg[2])
  PROVE  /\ CheckTables' /\ Lasts
         /\ run' = run \/ (c = closing_call /\ run' = "CANCELLED")
         /\ c = cutting /\ cuts => scope'[Database].status = cut_status
<1>a. /\ closing_call.node = Root /\ closing_call.arg[1] = closing_key /\ closing_call.arg[2] = "CANCEL_RUN"
      /\ cutting.node = Database /\ cutting.arg[1] = correction_key /\ cutting.arg[2] = cut_type
      /\ Database # Root
  BY DemoAssumption DEF closing_call, cutting, call
<1>b. c = closing_call \/ (cuts /\ c = cutting)
  BY DEF Sound
<1>1. CASE issued(c.arg[1]) # {} /\ UNCHANGED vars
  <2>1. CheckTables' /\ Lasts /\ run' = run
    BY <1>1, QuietCheck DEF vars, tables
  <2>2. ASSUME c = cutting, cuts PROVE scope'[Database].status = cut_status
    <3>1. PICK i \in DOMAIN commands : commands[i].key = correction_key
      BY <1>1, <1>a, <2>2 DEF issued
    <3>2. i \in 1 .. Len(commands)
      BY <3>1, LenProperties DEF TypeOK
    <3>3. scope[Database].status = cut_status
      BY <3>1, <3>2 DEF CheckTables, Fences
    <3> QED
      BY <1>1, <3>3 DEF vars, tables
  <2> QED
    BY <2>1, <2>2
<1> DEFINE n == c.node
           key == c.arg[1]
           type == c.arg[2]
           tool == IF type = "CORRECT_SUBTREE" THEN reset_redis_pool ELSE NoTool
<1>2. CASE issue_command(Operator, key, type, n, tool, NoProposal)
  <2>0. \/ cuts /\ n = Database /\ key = correction_key /\ type = cut_type
        \/ n = Root /\ key = closing_key /\ type = "CANCEL_RUN"
    BY <1>a, <1>b
  <2>t. type = "CORRECT_SUBTREE" => tool = reset_redis_pool
    OBVIOUS
  <2>k. (n = Database => c = cutting /\ cuts) /\ (n = Root => c = closing_call) /\ n \in {Database, Root}
    BY <1>a, <1>b
  <2> HIDE DEF n, key, type, tool
  <2>1. /\ CheckTables'
        /\ UNCHANGED <<status, token, attempts>>
        /\ n = Database => run' = run /\ scope'[Database].status = cut_status
        /\ n = Root => run' = "CANCELLED" /\ scope'[Database] = scope[Database]
    BY <1>2, <2>0, <2>t, CheckTablesCut
  <2>2. \A m, k : (Live(m) => Live(m)') /\ (recorded(m, k) => recorded(m, k)')
    BY <2>1 DEF Live, recorded, tokens
  <2>3. cuts /\ scope[Database].status = cut_status => scope'[Database].status = cut_status
    BY <2>1, <2>k
  <2>4. Lasts
    BY <2>2, <2>3 DEF Lasts
  <2> QED
    BY <1>a, <2>1, <2>4, <2>k DEF n
<1> QED
  BY <1>1, <1>2 DEF commanded

\* create_replacement() for the correction, or the replay of it.
LEMMA CheckReplaces ==
  ASSUME TypeOK, FreshIsBlank, SnapshotsNest, Agreement, CheckTables, scenario' = scenario,
         UNCHANGED reason, replaced
  PROVE  CheckTables' /\ Lasts /\ run' = run
<1>1. CASE UNCHANGED vars
  BY <1>1, QuietCheck DEF vars, tables
<1>2. ASSUME NEW i \in issued(correction_key), create_replacement(Root, Replacement, i)
      PROVE  CheckTables' /\ Lasts /\ run' = run
  <2>1. i \in 1 .. Len(commands)
    BY LenProperties DEF issued, TypeOK
  <2>2. commands[i].tool = reset_redis_pool
    BY <1>2, <2>1 DEF create_replacement, CheckTables, Fences
  <2>3. capabilities_exact(i) = {reset_redis_pool}
    <3>1. reset_redis_pool # NoTool
      BY DemoAssumption, RegistryAssumption
    <3> QED
      BY <2>2, <3>1 DEF capabilities_exact
  <2>4. Replacement \in Node /\ parent_of(Replacement) = Root
    BY DemoAssumption DEF parent_of
  <2>5. CommandsStay
    BY <1>2, <2>1, <2>4, ReplacementStays
  <2>6. Enrols(Replacement, capabilities_exact(i), i) /\ token' = token /\ run' = run
    BY <1>2, <2>1, <2>2, <2>3, <2>4, <2>5 DEF create_replacement, Enrols
  <2> QED
    BY <2>6, CheckTablesEnrol, EnrolLasts
<1> QED
  BY <1>1, <1>2 DEF replaced

\* A checkpoint that is not refused leaves its node alive.
LEMMA CheckCheckpoints ==
  ASSUME TypeOK, FreshIsBlank, CheckpointsHeld, Agreement, CheckTables, scenario' = scenario,
         UNCHANGED reason, NEW n, NEW answer, checkpoint(n, answer)
  PROVE  CheckTables' /\ run' = run /\ (answer # "refused" => Lasts)
<1>1. CASE UNCHANGED tables
  <2>1. CheckTables' /\ Lasts
    BY <1>1, QuietCheck
  <2> QED
    BY <1>1, <2>1 DEF tables
<1>2. ASSUME NEW k \in pending_checkpoint(n), checkpoint_write(k),
             answer = IF k.to = "WAITING" THEN "allowed" ELSE "refused"
      PROVE  CheckTables' /\ run' = run /\ (answer # "refused" => Lasts)
  <2>1. k \in checkpoints /\ k.node \in Node /\ k.to # "NONE" /\ status[k.node] # "NONE"
    <3>1. k \in checkpoints
      BY DEF pending_checkpoint
    <3>2. k.node \in tokens /\ k.node \in Node /\ k.to # "NONE"
      BY <3>1 DEF CheckpointsHeld, TypeOK, CheckpointRow, NodeStatus, LiveStatus, EndStatus, tokens
    <3> QED
      BY <3>1, <3>2 DEF FreshIsBlank
  <2>2. /\ UNCHANGED <<run, reg, token, scope, commands, attempts>>
        /\ status' = status \/ status' = [status EXCEPT ![k.node] = k.to]
    BY <1>2 DEF checkpoint_write
  <2>3. registered' = registered
    BY <2>1, <2>2 DEF registered, TypeOK
  <2>4. CommandsStay
    BY <2>2 DEF CommandsStay, Stays
  <2>5. CheckTables'
    BY <2>2, <2>3, <2>4, CheckTablesStay DEF Unconcerned
  <2>6. ASSUME answer # "refused" PROVE Lasts
    <3>1. k.to = "WAITING"
      BY <1>2, <2>6
    <3>2. \A m \in Node : status'[m] = status[m] \/ status'[m] = "WAITING"
      BY <2>1, <2>2, <3>1 DEF TypeOK
    <3>3. \A m : Live(m) => Live(m)'
      BY <2>2, <3>2 DEF Live, LiveStatus, tokens
    <3> QED
      BY <2>2, <3>3 DEF Lasts, recorded
  <2> QED
    BY <2>2, <2>5, <2>6
<1> QED
  BY <1>1, <1>2 DEF checkpoint, checkpoint_read, checkpoint_decide

\* What a working handler has not prepared yet comes before what it does.
LEMMA CallsPrepared ==
  ASSUME ThreadsInv, NEW r \in Task, NEW c \in calls(r), Working(todo(r))
  PROVE  /\ Sound(c) /\ c \in all(todo(r))
         /\ \A d \in all(todo(r)) : rank(c) <= rank(d)
         /\ Sorted(left(r, c))
  BY GoesOn, SortedLeft DEF ThreadsInv, Working

\* An action is decided when its actor is live and the command has been given.
LEMMA CheckExecutes ==
  ASSUME scenario \in Checks, scenario' = scenario, FenceInv, TreeInv, Agreement, ScopesStartAtOne,
         CheckTables, run \in {"RUNNING", "CANCELLED"}, Root \in tokens, ~Lapsed,
         ThreadsInv, NEW r \in Task, NEW c \in calls(r), Working(todo(r)),
         c.do = "execute", decide(c.node, c.arg[1], c.arg[2])
  PROVE  CheckTables' /\ Lasts /\ run' = run /\ recorded(c.node, c.arg[1])'
<1> DEFINE C == all(todo(r))
<1>1. c \in Acts /\ c \in C /\ Kept(C) /\ (run = "CANCELLED" => \A d \in C : rank(d) >= 3)
  BY CallsPrepared DEF Working, Sound
<1>2. rank(c) = 2 /\ \A d \in C : rank(c) <= rank(d)
  BY CallsPrepared DEF rank
<1> HIDE DEF C
<1>3. \A n : activation(n) \notin C
  <2>1. \A n : rank(activation(n)) = 1
    BY Ranks DEF activation
  <2> QED
    BY <1>2, <2>1
<1>4. cutting \notin C
  <2>1. rank(cutting) = 1
    BY Ranks DEF cutting
  <2> QED
    BY <1>2, <2>1
<1>5. run = "RUNNING"
  BY <1>1, <1>2
<1>6. /\ recorded(c.node, c.arg[1]) \/ Live(c.node)
      /\ cuts => scope[Database].status = cut_status
  BY <1>1, <1>3, <1>4 DEF Kept
<1>7. CASE recorded(c.node, c.arg[1])
  <2>1. ~admissible(c.node, c.arg[1])
    BY <1>7 DEF recorded, admissible
  <2>2. UNCHANGED <<vars, reason>>
    BY <2>1 DEF decide, execute_allow, execute_deny_stale, execute_deny
  <2>3. CheckTables' /\ Lasts
    BY <2>2, QuietCheck DEF vars
  <2> QED
    BY <1>7, <2>2, <2>3 DEF vars, tables, recorded
<1>8. CASE ~recorded(c.node, c.arg[1])
  <2>1. Deciding(c.node, c.arg[1], c.arg[2]) /\ Live(c.node)
    BY <1>6, <1>8 DEF decide, Deciding
  <2> QED
    BY <1>1, <1>5, <1>6, <1>8, <2>1, CheckDecides DEF FenceInv
<1> QED
  BY <1>7, <1>8

\* What comes of a call of a check.
Outcome(r, c) ==
  /\ CheckTables' /\ verdict' # "FAIL" /\ UNCHANGED <<manager, worker>>
  /\ run' = run \/ (c = closing_call /\ run' = "CANCELLED")
  /\ \/ Ends(r)
     \/ Lasts /\ thread' = thread /\ run' = run
     \/ Lasts /\ Goes(r, c) /\ Made(c) /\ c # expect_call

\* Every call of a check.
LEMMA CheckPerforms ==
  ASSUME scenario \in Checks, scenario' = scenario, DemoInv, ScopesStartAtOne, CheckInv, ~Lapsed,
         NEW r \in Task, NEW c \in calls(r), Working(todo(r)), perform(r, c)
  PROVE  Outcome(r, c)
<1>0. /\ TypeOK /\ FreshIsBlank /\ FenceInv /\ TreeInv /\ SnapshotsNest /\ now # 0 /\ CheckpointsHeld
      /\ Agreement /\ ThreadsInv /\ ThreadShape /\ CheckTables /\ verdict # "FAIL"
      /\ run \in {"RUNNING", "CANCELLED"} /\ Root \in tokens
  BY DEF DemoInv, TablesInv, FenceInv, TreeInv, ReplacementInv, ThreadsInv, CheckInv
<1>1. Sound(c)
  BY <1>0, CallsPrepared
<1>k. /\ closing_call.do = "command" /\ cutting.do = "command" /\ expect_call.do = "expect"
      /\ \A n : activation(n).do = "activate" /\ activation(n).node = n
      /\ \A d \in Acts : d.do = "execute"
  BY ActsAre DEF closing_call, cutting, expect_call, activation, call
<1>2. CASE service(r, c)
  <2>0. /\ Goes(r, c) /\ reason' = reason /\ verdict' # "FAIL" /\ UNCHANGED <<manager, worker>>
    BY <1>0, <1>2, CallMoves DEF service, session
  <2> SUFFICES /\ CheckTables' /\ Lasts /\ Made(c) /\ c # expect_call
               /\ run' = run \/ (c = closing_call /\ run' = "CANCELLED")
    BY <2>0 DEF Outcome
  <2>1. CASE c.do = "spawn" /\ create_spawn(parent_of(c.node), c.node, c.arg)
    BY <1>0, <1>1, <1>k, <2>0, <2>1, CheckSpawns DEF Made
  <2>2. CASE c.do = "activate" /\ activate(c.node, now)
    <3>1. CheckTables' /\ Lasts /\ run' = run /\ Live(c.node)'
      BY <1>0, <2>0, <2>2, CheckActivates
    <3>2. Made(c)
      BY <1>k, <2>2, <3>1 DEF Made
    <3> QED
      BY <1>k, <2>2, <3>1, <3>2
  <2>3. CASE c.do = "command" /\ commanded(c.node, c.arg[1], c.arg[2])
    <3>1. /\ CheckTables' /\ Lasts
          /\ run' = run \/ (c = closing_call /\ run' = "CANCELLED")
          /\ c = cutting /\ cuts => scope'[Database].status = cut_status
      BY <1>0, <1>1, <2>0, <2>3, CheckCommands
    <3> QED
      BY <1>k, <2>3, <3>1 DEF Made
  <2>4. CASE c.do = "replace" /\ replaced
    <3>1. CheckTables' /\ Lasts /\ run' = run
      BY <1>0, <2>0, <2>4, CheckReplaces
    <3> QED
      BY <1>k, <2>4, <3>1 DEF Made
  <2>5. CASE c.do = "conflict" /\ UNCHANGED vars
    <3>1. CheckTables' /\ Lasts /\ run' = run
      BY <1>0, <2>0, <2>5, QuietCheck DEF vars, tables
    <3> QED
      BY <1>k, <2>5, <3>1 DEF Made
  <2> QED
    BY <1>1, <1>2, <2>1, <2>2, <2>3, <2>4, <2>5 DEF service, Sound
<1>3. CASE execution(r, c)
  <2>0. /\ Goes(r, c) /\ verdict' # "FAIL" /\ UNCHANGED <<manager, worker>>
        /\ c.do = "execute" /\ decide(c.node, c.arg[1], c.arg[2])
    BY <1>0, <1>3, CallMoves DEF execution, session
  <2>1. CheckTables' /\ Lasts /\ run' = run /\ recorded(c.node, c.arg[1])'
    BY <1>0, <2>0, CheckExecutes
  <2>2. Made(c)
    BY <1>k, <2>0, <2>1 DEF Made
  <2> QED
    BY <1>k, <2>0, <2>1, <2>2 DEF Outcome
<1>4. CASE checkpointing(r, c)
  <2>0. c.do = "checkpoint" /\ c.arg = "allowed" /\ reason' = reason /\ verdict' # "FAIL" /\ UNCHANGED <<manager, worker>>
    BY <1>0, <1>1, <1>4 DEF checkpointing, session, Sound
  <2>1. PICK answer \in {"none", "allowed", "refused"} :
          /\ checkpoint(c.node, answer)
          /\ IF answer = "none" THEN UNCHANGED <<thread, lock>>
             ELSE IF answer = c.arg THEN proceed(r, c) ELSE raise(r, c)
    BY <1>4 DEF checkpointing
  <2>2. CheckTables' /\ run' = run /\ (answer # "refused" => Lasts)
    BY <1>0, <2>0, <2>1, CheckCheckpoints
  <2>3. Made(c) /\ c # expect_call
    BY <1>k, <2>0 DEF Made
  <2>4. CASE answer = "refused"
    <3>1. Ends(r)
      BY <1>0, <2>0, <2>1, <2>4, CallMoves DEF Raises
    <3> QED
      BY <2>0, <2>2, <3>1 DEF Outcome
  <2>5. CASE answer # "refused"
    <3>1. thread' = thread \/ Goes(r, c)
      BY <1>0, <2>0, <2>1, <2>5, CallMoves
    <3> QED
      BY <2>0, <2>2, <2>3, <2>5, <3>1 DEF Outcome
  <2> QED
    BY <2>4, <2>5
<1>5. CASE failure(r, c)
  <2>1. UNCHANGED <<tables, reason>> /\ verdict' # "FAIL" /\ UNCHANGED <<manager, worker>>
    BY <1>0, <1>5 DEF failure, checkpoint_abandon, vars, session
  <2>2. Ends(r)
    BY <1>0, <1>1, <1>5, CallMoves DEF failure, Raises, Sound
  <2>3. CheckTables'
    BY <1>0, <2>1, QuietCheck
  <2> QED
    BY <2>1, <2>2, <2>3 DEF Outcome, tables
<1>6. CASE expectation(r, c)
  <2>1. UNCHANGED <<tables, reason, manager, worker>> /\ Ends(r)
    BY <1>0, <1>6, CallMoves DEF expectation, vars
  <2>2. CheckTables'
    BY <1>0, <2>1, QuietCheck
  <2>3. as_expected
    <3>1. rank(c) = 4 /\ \A d \in all(todo(r)) : rank(c) <= rank(d)
      <4>1. rank(c) = 4
        BY <1>6, <1>k DEF expectation, rank
      <4> QED
        BY <1>0, <4>1, CallsPrepared
    <3>2. \A d \in Acts : d \notin all(todo(r))
      <4>1. \A d \in Acts : rank(d) = 2
        BY <1>k DEF rank
      <4> QED
        BY <3>1, <4>1
    <3>3. \A d \in Acts : recorded(d.node, d.arg[1])
      BY <3>2 DEF Working, Kept
    <3> QED
      BY <1>0, <3>3, CheckExpected DEF CheckTables
  <2>4. verdict' # "FAIL"
    BY <1>6, <2>3 DEF expectation
  <2> QED
    BY <2>1, <2>2, <2>4 DEF Outcome, tables
<1> QED
  BY <1>1, <1>2, <1>3, <1>4, <1>5, <1>6 DEF perform, Sound, looked_at, locking, entering, registering,
     unlisting, keeping_alive, stopping, joining, detaching, launching, awaiting_checkpoint, going,
     awaiting_exit, killing, closing_others

-----------------------------------------------------------------------------
(* The steps of a check.                                                   *)

\* Where nothing is left to do, or only to close down.
LEMMA ClosingHandlers ==
  /\ Closing(<<>>) /\ Closing(manager_close) /\ Closing(close)
<1>1. Closing(<<>>)
  BY NothingLeft DEF Closing
<1>2. Closing(manager_close)
  BY CloseTransits DEF Closing
<1>3. Closing(close)
  <2>1. all(close) = CloseCalls
    BY CloseScript DEF Script
  <2>2. \A c \in CloseCalls : c.do \in {"unlist", "earlier", "kill", "stop", "join"}
    BY DEF CloseCalls, ResetCalls, call
  <2> QED
    BY <2>1, <2>2 DEF Closing
<1> QED
  BY <1>1, <1>2, <1>3

\* A handler that closes down has no worker to kill, and leaves the tables alone.
LEMMA CheckCloses ==
  ASSUME Resting, ThreadsInv, ManagerShape, NEW r \in Task, NEW c \in calls(r), Closing(todo(r)),
         perform(r, c)
  PROVE  /\ UNCHANGED <<vars, reason, verdict>> /\ Resting'
         /\ thread' = thread \/ \E t : Moves(r, t) /\ Closing(t)
<1>1. c.do \in {"unlist", "earlier", "kill", "stop", "join"} /\ Closing(left(r, c))
  BY GoesOn DEF ThreadsInv, Closing
<1>2. \/ unlisting(r, c) \/ closing_others(r, c) \/ killing(r, c) \/ stopping(r, c)
      \/ joining(r, c)
  BY <1>1 DEF perform, service, execution, checkpointing, failure, expectation, looked_at, locking,
     entering, registering, keeping_alive, detaching, launching, awaiting_checkpoint, going, awaiting_exit
<1>3. UNCHANGED <<vars, reason, verdict>>
  BY <1>2 DEF unlisting, closing_others, killing, stopping, joining, session
<1>4. Resting'
  <2>1. worker' = worker
    <3>1. killing(r, c) => worker' = [worker EXCEPT !.state = worker.state]
      BY DEF killing, Resting
    <3>2. [worker EXCEPT !.state = worker.state] = worker
      BY DEF Resting
    <3> QED
      BY <1>2, <3>1, <3>2 DEF unlisting, closing_others, stopping, joining
  <2>2. manager'.nodes = manager.nodes
    BY <1>2 DEF unlisting, closing_others, killing, stopping, joining, session, ManagerShape, Resting
  <2> QED
    BY <2>1, <2>2 DEF Resting
<1>5. thread' = thread \/ \E t : Moves(r, t) /\ Closing(t)
  <2>1. thread' = thread \/ Goes(r, c) \/ Ends(r) \/ Moves(r, manager_close)
    BY PerformMoves DEF ThreadsInv
  <2> QED
    BY <1>1, <2>1, ClosingHandlers DEF Goes, Ends
<1> QED
  BY <1>3, <1>4, <1>5

\* The scanner finds no node of a check overdue while no lease has run out.
LEMMA CheckScanned ==
  ASSUME TypeOK, Agreement, CheckTables, ~Lapsed, Root \in tokens, scenario' = scenario, UNCHANGED reason,
         expire_stale_nodes(now)
  PROVE  CheckTables' /\ Lasts /\ run' = run
<1> DEFINE S == stale_nodes(now)
<1>1. /\ status' = [n \in Node |-> IF n \in S THEN "LEASE_EXPIRED" ELSE status[n]]
      /\ UNCHANGED <<reg, token, scope, attempts>>
      /\ run' = IF Root \in S /\ run = "RUNNING" THEN "FAILED" ELSE run
  BY DEF expire_stale_nodes
<1>2. \A n \in S : n \in Node /\ n \notin tokens /\ status[n] # "NONE"
  <2> SUFFICES ASSUME NEW n \in S PROVE n \in Node /\ n \notin tokens /\ status[n] # "NONE"
    OBVIOUS
  <2>1. n \in Node /\ (n \in tokens => status[n] \in LiveStatus /\ lease[n] < now) /\ status[n] \in LiveStatus \cup {"PENDING"}
    BY DEF stale_nodes
  <2>2. lease[n] \in Nat /\ now \in Nat
    BY <2>1 DEF TypeOK
  <2> QED
    BY <2>1, <2>2 DEF Lapsed, LiveStatus
<1> HIDE DEF S
<1>3. registered' = registered /\ run' = run
  BY <1>1, <1>2 DEF registered
<1>4. CommandsStay
  BY ScanStays
<1>5. CheckTables'
  BY <1>1, <1>3, <1>4, CheckTablesStay DEF Unconcerned
<1>6. \A n : Live(n) => Live(n)'
  BY <1>1, <1>2 DEF Live, tokens
<1>7. Lasts
  BY <1>1, <1>6 DEF Lasts, recorded
<1> QED
  BY <1>3, <1>5, <1>7

\* What is no call of a handler leaves a check alone.
LEMMA CheckRests ==
  ASSUME TypeOK, Agreement, CheckTables, Resting, ManagerShape, ~Lapsed, Root \in tokens, scenario' = scenario,
         Keepalive \/ WorkerProcess \/ Elsewhere \/ UNCHANGED demoVars
  PROVE  CheckTables' /\ Lasts /\ run' = run /\ UNCHANGED <<thread, verdict>> /\ Resting'
<1>1. CASE Keepalive
  <2>1. manager.nodes = {}
    BY DEF Resting
  <2>2. ended
    BY <1>1, <2>1 DEF Keepalive, beat
  <2>3. UNCHANGED <<vars, reason, thread, verdict, worker>> /\ manager'.nodes = manager.nodes
    BY <2>2 DEF ended, session, ManagerShape, Resting
  <2>4. CheckTables' /\ Lasts
    BY <2>3, QuietCheck DEF vars
  <2> QED
    BY <2>3, <2>4 DEF Resting, vars, tables
<1>2. CASE WorkerProcess
  BY <1>2 DEF WorkerProcess, worker_checkpoint, worker_released, worker_action, worker_timeout, exited, Resting
<1>3. CASE Elsewhere
  <2>1. UNCHANGED <<reason, thread, verdict, worker, manager>>
    BY <1>3 DEF Elsewhere, demo, session
  <2>2. CASE expire_stale_nodes(now)
    BY <2>1, <2>2, CheckScanned DEF Resting
  <2>3. CASE tick
    <3>1. UNCHANGED tables
      BY <2>3 DEF tick
    <3>2. CheckTables' /\ Lasts
      BY <2>1, <3>1, QuietCheck
    <3> QED
      BY <2>1, <3>1, <3>2 DEF Resting, tables
  <2> QED
    BY <1>3, <2>2, <2>3 DEF Elsewhere
<1>4. CASE UNCHANGED demoVars
  <2>1. UNCHANGED <<vars, reason, thread, verdict, worker, manager>>
    BY <1>4 DEF demoVars, demo, session
  <2>2. CheckTables' /\ Lasts
    BY <2>1, QuietCheck DEF vars
  <2> QED
    BY <2>1, <2>2 DEF Resting, vars, tables
<1> QED
  BY <1>1, <1>2, <1>3, <1>4

\* A handler that begins is the check's, before anything has begun, or it closes down.
LEMMA CheckBegins ==
  ASSUME scenario \in Checks, scenario' = scenario, ThreadShape, Agreement, CheckTables, Handlers,
         run \in {"RUNNING", "CANCELLED"}, run = "CANCELLED" => Begun, Resting,
         NEW r \in Task, open(r) \/ transition(r) \/ finish(r) \/ shut_down(r)
  PROVE  CheckTables' /\ Handlers' /\ run' = run /\ verdict' = verdict /\ Resting'
<1>1. open(r) \/ shut_down(r)
  BY DEF transition, finish, Checks
<1>2. UNCHANGED <<vars, reason, manager, worker, verdict>>
  BY <1>1 DEF open, shut_down, begin, session
<1>3. CheckTables' /\ Lasts
  BY <1>2, QuietCheck DEF vars
<1>4. run' = run
  BY <1>2 DEF vars, tables
<1>5. CASE open(r)
  <2>1. run = "RUNNING"
    BY <1>5 DEF open, Begun, registered
  <2>2. Working(opening)
    BY <2>1, ChecksOpen
  <2>3. \A u : u = opening => Working(u)'
    BY <1>3, <1>4, <2>2, WorkingStays
  <2>4. Moves(r, opening)
    BY <1>5, BeginMoves DEF open
  <2>5. \A q \in Task : Closing(todo(q))
    BY <1>5, ClosingHandlers DEF open, todo, Idle
  <2>6. \A u : u = opening => Handlers'
    BY <2>3, <2>4, <2>5, HandlersWork
  <2> QED
    BY <1>2, <1>3, <1>4, <2>6 DEF Resting
<1>6. CASE shut_down(r)
  <2>1. Moves(r, close)
    BY <1>6, BeginMoves DEF shut_down
  <2>2. Handlers'
    BY <1>3, <1>4, <2>1, ClosingHandlers, HandlersClose
  <2> QED
    BY <1>2, <1>3, <1>4, <2>2 DEF Resting
<1> QED
  BY <1>1, <1>5, <1>6

\* The run is cancelled when the actions of the check have been recorded.
LEMMA CheckEnds ==
  ASSUME scenario \in Checks, FenceInv, ThreadsInv, NEW r \in Task, NEW c \in calls(r), Working(todo(r)),
         c = closing_call
  PROVE  Begun
<1>1. PICK d \in Acts : d.do = "execute" /\ d.node \in {Database, Stale, Sibling, Replacement}
  BY ActsAre
<1>2. rank(d) = 2
  BY <1>1 DEF rank
<1>3. rank(c) = 3 /\ \A e \in all(todo(r)) : rank(c) <= rank(e)
  BY Ranks, CallsPrepared
<1>4. d \notin all(todo(r))
  BY <1>2, <1>3
<1>5. PICK a \in attempts : a.node = d.node
  BY <1>4 DEF Working, Kept, recorded
<1>6. status[d.node] # "NONE" /\ d.node \in Node \ {Root}
  BY <1>1, <1>5, DemoAssumption DEF FenceInv, ActorsRegistered
<1> QED
  BY <1>6 DEF Begun

\* A handler of the check makes a call.
LEMMA CheckWorks ==
  ASSUME scenario \in Checks, scenario' = scenario, DemoInv, ScopesStartAtOne, CheckInv, ~Lapsed,
         NEW r \in Task, NEW c \in calls(r), Working(todo(r)), perform(r, c)
  PROVE  /\ CheckTables' /\ Handlers' /\ verdict' # "FAIL" /\ Resting'
         /\ run' \in {"RUNNING", "CANCELLED"} /\ (run' = "CANCELLED" => Begun)
<1>0. /\ FenceInv /\ ThreadsInv /\ Handlers /\ Resting /\ run \in {"RUNNING", "CANCELLED"}
      /\ run = "CANCELLED" => Begun
  BY DEF DemoInv, TablesInv, CheckInv
<1>1. Outcome(r, c)
  BY CheckPerforms
<1>2. \A q \in Task \ {r} : Closing(todo(q))
  BY <1>0, OneWorks
<1>3. run' = "CANCELLED" => Begun
  BY <1>0, <1>1, CheckEnds DEF Outcome
<1>4. ASSUME Ends(r) PROVE Handlers'
  BY <1>2, <1>4, ClosingHandlers, HandlersWork DEF Ends
<1>5. ASSUME Lasts, thread' = thread, run' = run PROVE Handlers'
  BY <1>0, <1>5, HandlersStay
<1>6. ASSUME Lasts, Goes(r, c), Made(c), c # expect_call PROVE Handlers'
  <2> DEFINE s == todo(r)
             t == left(r, c)
  <2>1. c \in all(s) /\ all(t) \subseteq all(s) /\ all(s) \ {c} \subseteq all(t)
    BY <1>0, GoesOn DEF ThreadsInv
  <2>2. Sorted(t) /\ \A d \in all(s) : rank(c) <= rank(d)
    BY <1>0, CallsPrepared
  <2>3. Moves(r, t) /\ Working(s)
    BY <1>6 DEF Goes
  <2>4. run' = "CANCELLED" => \A d \in all(t) : rank(d) >= 3
    <3>1. CASE run' = run
      BY <2>1, <2>3, <3>1 DEF Working
    <3>2. CASE c = closing_call
      <4>1. rank(c) = 3
        BY <3>2, Ranks
      <4>2. \A d \in all(t) : rank(d) \in Int /\ rank(c) <= rank(d)
        BY <2>1, <2>2, RankType
      <4> QED
        BY <4>1, <4>2
    <3> QED
      BY <1>1, <3>1, <3>2 DEF Outcome
  <2> HIDE DEF s, t
  <2>5. \A v, u : v = s /\ u = t => Working(u)'
    BY <1>6, <2>1, <2>2, <2>3, <2>4, WorkingLeft
  <2>6. \A u : u = t => Handlers'
    BY <1>2, <2>3, <2>5, HandlersWork
  <2> QED
    BY <2>6
<1>7. Handlers'
  BY <1>1, <1>4, <1>5, <1>6 DEF Outcome
<1> QED
  BY <1>0, <1>1, <1>3, <1>7 DEF Outcome, Resting

\* As long as no lease runs out a check goes on as it is meant to.
LEMMA CheckInvStep ==
  ASSUME scenario \in Checks, scenario' = scenario, DemoInv, ScopesStartAtOne, CheckInv, ~Lapsed,
         [Next]_vars, [DemoNext]_demoVars
  PROVE  CheckInv'
<1>0. /\ TypeOK /\ FenceInv /\ Agreement /\ CheckpointsHeld /\ now # 0 /\ ThreadsInv /\ ThreadShape /\ ManagerShape
      /\ CheckTables /\ Resting /\ Handlers /\ verdict # "FAIL" /\ Root \in tokens
      /\ run \in {"RUNNING", "CANCELLED"} /\ (run = "CANCELLED" => Begun)
  BY DEF DemoInv, TablesInv, FenceInv, ReplacementInv, ThreadsInv, ManagerInv, CheckInv
<1>1. Root \in tokens' /\ (Begun => Begun')
  BY <1>0, CredentialsKept, BegunStays
<1> DEFINE Goal == /\ CheckTables' /\ Handlers' /\ verdict' # "FAIL" /\ Resting'
                   /\ run' \in {"RUNNING", "CANCELLED"} /\ (run' = "CANCELLED" => Begun)
<1>2. ASSUME Requests PROVE Goal
  <2>1. PICK r \in Task : open(r) \/ transition(r) \/ finish(r) \/ shut_down(r)
    BY <1>2 DEF Requests
  <2> QED
    BY <1>0, <2>1, CheckBegins
<1>3. ASSUME NEW r \in Task, NEW c \in calls(r), perform(r, c) PROVE Goal
  <2>1. CASE Working(todo(r))
    BY <1>3, <2>1, CheckWorks
  <2>2. CASE Closing(todo(r))
    <3>1. /\ UNCHANGED <<vars, reason, verdict>> /\ Resting'
          /\ thread' = thread \/ \E t : Moves(r, t) /\ Closing(t)
      BY <1>0, <1>3, <2>2, CheckCloses
    <3>2. CheckTables' /\ Lasts /\ run' = run
      BY <1>0, <3>1, QuietCheck DEF vars, tables
    <3>3. Handlers'
      BY <1>0, <3>1, <3>2, HandlersStay, HandlersClose
    <3> QED
      BY <1>0, <3>1, <3>2, <3>3
  <2> QED
    BY <1>0, <2>1, <2>2 DEF Handlers
<1>4. ASSUME Keepalive \/ WorkerProcess \/ Elsewhere \/ UNCHANGED demoVars PROVE Goal
  <2>1. CheckTables' /\ Lasts /\ run' = run /\ UNCHANGED <<thread, verdict>> /\ Resting'
    BY <1>0, <1>4, CheckRests
  <2> QED
    BY <1>0, <2>1, HandlersStay
<1>5. Goal
  <2> HIDE DEF Goal
  <2> QED
    BY <1>2, <1>3, <1>4 DEF DemoNext, Threads, run_thread, Goal
<1> QED
  BY <1>1, <1>5 DEF CheckInv

-----------------------------------------------------------------------------
(* The lease check, and the invariant of all the demonstrations.           *)

\* Only looking at what a check expects gives a verdict.
LEMMA VerdictStays ==
  ASSUME NEW r \in Task, NEW c \in calls(r), perform(r, c), c.do # "expect"
  PROVE  verdict' = verdict
  BY DEF perform, service, execution, checkpointing, failure, expectation, looked_at, locking, entering,
     registering, unlisting, keeping_alive, stopping, joining, detaching, launching, awaiting_checkpoint,
     going, awaiting_exit, killing, closing_others, session

\* Nor does anything do so that is no call of a handler.
LEMMA VerdictRests ==
  ASSUME Requests \/ Keepalive \/ WorkerProcess \/ Elsewhere \/ UNCHANGED demoVars
  PROVE  verdict' = verdict
<1>1. CASE Requests
  BY <1>1 DEF Requests, open, transition, finish, shut_down, session
<1>2. CASE Keepalive
  BY <1>2 DEF Keepalive, beat, beaten, ended, session
<1>3. CASE WorkerProcess
  BY <1>3 DEF WorkerProcess, worker_checkpoint, worker_released, worker_action, worker_timeout, session
<1>4. CASE Elsewhere \/ UNCHANGED demoVars
  BY <1>4 DEF Elsewhere, demoVars, demo, session
<1> QED
  BY <1>1, <1>2, <1>3, <1>4

\* What the handlers of a lease check are to do.
LEMMA LeaseHandlers ==
  ASSUME scenario = "lease-expiry"
  PROVE  /\ activation(Database) \in all(opening) /\ ~makes(opening, "expect")
         /\ ~makes(finish_lease_expiry, "register")
         /\ \A t \in {close, <<>>, manager_close} : ~makes(t, "register") /\ ~makes(t, "expect")
<1>1. all(opening) = LeaseCalls
  BY LeaseScript DEF Script, opening
<1>2. all(finish_lease_expiry) = FinishCalls
  BY FinishScript DEF Script
<1>3. activation(Database) \in LeaseCalls /\ \A c \in LeaseCalls : c.do # "expect"
  BY DEF LeaseCalls, activation, call, entered
<1>4. \A c \in FinishCalls : c.do # "register"
  BY DEF FinishCalls, action, call, entered
<1>5. \A t \in {close, <<>>, manager_close} : ~makes(t, "register") /\ ~makes(t, "expect")
  BY ClosingHandlers DEF Closing, makes
<1> QED
  BY <1>1, <1>2, <1>3, <1>4, <1>5 DEF makes

\* A thread of the lease check moves, the others are left alone.
LEMMA LeaseMoves ==
  ASSUME LeaseInv, Lapsed => Lapsed', tokens \subseteq tokens',
         verdict' = "FAIL" => Lapsed', listed' => Database \in tokens',
         NEW r \in Task, NEW t, Moves(r, t),
         makes(t, "expect") => Lapsed',
         makes(t, "register") => activation(Database) \in all(t) \/ Database \in tokens'
  PROVE  LeaseInv'
<1>1. thread'[r].todo = t /\ \A q \in Task \ {r} : thread'[q].todo = thread[q].todo
  BY DEF Moves
<1>2. ASSUME NEW q \in Task
      PROVE  /\ pending(q, "expect")' => Lapsed'
             /\ pending(q, "register")' => activation(Database) \in all(todo(q))' \/ Database \in tokens'
  <2>1. CASE q = r
    BY <1>1, <2>1 DEF pending, todo, makes, all
  <2>2. CASE q # r
    <3>1. /\ pending(q, "expect") => Lapsed
          /\ pending(q, "register") => activation(Database) \in all(todo(q)) \/ Database \in tokens
      BY DEF LeaseInv
    <3>2. thread'[q].todo = thread[q].todo
      BY <1>1, <2>2
    <3> QED
      BY <3>1, <3>2 DEF pending, todo, makes, all
  <2> QED
    BY <2>1, <2>2
<1> QED
  BY <1>2 DEF LeaseInv

\* No thread of the lease check moves.
LEMMA LeaseRests ==
  ASSUME LeaseInv, Lapsed => Lapsed', tokens \subseteq tokens',
         verdict' = "FAIL" => Lapsed', listed' => Database \in tokens', thread' = thread
  PROVE  LeaseInv'
<1>1. \A q \in Task : /\ \A kind : pending(q, kind)' <=> pending(q, kind)
                      /\ all(todo(q))' = all(todo(q))
  BY DEF pending, todo, makes, all
<1>2. \A q \in Task : /\ pending(q, "expect") => Lapsed
                      /\ pending(q, "register") => activation(Database) \in all(todo(q)) \/ Database \in tokens
  BY DEF LeaseInv
<1>3. ASSUME NEW q \in Task
      PROVE  /\ pending(q, "expect")' => Lapsed'
             /\ pending(q, "register")' => activation(Database) \in all(todo(q))' \/ Database \in tokens'
  BY <1>1, <1>2
<1> QED
  BY <1>3 DEF LeaseInv

\* A handler of the lease check begins.
LEMMA LeaseBegins ==
  ASSUME scenario = "lease-expiry", TypeOK, ThreadShape, LeaseInv, Lapsed => Lapsed', tokens \subseteq tokens',
         NEW r \in Task, open(r) \/ transition(r) \/ finish(r) \/ shut_down(r)
  PROVE  LeaseInv'
<1>1. verdict' = verdict
  BY VerdictRests DEF Requests
<1>2. verdict' = "FAIL" => Lapsed'
  BY <1>1 DEF LeaseInv
<1>3. listed' = listed
  BY DEF open, transition, finish, shut_down, session
<1>4. listed' => Database \in tokens'
  BY <1>3 DEF LeaseInv
<1>5. CASE open(r)
  <2>1. Moves(r, opening)
    BY <1>5, BeginMoves DEF open
  <2>2. ~makes(opening, "expect") /\ activation(Database) \in all(opening)
    BY LeaseHandlers
  <2> QED
    BY <1>2, <1>4, <2>1, <2>2, LeaseMoves
<1>6. CASE finish(r)
  <2>1. Moves(r, finish_lease_expiry)
    BY <1>6, BeginMoves DEF finish
  <2>2. Lapsed
    <3>1. Database \in tokens /\ lease[Database] < now
      BY <1>6 DEF finish, LeaseInv
    <3>2. lease[Database] \in Nat /\ now \in Nat
      BY DemoAssumption DEF TypeOK
    <3> QED
      BY <3>1, <3>2 DEF Lapsed
  <2>3. ~makes(finish_lease_expiry, "register")
    BY LeaseHandlers
  <2> QED
    BY <1>2, <1>4, <2>1, <2>2, <2>3, LeaseMoves
<1>7. CASE shut_down(r)
  <2>1. Moves(r, close)
    BY <1>7, BeginMoves DEF shut_down
  <2>2. ~makes(close, "register") /\ ~makes(close, "expect")
    BY LeaseHandlers
  <2> QED
    BY <1>2, <1>4, <2>1, <2>2, LeaseMoves
<1> QED
  BY <1>5, <1>6, <1>7 DEF transition

\* A handler of the lease check makes a call.
LEMMA LeasePerforms ==
  ASSUME scenario = "lease-expiry", TypeOK, now # 0, ThreadsInv, ManagerShape, LeaseInv,
         Lapsed => Lapsed', tokens \subseteq tokens',
         NEW r \in Task, NEW c \in calls(r), perform(r, c)
  PROVE  LeaseInv'
<1>0. ThreadShape /\ Script(todo(r), all(todo(r)))
  BY DEF ThreadsInv
<1>1. /\ c \in all(todo(r)) /\ all(left(r, c)) \subseteq all(todo(r))
      /\ all(todo(r)) \ {c} \subseteq all(left(r, c))
      /\ \A d \in all(left(r, c)) : MayFollow(c.do, d.do)
  BY <1>0, GoesOn
<1>2. /\ pending(r, "expect") => Lapsed
      /\ pending(r, "register") => activation(Database) \in all(todo(r)) \/ Database \in tokens
  BY DEF LeaseInv
<1>3. verdict' = "FAIL" => Lapsed'
  <2>1. CASE c.do = "expect"
    BY <1>1, <1>2, <2>1 DEF pending, makes
  <2>2. CASE c.do # "expect"
    BY <2>2, VerdictStays DEF LeaseInv
  <2> QED
    BY <2>1, <2>2
<1>4. listed' => Database \in tokens'
  <2>1. CASE c.do = "register"
    <3>1. activation(Database).do = "activate"
      BY DEF activation, call
    <3>2. activation(Database) \notin all(left(r, c))
      BY <1>1, <2>1 DEF MayFollow
    <3>3. activation(Database) \notin all(todo(r))
      BY <1>1, <2>1, <3>1, <3>2
    <3>4. pending(r, "register")
      BY <1>1, <2>1 DEF pending, makes
    <3> QED
      BY <1>2, <3>3, <3>4
  <2>2. CASE c.do # "register"
    <3>1. listed' => listed
      <4>1. CASE c.do \notin ManagerKinds
        BY <1>0, <4>1, OtherCalls
      <4>2. CASE c.do \in ManagerKinds
        BY <1>0, <2>2, <4>2, ManagerCalls DEF ManagerKinds
      <4> QED
        BY <4>1, <4>2
    <3> QED
      BY <3>1 DEF LeaseInv
  <2> QED
    BY <2>1, <2>2
<1>5. CASE thread' = thread
  BY <1>3, <1>4, <1>5, LeaseRests
<1>6. CASE Goes(r, c)
  <2>1. makes(left(r, c), "expect") => Lapsed'
    BY <1>1, <1>2 DEF pending, makes
  <2>2. c = activation(Database) => Database \in tokens' \/ Ends(r)
    <3> SUFFICES ASSUME c = activation(Database) PROVE Database \in tokens' \/ Ends(r)
      OBVIOUS
    <3>1. c.do = "activate" /\ c.node = Database
      BY DEF activation, call
    <3>2. service(r, c) \/ failure(r, c)
      BY <3>1 DEF perform, execution, checkpointing, expectation, looked_at, locking, entering, registering,
         unlisting, keeping_alive, stopping, joining, detaching, launching, awaiting_checkpoint, going,
         awaiting_exit, killing, closing_others
    <3>3. CASE service(r, c)
      <4>1. activate(Database, now)
        BY <3>1, <3>3 DEF service
      <4>2. Database \in Node /\ token' = [token EXCEPT ![Database] = now]
        BY <4>1, DemoAssumption DEF activate
      <4> QED
        BY <4>2 DEF tokens, TypeOK
    <3>4. CASE failure(r, c)
      BY <1>0, <3>1, <3>4, CallMoves DEF failure, Raises
    <3> QED
      BY <3>2, <3>3, <3>4
  <2>3. makes(left(r, c), "register") =>
          activation(Database) \in all(left(r, c)) \/ Database \in tokens' \/ Ends(r)
    <3>1. makes(left(r, c), "register") => pending(r, "register")
      BY <1>1 DEF pending, makes
    <3> QED
      BY <1>1, <1>2, <2>2, <3>1
  <2>4. CASE Ends(r)
    <3>1. ~makes(<<>>, "register") /\ ~makes(<<>>, "expect")
      BY LeaseHandlers
    <3> QED
      BY <1>3, <1>4, <2>4, <3>1, LeaseMoves DEF Ends
  <2>5. CASE ~Ends(r)
    BY <1>3, <1>4, <1>6, <2>1, <2>3, <2>5, LeaseMoves DEF Goes
  <2> QED
    BY <2>4, <2>5
<1>7. CASE Ends(r) \/ Moves(r, manager_close)
  <2>1. \A t \in {<<>>, manager_close} : ~makes(t, "register") /\ ~makes(t, "expect")
    BY LeaseHandlers
  <2>2. \E t \in {<<>>, manager_close} : Moves(r, t)
    BY <1>7 DEF Ends
  <2> QED
    BY <1>3, <1>4, <2>1, <2>2, LeaseMoves
<1> QED
  BY <1>0, <1>5, <1>6, <1>7, PerformMoves

\* A handler that finishes the lease check has seen that the lease ran out, whatever else runs.
LEMMA LeaseInvStep ==
  ASSUME scenario = "lease-expiry", DemoInv, LeaseInv, Lapsed => Lapsed', [Next]_vars, [DemoNext]_demoVars
  PROVE  LeaseInv'
<1>0. TypeOK /\ now # 0 /\ ThreadsInv /\ ThreadShape /\ ManagerShape
  BY DEF DemoInv, TablesInv, FenceInv, ReplacementInv, ThreadsInv, ManagerInv
<1>1. tokens \subseteq tokens'
  BY <1>0, CredentialsKept
<1>2. CASE Requests
  BY <1>0, <1>1, <1>2, LeaseBegins DEF Requests
<1>3. ASSUME NEW r \in Task, NEW c \in calls(r), perform(r, c) PROVE LeaseInv'
  BY <1>0, <1>1, <1>3, LeasePerforms
<1>4. CASE Keepalive \/ WorkerProcess \/ Elsewhere \/ UNCHANGED demoVars
  <2>1. UNCHANGED <<thread, listed>>
    BY <1>0, <1>4, OutsideMoves
  <2>2. verdict' = verdict
    BY <1>4, VerdictRests
  <2>3. (verdict' = "FAIL" => Lapsed') /\ (listed' => Database \in tokens')
    BY <1>1, <2>1, <2>2 DEF LeaseInv
  <2> QED
    BY <1>1, <2>1, <2>3, LeaseRests
<1> QED
  BY <1>2, <1>3, <1>4 DEF DemoNext, Threads, run_thread

\* The stale-supersession demonstration gives no verdict.
LEMMA NoVerdictStep ==
  ASSUME scenario = "stale-supersession", DemoInv, [DemoNext]_demoVars
  PROVE  verdict' = verdict
<1>1. ASSUME NEW r \in Task, NEW c \in calls(r), perform(r, c) PROVE verdict' = verdict
  <2>1. c \in all(todo(r)) /\ \A d \in all(todo(r)) : Proper(d)
    BY GoesOn DEF DemoInv, ThreadsInv
  <2>2. c.do # "expect"
    BY <2>1 DEF Proper, Superseding
  <2> QED
    BY <1>1, <2>2, VerdictStays
<1>2. CASE Requests \/ Keepalive \/ WorkerProcess \/ Elsewhere \/ UNCHANGED demoVars
  BY <1>2, VerdictRests
<1> QED
  BY <1>1, <1>2 DEF DemoNext, Threads, run_thread

\* Every step keeps the invariant of the demonstrations.
LEMMA ChecksInvStep ==
  ASSUME DemoInv, ScopesStartAtOne, ChecksInv, [DemoNext]_demoVars
  PROVE  ScopesStartAtOne' /\ ChecksInv'
<1>1. DemoInv' /\ [Next]_vars /\ scenario' = scenario /\ scenario \in Scenario
  BY DemoInvStep DEF DemoInv
<1>2. TypeOK /\ now # 0 /\ FenceInv
  BY DEF DemoInv, TablesInv, FenceInv, ReplacementInv
<1>3. ScopesStartAtOne'
  BY <1>1, <1>2, ScopesStep
<1>4. Lapsed => Lapsed'
  BY <1>1, <1>2, LapsedStays
<1>5. CASE scenario = "stale-supersession"
  BY <1>1, <1>3, <1>5, NoVerdictStep DEF ChecksInv, Checks
<1>6. CASE scenario = "lease-expiry"
  BY <1>1, <1>3, <1>4, <1>6, LeaseInvStep DEF ChecksInv, Checks
<1>7. CASE scenario \in Checks
  <2>1. (Lapsed \/ CheckInv)'
    <3>1. CASE Lapsed
      BY <1>4, <3>1
    <3>2. CASE ~Lapsed
      BY <1>1, <1>7, <3>2, CheckInvStep DEF ChecksInv
    <3> QED
      BY <3>1, <3>2
  <2> QED
    BY <1>1, <1>3, <1>7, <2>1 DEF ChecksInv, Checks
<1> QED
  BY <1>1, <1>5, <1>6, <1>7 DEF Scenario, Checks

\* It holds before a demonstration begins.
LEMMA ChecksInvInit == DemoInit => ScopesStartAtOne /\ ChecksInv
<1> SUFFICES ASSUME DemoInit PROVE ScopesStartAtOne /\ ChecksInv
  OBVIOUS
<1>1. Init /\ JustifiedInv /\ \A r \in Task : todo(r) = <<>>
  BY JustifiedInit, DemoInvInit DEF DemoInit
<1>2. ScopesStartAtOne
  BY <1>1 DEF JustifiedInv
<1>3. \A r \in Task : Closing(todo(r)) /\ \A kind : ~pending(r, kind)
  BY <1>1, ClosingHandlers, NothingLeft DEF pending, makes
<1>4. LeaseInv
  BY <1>3 DEF DemoInit, LeaseInv
<1>s. /\ run = "RUNNING" /\ commands = <<>> /\ attempts = {} /\ Len(commands) = 0
      /\ \A n \in Node : status[n] = IF n = Root THEN "ACTIVE" ELSE "NONE"
      /\ token[Root] = 1
      /\ \A s \in {RunScope, Root} : scope[s].status = "ACTIVE"
      /\ snapshot_scopes(Root) = {RunScope, Root}
  <2>1. \A s \in {RunScope, Root} : scope[s].status = "ACTIVE"
    BY <1>1, RegistryAssumption DEF Init, create_run, Scope
  <2>2. snapshot_scopes(Root) = {RunScope, Root}
    <3>1. reg[Root].snapshot = {[scope |-> RunScope, version |-> 1], [scope |-> Root, version |-> 1]}
      BY <1>1, RegistryAssumption DEF Init, create_run, Unregistered
    <3> QED
      BY <3>1 DEF snapshot_scopes
  <2> QED
    BY <1>1, <2>1, <2>2, RegistryAssumption DEF Init, create_run
<1>5. registered = {Root} /\ Root \in tokens
  BY <1>s, RegistryAssumption DEF registered, tokens
<1>d. {Database, Stale, Sibling, Replacement} \cap registered = {}
  BY <1>5, DemoAssumption
<1>6. Fences
  BY <1>s, <1>5, <1>d DEF Fences
<1>7. Lineage
  BY <1>s, <1>5, <1>d DEF Lineage
<1>8. scenario \in Checks => Grants
  BY <1>d, ActsAre DEF Grants
<1>9. Ledger
  BY <1>s, DemoAssumption DEF DemoInit, Ledger
<1>10. scenario \in Checks => CheckInv
  BY <1>s, <1>3, <1>5, <1>6, <1>7, <1>8, <1>9 DEF CheckInv, CheckTables, Resting, Handlers, DemoInit
<1> QED
  BY <1>2, <1>4, <1>10 DEF ChecksInv, DemoInit

\* A check that failed has a node whose lease ran out.
LEMMA ChecksInvFails ==
  ASSUME DemoInv, ChecksInv
  PROVE  ChecksFailClosed
<1> SUFFICES ASSUME verdict = "FAIL" PROVE \E n \in registered : lease[n] <= now
  BY DEF ChecksFailClosed
<1>1. scenario \in Scenario /\ TypeOK /\ FreshIsBlank
  BY DEF DemoInv, TablesInv, FenceInv
<1>2. Lapsed
  BY <1>1 DEF ChecksInv, CheckInv, LeaseInv, Scenario, Checks
<1>3. tokens \subseteq registered
  BY <1>1 DEF FreshIsBlank, tokens, registered
<1> QED
  BY <1>2, <1>3 DEF Lapsed

\* A check that ran to its end and failed shows a lease that ran out, whatever requests, calls
\* that fail, renewals, scans and a shutdown it was interleaved with: nothing else makes the
\* gateway commit or deny anything but what the check expects of it.
THEOREM ChecksFailClosedHolds == DemoSpec => []ChecksFailClosed
<1>1. /\ DemoInit => DemoInv /\ ScopesStartAtOne /\ ChecksInv
      /\ DemoInv /\ ScopesStartAtOne /\ ChecksInv /\ [DemoNext]_demoVars
           => (DemoInv /\ ScopesStartAtOne /\ ChecksInv)'
  BY DemoInvInit, DemoInvStep, ChecksInvInit, ChecksInvStep
<1> QED
  BY <1>1, ChecksInvFails, PTL DEF DemoSpec
=============================================================================
