----------------------------- MODULE DemoProofs -----------------------------
(***************************************************************************)
(* Theorems about the demo controller: whatever its handlers, its          *)
(* keepalive thread and its worker process interleave, the control plane   *)
(* they drive is that of TraceFence, the keepalive thread of a forgotten   *)
(* session is asked to stop, and the phase shown to a browser is true.     *)
(***************************************************************************)
EXTENDS DemoController, LifecycleProofs

-----------------------------------------------------------------------------
(* What is left of a handler, as the calls that are still to be made and   *)
(* the order they are made in.                                             *)

\* The calls of a sequence of stages.
all(s) == UNION {s[i] : i \in 1 .. Len(s)}

\* Calls that promise no phase any more once a phase is entered.
Establishing == {"lock", "command", "denied", "committed", "complete"}

\* Calls of whoever has taken the entry out of its table.
ClosingKinds == {"earlier", "kill", "stop", "join"}

\* In no handler is a call of the kind l made after one of the kind k, unless this holds.
MayFollow(k, l) ==
  /\ k # "register"
  /\ k = "keep_alive" => l \in {"launch", "await_waiting", "phase", "register"}
  /\ k = "unlist" => l \in ClosingKinds
  /\ k = "stop" => l # "unlist"
  /\ k = "join" => l # "stop"
  /\ k = "detach" => l # "join"
  /\ k = "go" => l # "lock"
  /\ k = "phase" /\ scenario = "stale-supersession" => l \notin Establishing

Orderly(s) ==
  \A i, j \in 1 .. Len(s) : i <= j =>
    \A c \in s[i], d \in s[j] : (i = j /\ c = d) \/ MayFollow(c.do, d.do)

\* s makes the calls of A, in such an order.
Script(s, A) == s \in Seq(SUBSET A) /\ all(s) = A /\ Orderly(s)

\* Calls that are made in any order, none of which keeps another from following it.
LEMMA OneStage ==
  ASSUME NEW A, \A c, d \in A : c = d \/ MayFollow(c.do, d.do)
  PROVE  Script(<<A>>, A)
<1>1. <<A>> \in Seq(SUBSET A) /\ Len(<<A>>) = 1 /\ <<A>>[1] = A
  OBVIOUS
<1>2. 1 .. Len(<<A>>) = {1}
  BY <1>1
<1> DEFINE s == <<A>>
<1>3. s \in Seq(SUBSET A) /\ 1 .. Len(s) = {1} /\ s[1] = A
  BY <1>1, <1>2
<1> HIDE DEF s
<1>4. all(s) = A
  BY <1>3 DEF all
<1>5. Orderly(s)
  BY <1>3 DEF Orderly
<1> QED
  BY <1>3, <1>4, <1>5 DEF Script, s

\* Handlers are put together from the scripts of their parts.
LEMMA Sequel ==
  ASSUME NEW s, NEW A, NEW t, NEW B, Script(s, A), Script(t, B),
         \A c \in A, d \in B : MayFollow(c.do, d.do)
  PROVE  Script(s \o t, A \cup B)
<1> DEFINE S == SUBSET (A \cup B)
<1> DEFINE u == s \o t
<1>1. s \in Seq(S) /\ t \in Seq(S)
  BY SeqMonotonic DEF Script
<1>2. /\ Len(s) \in Nat /\ Len(t) \in Nat
      /\ \A i \in 1 .. Len(s) : s[i] \subseteq A
      /\ \A i \in 1 .. Len(t) : t[i] \subseteq B
  BY LenProperties, ElementOfSeq DEF Script
<1>3. /\ u \in Seq(S)
      /\ Len(u) = Len(s) + Len(t)
      /\ \A i \in 1 .. Len(s) + Len(t) : u[i] = IF i <= Len(s) THEN s[i] ELSE t[i - Len(s)]
  BY <1>1, ConcatProperties
<1> HIDE DEF u
<1>4. \A i \in 1 .. Len(s) : i \in 1 .. Len(u) /\ u[i] = s[i]
  BY <1>2, <1>3
<1>5. \A i \in 1 .. Len(t) : Len(s) + i \in 1 .. Len(u) /\ u[Len(s) + i] = t[i]
  <2> SUFFICES ASSUME NEW i \in 1 .. Len(t)
               PROVE  Len(s) + i \in 1 .. Len(u) /\ u[Len(s) + i] = t[i]
    OBVIOUS
  <2> DEFINE k == Len(s) + i
  <2>1. k \in 1 .. Len(s) + Len(t) /\ ~(k <= Len(s)) /\ k - Len(s) = i
    BY <1>2
  <2> HIDE DEF k
  <2>2. u[k] = t[i]
    BY <1>3, <2>1
  <2> QED
    BY <1>3, <2>1, <2>2 DEF k
<1>6. ASSUME NEW i \in 1 .. Len(u)
      PROVE  \/ i \in 1 .. Len(s) /\ u[i] = s[i]
             \/ i - Len(s) \in 1 .. Len(t) /\ u[i] = t[i - Len(s)]
  <2>1. i \in 1 .. Len(s) + Len(t)
    BY <1>3
  <2>2. CASE i <= Len(s)
    BY <1>2, <1>3, <2>1, <2>2
  <2>3. CASE ~(i <= Len(s))
    <3>1. i - Len(s) \in 1 .. Len(t)
      BY <1>2, <2>1, <2>3
    <3>2. u[i] = t[i - Len(s)]
      BY <1>3, <2>1, <2>3
    <3> QED
      BY <3>1, <3>2
  <2> QED
    BY <2>2, <2>3
<1>7. all(u) = A \cup B
  <2>1. ASSUME NEW c \in all(u) PROVE c \in A \cup B
    BY <1>2, <1>6, <2>1 DEF all
  <2>2. ASSUME NEW c \in A PROVE c \in all(u)
    <3>1. PICK i \in 1 .. Len(s) : c \in s[i]
      BY DEF Script, all
    <3> QED
      BY <1>4, <3>1 DEF all
  <2>3. ASSUME NEW c \in B PROVE c \in all(u)
    <3>1. PICK i \in 1 .. Len(t) : c \in t[i]
      BY DEF Script, all
    <3> QED
      BY <1>5, <3>1 DEF all
  <2> QED
    BY <2>1, <2>2, <2>3
<1>8. Orderly(u)
  <2> SUFFICES ASSUME NEW i \in 1 .. Len(u), NEW j \in 1 .. Len(u), i <= j,
                      NEW c \in u[i], NEW d \in u[j], ~(i = j /\ c = d)
               PROVE  MayFollow(c.do, d.do)
    BY DEF Orderly
  <2>1. CASE i \in 1 .. Len(s) /\ j \in 1 .. Len(s)
    BY <1>4, <2>1 DEF Script, Orderly
  <2>2. CASE i \in 1 .. Len(s) /\ j \notin 1 .. Len(s)
    BY <1>2, <1>6, <2>2
  <2>3. CASE i \notin 1 .. Len(s)
    <3>1. j \notin 1 .. Len(s)
      BY <1>2, <2>3
    <3>2. /\ i - Len(s) \in 1 .. Len(t) /\ u[i] = t[i - Len(s)]
          /\ j - Len(s) \in 1 .. Len(t) /\ u[j] = t[j - Len(s)]
      BY <1>6, <2>3, <3>1
    <3>3. i - Len(s) <= j - Len(s) /\ (i - Len(s) = j - Len(s) => i = j)
      BY <1>2
    <3> QED
      BY <3>2, <3>3 DEF Script, Orderly
  <2> QED
    BY <2>1, <2>2, <2>3
<1> QED
  BY <1>3, <1>7, <1>8 DEF Script, u

\* A thread that made the call c makes the others of the stage and then the later stages:
\* calls that were left, and that may follow c.
LEMMA Remaining ==
  ASSUME NEW s, s # <<>>, Script(s, all(s)), NEW c \in Head(s), NEW t,
         t = IF Head(s) = {c} THEN Tail(s) ELSE <<Head(s) \ {c}>> \o Tail(s)
  PROVE  /\ Script(t, all(t))
         /\ all(t) \subseteq all(s)
         /\ all(s) \ {c} \subseteq all(t)
         /\ \A d \in all(t) : MayFollow(c.do, d.do)
         /\ c \in all(s)
<1> DEFINE h == Head(s)
<1> DEFINE rest == Tail(s)
<1>1. /\ Len(s) \in Nat /\ Len(s) > 0 /\ s \in [1 .. Len(s) -> SUBSET all(s)]
      /\ s \in Seq(SUBSET all(s)) /\ Orderly(s)
  BY LenProperties, EmptySeq DEF Script
<1>2. /\ h = s[1]
      /\ rest \in Seq(SUBSET all(s)) /\ Len(rest) = Len(s) - 1
      /\ \A i \in 1 .. Len(rest) : rest[i] = s[i + 1]
  BY <1>1, HeadTailProperties
<1> HIDE DEF h, rest
<1>3. \A i \in 1 .. Len(rest) : i + 1 \in 1 .. Len(s) /\ rest[i] = s[i + 1] /\ rest[i] \subseteq all(rest)
  BY <1>1, <1>2 DEF all
<1>4. 1 \in 1 .. Len(s) /\ h \subseteq all(s) /\ c \in h
  BY <1>1, <1>2 DEF h
<1>5. all(rest) \subseteq all(s)
  BY <1>3, <1>1 DEF all
<1>6. all(s) \subseteq h \cup all(rest)
  <2> SUFFICES ASSUME NEW d \in all(s), d \notin h PROVE d \in all(rest)
    OBVIOUS
  <2>1. PICK i \in 1 .. Len(s) : d \in s[i]
    BY DEF all
  <2>2. i # 1 /\ i - 1 \in 1 .. Len(rest) /\ rest[i - 1] = s[i]
    BY <1>1, <1>2, <2>1
  <2> QED
    BY <1>3, <2>1, <2>2
<1>7. Orderly(rest)
  <2> SUFFICES ASSUME NEW i \in 1 .. Len(rest), NEW j \in 1 .. Len(rest), i <= j,
                      NEW e \in rest[i], NEW d \in rest[j], ~(i = j /\ e = d)
               PROVE  MayFollow(e.do, d.do)
    BY DEF Orderly
  <2>1. i + 1 <= j + 1 /\ (i + 1 = j + 1 => i = j)
    OBVIOUS
  <2> QED
    BY <1>1, <1>3, <2>1 DEF Orderly
<1>8. rest \in Seq(SUBSET all(rest))
  <2>1. rest \in [1 .. Len(rest) -> SUBSET all(rest)] /\ Len(rest) \in Nat
    BY <1>2, <1>3, LenProperties
  <2> QED
    BY <2>1, FunctionIsSeq
<1>9. \A e \in h, d \in all(rest) : MayFollow(e.do, d.do)
  <2> SUFFICES ASSUME NEW e \in h, NEW d \in all(rest) PROVE MayFollow(e.do, d.do)
    OBVIOUS
  <2>1. PICK i \in 1 .. Len(rest) : d \in rest[i]
    BY DEF all
  <2>2. i + 1 # 1 /\ 1 <= i + 1 /\ i + 1 \in 1 .. Len(s) /\ d \in s[i + 1]
    BY <1>3, <2>1
  <2> QED
    BY <1>1, <1>2, <1>4, <2>2 DEF Orderly
<1>10. \A e, d \in h : e = d \/ MayFollow(e.do, d.do)
  BY <1>1, <1>2, <1>4 DEF Orderly
<1>11. Script(rest, all(rest))
  BY <1>7, <1>8 DEF Script
<1>12. CASE h = {c}
  <2>1. t = rest
    BY <1>12 DEF h, rest
  <2> QED
    BY <1>4, <1>5, <1>6, <1>9, <1>11, <1>12, <2>1
<1>13. CASE h # {c}
  <2> DEFINE H == h \ {c}
  <2>1. t = <<H>> \o rest
    BY <1>13 DEF h, rest
  <2>2. Script(<<H>>, H)
    BY <1>10, OneStage
  <2> HIDE DEF H
  <2>3. \A e \in H, d \in all(rest) : MayFollow(e.do, d.do)
    BY <1>9 DEF H
  <2> DEFINE first == <<H>>
             R == all(rest)
  <2>a. Script(first, H) /\ Script(rest, R) /\ \A e \in H, d \in R : MayFollow(e.do, d.do)
    BY <1>11, <2>2, <2>3
  <2>b. t = first \o rest
    BY <2>1
  <2> HIDE DEF first, R
  <2>c. Script(first \o rest, H \cup R)
    BY <2>a, Sequel
  <2>4. Script(t, H \cup all(rest))
    BY <2>b, <2>c DEF R
  <2>5. all(t) = H \cup all(rest)
    BY <2>4 DEF Script
  <2>6. \A d \in H : MayFollow(c.do, d.do)
    BY <1>4, <1>10 DEF H
  <2> QED
    BY <1>4, <1>5, <1>6, <1>9, <2>4, <2>5, <2>6 DEF H
<1> QED
  BY <1>12, <1>13
-----------------------------------------------------------------------------
(* The scripts of the handlers.                                            *)

\* A handler may be a single call.
LEMMA StepScript ==
  ASSUME NEW what, NEW n, NEW arg
  PROVE  Script(step(what, n, arg), {call(what, n, arg)})
  BY OneStage DEF step

\* One more call.
LEMMA ThenStep ==
  ASSUME NEW s, NEW A, Script(s, A), NEW what, NEW n, NEW arg,
         \A c \in A : MayFollow(c.do, what)
  PROVE  Script(s \o step(what, n, arg), A \cup {call(what, n, arg)})
<1>1. \A d \in {call(what, n, arg)} : d.do = what
  BY DEF call
<1> QED
  BY <1>1, StepScript, Sequel

\* Kinds of calls that any call may follow.
FreeKinds ==
  {"spawn", "activate", "checkpoint", "command", "execute", "replace", "complete", "scan",
   "conflict", "prove", "expect", "lock", "denied", "committed", "launch", "await_waiting",
   "await_exit", "kill"}

\* They are so called because every call may follow them.
LEMMA AnyFollows == \A k \in FreeKinds : \A l : MayFollow(k, l)
  BY DEF FreeKinds, MayFollow

FreeScript(s, A) == Script(s, A) /\ \A c \in A : c.do \in FreeKinds

\* Calls of such kinds are put together in any order.
LEMMA FreeStep ==
  ASSUME NEW what \in FreeKinds, NEW n, NEW arg
  PROVE  FreeScript(step(what, n, arg), {call(what, n, arg)})
  BY StepScript DEF FreeScript, call

\* Two such scripts, one after the other.
LEMMA FreeSequel ==
  ASSUME NEW s, NEW A, FreeScript(s, A), NEW t, NEW B, FreeScript(t, B)
  PROVE  FreeScript(s \o t, A \cup B)
<1>1. \A c \in A, d \in B : MayFollow(c.do, d.do)
  BY AnyFollows DEF FreeScript
<1> QED
  BY <1>1, Sequel DEF FreeScript

\* One more call of such a kind.
LEMMA ThenFree ==
  ASSUME NEW s, NEW A, FreeScript(s, A), NEW what \in FreeKinds, NEW n, NEW arg
  PROVE  FreeScript(s \o step(what, n, arg), A \cup {call(what, n, arg)})
  BY FreeStep, FreeSequel

\* Calls of these kinds after which comes a call of another kind.
LEMMA FreeThen ==
  ASSUME NEW s, NEW A, FreeScript(s, A), NEW what, NEW n, NEW arg
  PROVE  Script(s \o step(what, n, arg), A \cup {call(what, n, arg)})
  BY ThenStep, AnyFollows DEF FreeScript

\* A stop is never asked for after the join.
LEMMA ClosingScript ==
  Script(manager_close, {call("stop", NoNode, NoTool), call("join", NoNode, NoTool)})
<1>1. Script(plain("stop"), {call("stop", NoNode, NoTool)})
  BY StepScript DEF plain
<1>2. \A c \in {call("stop", NoNode, NoTool)} : MayFollow(c.do, "join")
  BY DEF call, MayFollow
<1>3. Script(plain("stop") \o plain("join"),
             {call("stop", NoNode, NoTool)} \cup {call("join", NoNode, NoTool)})
  BY <1>1, <1>2, ThenStep DEF plain
<1>4. {call("stop", NoNode, NoTool)} \cup {call("join", NoNode, NoTool)} =
      {call("stop", NoNode, NoTool), call("join", NoNode, NoTool)}
  OBVIOUS
<1> QED
  BY <1>3, <1>4 DEF manager_close

-----------------------------------------------------------------------------
(* The handlers of the stale-supersession demonstration: their calls, and  *)
(* what has been done when each enters its phase.                          *)
correction == call("command", Database, <<correction_key, "CORRECT_SUBTREE">>)
recovery == action(Replacement, recovery_key, reset_redis_pool)
locked(p) == call("lock", NoNode, p)
entered(p) == call("phase", NoNode, p)
going_call == call("go", NoNode, NoTool)
denied_call == call("denied", Stale, stale_key)
committed_call == call("committed", Replacement, recovery_key)
complete_call == call("complete", Replacement, NoTool)

StartCalls ==
  {call("spawn", Database, {read_metrics, restart_postgres}), call("activate", Database, NoTool),
   call("spawn", Stale, {restart_postgres}), call("activate", Stale, NoTool),
   call("spawn", Sibling, {read_metrics}), call("activate", Sibling, NoTool),
   call("keep_alive", NoNode, {Root, Database, Stale, Sibling}),
   call("launch", NoNode, NoTool), call("await_waiting", NoNode, NoTool),
   entered("WAITING_STALE_WORKER"), call("register", NoNode, NoTool)}

SupersedeCalls ==
  {locked("WAITING_STALE_WORKER"),
   call("stop", NoNode, NoTool), call("join", NoNode, NoTool), call("detach", NoNode, NoTool),
   correction, call("checkpoint", Database, "refused"), entered("SUPERSEDED")}

ReleaseCalls ==
  {locked("SUPERSEDED"), going_call, call("await_exit", NoNode, NoTool), denied_call,
   entered("STALE_DENIED")}

ReplacementCalls ==
  {locked("STALE_DENIED"), call("replace", Replacement, NoTool),
   call("activate", Replacement, NoTool), recovery, committed_call, complete_call,
   entered("RECOVERY_COMMITTED")}

ProofCalls ==
  {locked("RECOVERY_COMMITTED"), call("prove", NoNode, NoTool), entered("PROOF_AVAILABLE"),
   call("stop", NoNode, NoTool), call("join", NoNode, NoTool), call("detach", NoNode, NoTool)}

ResetCalls ==
  {call("unlist", NoNode, NoTool), call("kill", NoNode, NoTool), call("stop", NoNode, NoTool),
   call("join", NoNode, NoTool)}

CloseCalls == ResetCalls \cup {call("earlier", NoNode, NoTool)}

\* start() makes the calls listed, in an order that is allowed.
LEMMA StartScript == Script(start, StartCalls)
<1> DEFINE s1 == _spawn_check_node(Database, {read_metrics, restart_postgres})
                 \o _spawn_check_node(Stale, {restart_postgres})
                 \o _spawn_check_node(Sibling, {read_metrics})
           A1 == {call("spawn", Database, {read_metrics, restart_postgres})}
                 \cup {call("activate", Database, NoTool)}
                 \cup ({call("spawn", Stale, {restart_postgres})} \cup {call("activate", Stale, NoTool)})
                 \cup ({call("spawn", Sibling, {read_metrics})} \cup {call("activate", Sibling, NoTool)})
           s2 == s1 \o step("keep_alive", NoNode, {Root, Database, Stale, Sibling})
           A2 == A1 \cup {call("keep_alive", NoNode, {Root, Database, Stale, Sibling})}
           s3 == s2 \o plain("launch")
           A3 == A2 \cup {call("launch", NoNode, NoTool)}
           s4 == s3 \o plain("await_waiting")
           A4 == A3 \cup {call("await_waiting", NoNode, NoTool)}
           s5 == s4 \o enter("WAITING_STALE_WORKER")
           A5 == A4 \cup {entered("WAITING_STALE_WORKER")}
           s6 == s5 \o plain("register")
           A6 == A5 \cup {call("register", NoNode, NoTool)}
<1>1. FreeScript(s1, A1)
  <2>1. "spawn" \in FreeKinds /\ "activate" \in FreeKinds
    BY DEF FreeKinds
  <2> QED
    BY <2>1, FreeStep, ThenFree, FreeSequel DEF _spawn_check_node
<1>2. Script(s2, A2)
  <2> HIDE DEF s1, A1
  <2> QED
    BY <1>1, FreeThen
<1>f. \A c \in A1 : c.do \in FreeKinds
  BY <1>1 DEF FreeScript
<1>3. Script(s3, A3)
  <2> HIDE DEF A1
  <2>1. \A c \in A2 : MayFollow(c.do, "launch")
    BY <1>f, AnyFollows DEF call, MayFollow
  <2> HIDE DEF s2, A2
  <2> QED
    BY <1>2, <2>1, ThenStep DEF plain
<1>4. Script(s4, A4)
  <2> HIDE DEF A1
  <2>1. \A c \in A3 : MayFollow(c.do, "await_waiting")
    BY <1>f, AnyFollows DEF call, MayFollow
  <2> HIDE DEF s3, A3
  <2> QED
    BY <1>3, <2>1, ThenStep DEF plain
<1>5. Script(s5, A5)
  <2> HIDE DEF A1
  <2>1. \A c \in A4 : MayFollow(c.do, "phase")
    BY <1>f, AnyFollows DEF call, MayFollow
  <2> HIDE DEF s4, A4
  <2> QED
    BY <1>4, <2>1, ThenStep DEF enter, entered
<1>6. Script(s6, A6)
  <2> HIDE DEF A1
  <2>1. \A c \in A5 : MayFollow(c.do, "register")
    BY <1>f, AnyFollows DEF call, MayFollow, entered, Establishing
  <2> HIDE DEF s5, A5
  <2> QED
    BY <1>5, <2>1, ThenStep DEF plain
<1>7. A6 = StartCalls
  BY Zenon DEF StartCalls
<1>8. s6 = start
  BY DEF start
<1> HIDE DEF s6, A6
<1> QED
  BY <1>6, <1>7, <1>8

\* So does supersede().
LEMMA SupersedeScript == Script(supersede, SupersedeCalls)
<1> DEFINE s1 == step("lock", NoNode, "WAITING_STALE_WORKER")
           A1 == {locked("WAITING_STALE_WORKER")}
           s2 == s1 \o manager_close
           A2 == A1 \cup {call("stop", NoNode, NoTool), call("join", NoNode, NoTool)}
           s3 == s2 \o plain("detach")
           A3 == A2 \cup {call("detach", NoNode, NoTool)}
           s4 == s3 \o command("CORRECT_SUBTREE", Database, correction_key)
           A4 == A3 \cup {correction}
           s5 == s4 \o step("checkpoint", Database, "refused")
           A5 == A4 \cup {call("checkpoint", Database, "refused")}
           s6 == s5 \o enter("SUPERSEDED")
           A6 == A5 \cup {entered("SUPERSEDED")}
<1>1. Script(s1, A1)
  BY StepScript DEF locked
<1>2. Script(s2, A2)
  <2>1. \A c \in A1, d \in {call("stop", NoNode, NoTool), call("join", NoNode, NoTool)} :
          MayFollow(c.do, d.do)
    BY DEF call, locked, MayFollow
  <2> HIDE DEF s1, A1
  <2> QED
    BY <1>1, <2>1, ClosingScript, Sequel
<1>3. Script(s3, A3)
  <2>1. \A c \in A2 : MayFollow(c.do, "detach")
    BY DEF call, locked, MayFollow
  <2> HIDE DEF s2, A2
  <2> QED
    BY <1>2, <2>1, ThenStep DEF plain
<1>4. Script(s4, A4)
  <2>1. \A c \in A3 : MayFollow(c.do, "command")
    BY DEF call, locked, MayFollow
  <2> HIDE DEF s3, A3
  <2> QED
    BY <1>3, <2>1, ThenStep DEF command, correction
<1>5. Script(s5, A5)
  <2>1. \A c \in A4 : MayFollow(c.do, "checkpoint")
    BY DEF call, locked, correction, MayFollow
  <2> HIDE DEF s4, A4
  <2> QED
    BY <1>4, <2>1, ThenStep
<1>6. Script(s6, A6)
  <2>1. \A c \in A5 : MayFollow(c.do, "phase")
    BY DEF call, locked, correction, MayFollow
  <2> HIDE DEF s5, A5
  <2> QED
    BY <1>5, <2>1, ThenStep DEF enter, entered
<1>7. A6 = SupersedeCalls
  BY Zenon DEF SupersedeCalls
<1>8. s6 = supersede
  BY DEF supersede
<1> QED
  BY <1>6, <1>7, <1>8

\* So does release_stale_worker().
LEMMA ReleaseScript == Script(release_stale_worker, ReleaseCalls)
<1> DEFINE s1 == step("lock", NoNode, "SUPERSEDED") \o plain("go")
           A1 == {locked("SUPERSEDED")} \cup {going_call}
           s2 == s1 \o plain("await_exit")
           A2 == A1 \cup {call("await_exit", NoNode, NoTool)}
           s3 == s2 \o step("denied", Stale, stale_key)
           A3 == A2 \cup {denied_call}
           s4 == s3 \o enter("STALE_DENIED")
           A4 == A3 \cup {entered("STALE_DENIED")}
<1>1. Script(s1, A1)
  <2>1. "lock" \in FreeKinds
    BY DEF FreeKinds
  <2> QED
    BY <2>1, FreeStep, FreeThen DEF plain, locked, going_call
<1>2. Script(s2, A2)
  <2>1. \A c \in A1 : MayFollow(c.do, "await_exit")
    BY DEF call, locked, going_call, MayFollow
  <2> HIDE DEF s1, A1
  <2> QED
    BY <1>1, <2>1, ThenStep DEF plain
<1>3. Script(s3, A3)
  <2>1. \A c \in A2 : MayFollow(c.do, "denied")
    BY DEF call, locked, going_call, MayFollow
  <2> HIDE DEF s2, A2
  <2> QED
    BY <1>2, <2>1, ThenStep DEF denied_call
<1>4. Script(s4, A4)
  <2>1. \A c \in A3 : MayFollow(c.do, "phase")
    BY DEF call, locked, going_call, denied_call, MayFollow
  <2> HIDE DEF s3, A3
  <2> QED
    BY <1>3, <2>1, ThenStep DEF enter, entered
<1>5. A4 = ReleaseCalls
  BY Zenon DEF ReleaseCalls
<1> QED
  BY <1>4, <1>5 DEF release_stale_worker

\* So does run_replacement().
LEMMA ReplacementScript == Script(run_replacement, ReplacementCalls)
<1> DEFINE s1 == step("lock", NoNode, "STALE_DENIED") \o replacement
                 \o execute(Replacement, recovery_key, reset_redis_pool)
                 \o step("committed", Replacement, recovery_key)
                 \o step("complete", Replacement, NoTool)
           A1 == {locked("STALE_DENIED")}
                 \cup ({call("replace", Replacement, NoTool)} \cup {call("activate", Replacement, NoTool)})
                 \cup {recovery} \cup {committed_call} \cup {complete_call}
           A2 == A1 \cup {entered("RECOVERY_COMMITTED")}
<1>1. FreeScript(s1, A1)
  <2>1. {"lock", "replace", "activate", "execute", "committed", "complete"} \subseteq FreeKinds
    BY DEF FreeKinds
  <2>2. /\ execute(Replacement, recovery_key, reset_redis_pool) =
             step("execute", Replacement, <<recovery_key, reset_redis_pool>>)
        /\ recovery = call("execute", Replacement, <<recovery_key, reset_redis_pool>>)
    BY DEF execute, action, step, recovery
  <2> QED
    BY <2>1, <2>2, FreeStep, ThenFree, FreeSequel
    DEF replacement, locked, committed_call, complete_call
<1>2. Script(s1 \o enter("RECOVERY_COMMITTED"), A2)
  <2> HIDE DEF s1, A1
  <2> QED
    BY <1>1, FreeThen DEF enter, entered
<1>3. A2 = ReplacementCalls
  BY Zenon DEF ReplacementCalls
<1> QED
  BY <1>2, <1>3 DEF run_replacement

\* So does build_proof().
LEMMA ProofScript == Script(build_proof, ProofCalls)
<1> DEFINE s1 == step("lock", NoNode, "RECOVERY_COMMITTED") \o plain("prove")
           A1 == {locked("RECOVERY_COMMITTED")} \cup {call("prove", NoNode, NoTool)}
           s2 == s1 \o enter("PROOF_AVAILABLE")
           A2 == A1 \cup {entered("PROOF_AVAILABLE")}
           s3 == s2 \o manager_close
           A3 == A2 \cup {call("stop", NoNode, NoTool), call("join", NoNode, NoTool)}
           s4 == s3 \o plain("detach")
           A4 == A3 \cup {call("detach", NoNode, NoTool)}
<1>1. FreeScript(s1, A1)
  <2>1. {"lock", "prove"} \subseteq FreeKinds
    BY DEF FreeKinds
  <2> QED
    BY <2>1, FreeStep, ThenFree DEF plain, locked
<1>2. Script(s2, A2)
  <2> HIDE DEF s1, A1
  <2> QED
    BY <1>1, FreeThen DEF enter, entered
<1>3. Script(s3, A3)
  <2>1. \A c \in A2, d \in {call("stop", NoNode, NoTool), call("join", NoNode, NoTool)} :
          MayFollow(c.do, d.do)
    BY DEF call, locked, entered, MayFollow, Establishing
  <2> HIDE DEF s2, A2
  <2> QED
    BY <1>2, <2>1, ClosingScript, Sequel
<1>4. Script(s4, A4)
  <2>1. \A c \in A3 : MayFollow(c.do, "detach")
    BY DEF call, locked, entered, MayFollow, Establishing
  <2> HIDE DEF s3, A3
  <2> QED
    BY <1>3, <2>1, ThenStep DEF plain
<1>5. A4 = ProofCalls
  BY Zenon DEF ProofCalls
<1> QED
  BY <1>4, <1>5 DEF build_proof

\* The entry is taken out of its table before anything of it is ended.
LEMMA UnlistScript ==
  ASSUME NEW s, NEW A, Script(s, A), \A c \in A : c.do \in {"unlist", "earlier"}
  PROVE  Script(s \o plain("kill") \o manager_close,
                A \cup {call("kill", NoNode, NoTool), call("stop", NoNode, NoTool),
                        call("join", NoNode, NoTool)})
<1> DEFINE s1 == s \o plain("kill")
           A1 == A \cup {call("kill", NoNode, NoTool)}
           M == {call("stop", NoNode, NoTool), call("join", NoNode, NoTool)}
<1>1. Script(s1, A1)
  <2>1. \A c \in A : MayFollow(c.do, "kill")
    BY DEF MayFollow, ClosingKinds
  <2> QED
    BY <2>1, ThenStep DEF plain
<1>2. \A c \in A1, d \in M : MayFollow(c.do, d.do)
  BY DEF call, MayFollow, ClosingKinds
<1>3. Script(manager_close, M)
  BY ClosingScript
<1>4. A1 \cup M = A \cup {call("kill", NoNode, NoTool), call("stop", NoNode, NoTool),
                          call("join", NoNode, NoTool)}
  BY Zenon
<1> HIDE DEF s1, A1, M
<1>5. Script(s1 \o manager_close, A1 \cup M)
  BY <1>1, <1>2, <1>3, Sequel
<1> QED
  BY <1>4, <1>5 DEF s1

\* So do reset() and close(), which takes all the entries out and then goes through them.
LEMMA CloseScript == Script(reset, ResetCalls) /\ Script(close, CloseCalls)
<1> DEFINE u == {call("unlist", NoNode, NoTool)}
           e == {call("earlier", NoNode, NoTool)}
           m == {call("kill", NoNode, NoTool), call("stop", NoNode, NoTool),
                 call("join", NoNode, NoTool)}
<1>1. Script(plain("unlist"), u) /\ \A c \in u : c.do = "unlist"
  BY StepScript DEF plain, call
<1>2. /\ Script(plain("unlist") \o plain("earlier"), u \cup e)
      /\ \A c \in u \cup e : c.do \in {"unlist", "earlier"}
  <2>1. \A c \in u : MayFollow(c.do, "earlier")
    BY <1>1 DEF MayFollow, ClosingKinds
  <2>2. \A c \in e : c.do = "earlier"
    BY DEF call
  <2> HIDE DEF u
  <2> QED
    BY <1>1, <2>1, <2>2, ThenStep DEF plain
<1>3. u \cup m = ResetCalls /\ (u \cup e) \cup m = CloseCalls
  BY Zenon DEF ResetCalls, CloseCalls
<1> HIDE DEF u, e
<1>4. Script(plain("unlist") \o plain("kill") \o manager_close, u \cup m)
  BY <1>1, UnlistScript
<1>5. Script(plain("unlist") \o plain("earlier") \o plain("kill") \o manager_close,
             (u \cup e) \cup m)
  BY <1>2, UnlistScript
<1> QED
  BY <1>3, <1>4, <1>5 DEF close, reset

-----------------------------------------------------------------------------
(* The handlers of the other demonstrations.                               *)

\* The arguments of commands and actions.
Fit(c) ==
  /\ c.do = "command" => c.arg[1] \in CommandKey /\ c.arg[2] \in CommandType
  /\ c.do = "execute" => c.arg[1] \in ActionKey /\ c.arg[2] \in Tool

\* A handler that makes such calls in any order.
Loose(s) == \E A : FreeScript(s, A) /\ \A c \in A : Fit(c)

\* A single call of a free kind with proper arguments.
LEMMA LooseStep ==
  ASSUME NEW what \in FreeKinds \ {"command", "execute"}, NEW n, NEW arg
  PROVE  Loose(step(what, n, arg))
<1> DEFINE A == {call(what, n, arg)}
<1>1. \A c \in A : Fit(c)
  BY DEF call, Fit
<1>2. FreeScript(step(what, n, arg), A)
  BY FreeStep
<1> HIDE DEF A
<1> QED
  BY <1>1, <1>2 DEF Loose

\* A command for a node.
LEMMA LooseCommand ==
  ASSUME NEW type \in CommandType, NEW n, NEW key \in CommandKey
  PROVE  Loose(command(type, n, key))
<1> DEFINE A == {call("command", n, <<key, type>>)}
<1>1. \A c \in A : Fit(c)
  BY DEF call, Fit
<1>2. FreeScript(command(type, n, key), A)
  <2>1. "command" \in FreeKinds
    BY DEF FreeKinds
  <2> QED
    BY <2>1, FreeStep DEF command
<1> HIDE DEF A
<1> QED
  BY <1>1, <1>2 DEF Loose

\* Two actions of one asyncio.gather.
LEMMA LooseActions ==
  ASSUME NEW S, \A c \in S : \E n : \E key \in ActionKey, tool \in Tool : c = action(n, key, tool)
  PROVE  Loose(<<S>>)
<1>1. \A c \in S : c.do = "execute" /\ Fit(c)
  BY DEF action, call, Fit
<1>2. "execute" \in FreeKinds
  BY DEF FreeKinds
<1>3. \A c, d \in S : MayFollow(c.do, d.do)
  BY <1>1, <1>2, AnyFollows
<1>4. FreeScript(<<S>>, S)
  BY <1>1, <1>2, <1>3, OneStage DEF FreeScript
<1> QED
  BY <1>1, <1>4 DEF Loose

\* Such scripts one after the other.
LEMMA LooseSequel ==
  ASSUME NEW s, NEW t, Loose(s), Loose(t)
  PROVE  Loose(s \o t)
<1>1. PICK A : FreeScript(s, A) /\ \A c \in A : Fit(c)
  BY DEF Loose
<1>2. PICK B : FreeScript(t, B) /\ \A c \in B : Fit(c)
  BY DEF Loose
<1>3. FreeScript(s \o t, A \cup B)
  BY <1>1, <1>2, FreeSequel
<1> QED
  BY <1>1, <1>2, <1>3 DEF Loose

\* The handlers of the checks that begin and end in one request.
LEMMA ChecksLoose ==
  /\ Loose(_check_cancellation) /\ Loose(_check_idempotency) /\ Loose(_check_manifest_mismatch)
  /\ Loose(_check_sibling_isolation) /\ Loose(_check_concurrent_stale_valid)
  /\ Loose(conclude)
<1>1. /\ \A n, caps : Loose(_spawn_check_node(n, caps))
      /\ \A arg : Loose(step("checkpoint", Database, arg))
      /\ Loose(step("conflict", Database, <<recovery_key, restart_postgres>>))
      /\ Loose(replacement) /\ Loose(plain("expect"))
  <2>1. {"spawn", "activate", "checkpoint", "conflict", "replace", "expect"}
           \subseteq FreeKinds \ {"command", "execute"}
    BY DEF FreeKinds
  <2>2. \A what \in {"spawn", "activate", "checkpoint", "conflict", "replace", "expect"} :
          \A n, arg : Loose(step(what, n, arg))
    BY <2>1, LooseStep
  <2> QED
    BY <2>2, LooseSequel DEF _spawn_check_node, replacement, plain
<1>2. \A type \in CommandType, key \in {correction_key, closing_key} : \A n : Loose(command(type, n, key))
  BY LooseCommand, DemoAssumption
<1>3. {"CANCEL_RUN", "CANCEL_SUBTREE", "CORRECT_SUBTREE"} \subseteq CommandType
  BY DEF CommandType
<1>4. \A key \in {stale_key, recovery_key}, tool \in Tool : \A n : Loose(execute(n, key, tool))
  <2> SUFFICES ASSUME NEW key \in {stale_key, recovery_key}, NEW tool \in Tool, NEW n
               PROVE  Loose(execute(n, key, tool))
    OBVIOUS
  <2> DEFINE S == {action(n, key, tool)}
  <2>1. key \in ActionKey
    BY DemoAssumption
  <2>2. \A c \in S : \E m : \E k \in ActionKey, x \in Tool : c = action(m, k, x)
    BY <2>1
  <2> HIDE DEF S
  <2>3. Loose(<<S>>)
    BY <2>2, LooseActions
  <2> QED
    BY <2>3 DEF execute, S
<1>5. {read_metrics, restart_postgres, reset_redis_pool} \subseteq Tool
  BY DemoAssumption
<1>6. \A tool1 \in Tool, tool2 \in Tool : \A n, m :
        Loose(<<{action(n, stale_key, tool1), action(m, recovery_key, tool2)}>>)
  <2> SUFFICES ASSUME NEW tool1 \in Tool, NEW tool2 \in Tool, NEW n, NEW m
               PROVE  Loose(<<{action(n, stale_key, tool1), action(m, recovery_key, tool2)}>>)
    OBVIOUS
  <2> DEFINE S == {action(n, stale_key, tool1), action(m, recovery_key, tool2)}
  <2>1. stale_key \in ActionKey /\ recovery_key \in ActionKey
    BY DemoAssumption
  <2>2. \A c \in S : \E i : \E k \in ActionKey, x \in Tool : c = action(i, k, x)
    BY <2>1
  <2> HIDE DEF S
  <2>3. Loose(<<S>>)
    BY <2>2, LooseActions
  <2> QED
    BY <2>3 DEF S
<1>7. Loose(conclude)
  BY <1>1, <1>2, <1>3, LooseSequel DEF conclude
<1>8. Loose(_check_cancellation)
  BY <1>1, <1>2, <1>3, <1>4, <1>5, <1>7, LooseSequel DEF _check_cancellation
<1>9. Loose(_check_idempotency)
  BY <1>1, <1>4, <1>5, <1>7, LooseSequel DEF _check_idempotency
<1>10. Loose(_check_manifest_mismatch)
  BY <1>1, <1>2, <1>3, <1>4, <1>5, <1>7, LooseSequel DEF _check_manifest_mismatch
<1>11. Loose(_check_sibling_isolation)
  BY <1>1, <1>2, <1>3, <1>5, <1>6, <1>7, LooseSequel DEF _check_sibling_isolation
<1>12. Loose(_check_concurrent_stale_valid)
  BY <1>1, <1>2, <1>3, <1>5, <1>6, <1>7, LooseSequel DEF _check_concurrent_stale_valid
<1> QED
  BY <1>7, <1>8, <1>9, <1>10, <1>11, <1>12

LeaseCalls ==
  {call("spawn", Database, {restart_postgres}), call("activate", Database, NoTool),
   call("checkpoint", Database, "allowed"), call("keep_alive", NoNode, {Root}),
   entered("WAITING_FOR_LEASE_EXPIRY"), call("register", NoNode, NoTool)}

FinishCalls ==
  {action(Database, stale_key, restart_postgres), call("scan", NoNode, NoTool),
   call("stop", NoNode, NoTool), call("join", NoNode, NoTool), call("detach", NoNode, NoTool),
   entered("FINISHED"), call("command", Root, <<closing_key, "CANCEL_RUN">>),
   call("expect", NoNode, NoTool)}

\* _start_lease_expiry() makes the calls listed, in an order that is allowed.
LEMMA LeaseScript ==
  ASSUME scenario = "lease-expiry"
  PROVE  Script(_start_lease_expiry, LeaseCalls)
<1> DEFINE s1 == _spawn_check_node(Database, {restart_postgres})
                 \o step("checkpoint", Database, "allowed")
           A1 == {call("spawn", Database, {restart_postgres})}
                 \cup {call("activate", Database, NoTool)}
                 \cup {call("checkpoint", Database, "allowed")}
           s2 == s1 \o step("keep_alive", NoNode, {Root})
           A2 == A1 \cup {call("keep_alive", NoNode, {Root})}
           s3 == s2 \o enter("WAITING_FOR_LEASE_EXPIRY")
           A3 == A2 \cup {entered("WAITING_FOR_LEASE_EXPIRY")}
           s4 == s3 \o plain("register")
           A4 == A3 \cup {call("register", NoNode, NoTool)}
<1>1. FreeScript(s1, A1)
  <2>1. {"spawn", "activate", "checkpoint"} \subseteq FreeKinds
    BY DEF FreeKinds
  <2> QED
    BY <2>1, FreeStep, ThenFree DEF _spawn_check_node
<1>2. Script(s2, A2)
  <2> HIDE DEF s1, A1
  <2> QED
    BY <1>1, FreeThen
<1>3. Script(s3, A3)
  <2>1. \A c \in A2 : MayFollow(c.do, "phase")
    BY DEF call, MayFollow
  <2> HIDE DEF s2, A2
  <2> QED
    BY <1>2, <2>1, ThenStep DEF enter, entered
<1>4. Script(s4, A4)
  <2>1. \A c \in A3 : MayFollow(c.do, "register")
    BY DEF call, entered, MayFollow
  <2> HIDE DEF s3, A3
  <2> QED
    BY <1>3, <2>1, ThenStep DEF plain
<1>5. A4 = LeaseCalls
  BY Zenon DEF LeaseCalls
<1> QED
  BY <1>4, <1>5 DEF _start_lease_expiry

\* So does finish_lease_expiry().
LEMMA FinishScript ==
  ASSUME scenario = "lease-expiry"
  PROVE  Script(finish_lease_expiry, FinishCalls)
<1> DEFINE s1 == execute(Database, stale_key, restart_postgres) \o plain("scan")
           A1 == {action(Database, stale_key, restart_postgres)} \cup {call("scan", NoNode, NoTool)}
           s2 == s1 \o manager_close
           A2 == A1 \cup {call("stop", NoNode, NoTool), call("join", NoNode, NoTool)}
           s3 == s2 \o plain("detach")
           A3 == A2 \cup {call("detach", NoNode, NoTool)}
           s4 == s3 \o enter("FINISHED")
           A4 == A3 \cup {entered("FINISHED")}
           B == {call("command", Root, <<closing_key, "CANCEL_RUN">>)}
                \cup {call("expect", NoNode, NoTool)}
           A5 == A4 \cup B
<1>1. FreeScript(s1, A1)
  <2>1. {"execute", "scan"} \subseteq FreeKinds
    BY DEF FreeKinds
  <2> QED
    BY <2>1, FreeStep, ThenFree DEF execute, action, step, plain
<1>2. Script(s2, A2)
  <2>1. \A c \in A1, d \in {call("stop", NoNode, NoTool), call("join", NoNode, NoTool)} :
          MayFollow(c.do, d.do)
    BY <1>1, AnyFollows DEF FreeScript
  <2>2. Script(s1, A1)
    BY <1>1 DEF FreeScript
  <2> HIDE DEF s1, A1
  <2> QED
    BY <2>1, <2>2, ClosingScript, Sequel
<1>3. Script(s3, A3)
  <2>1. \A c \in A2 : MayFollow(c.do, "detach")
    BY DEF call, action, MayFollow
  <2> HIDE DEF s2, A2
  <2> QED
    BY <1>2, <2>1, ThenStep DEF plain
<1>4. Script(s4, A4)
  <2>1. \A c \in A3 : MayFollow(c.do, "phase")
    BY DEF call, action, MayFollow
  <2> HIDE DEF s3, A3
  <2> QED
    BY <1>3, <2>1, ThenStep DEF enter, entered
<1>5. FreeScript(conclude, B)
  <2>1. {"command", "expect"} \subseteq FreeKinds
    BY DEF FreeKinds
  <2> QED
    BY <2>1, FreeStep, ThenFree DEF conclude, command, plain
<1>6. Script(s4 \o conclude, A5)
  <2>1. \A c \in A4, d \in B : MayFollow(c.do, d.do)
    BY DEF call, action, entered, MayFollow
  <2>2. Script(conclude, B)
    BY <1>5 DEF FreeScript
  <2> HIDE DEF s4, A4, B
  <2> QED
    BY <1>4, <2>1, <2>2, Sequel
<1>7. A5 = FinishCalls
  BY Zenon DEF FinishCalls
<1> QED
  BY <1>6, <1>7 DEF finish_lease_expiry

-----------------------------------------------------------------------------
(* What every handler begins with.                                         *)

\* The calls of the stale-supersession demonstration.
Superseding(c) ==
  /\ c.do # "expect"
  /\ c.do = "spawn" => c.node # Replacement
  /\ c.do = "command" => c = correction
  /\ c.do = "execute" => c = recovery
  /\ c.do = "lock" => c = locked(c.arg)
  /\ c.do = "phase" => c = entered(c.arg)
  /\ c.do = "go" => c = going_call
  /\ c.do = "denied" => c = denied_call
  /\ c.do = "committed" => c = committed_call
  /\ c.do = "complete" => c = complete_call

Proper(c) == Fit(c) /\ (scenario = "stale-supersession" => Superseding(c))

\* What the phases of that demonstration say has happened.
Corrected == commands # <<>>
Blocked == \E a \in attempts : a.node = Stale /\ a.decision = "DENY" /\ a.matched # {}
Recovered == \E a \in attempts : a.node = Replacement /\ a.decision = "ALLOW"
Completed ==
  Corrected /\ commands[1].rstatus = "COMPLETED" /\ commands[1].replacement # NoNode

\* A handler that is to enter a phase has the calls before it that make the phase true, or
\* has made them.
Promises(C) ==
  /\ entered("SUPERSEDED") \in C => correction \in C \/ Corrected
  /\ going_call \in C => locked("SUPERSEDED") \in C \/ Corrected
  /\ entered("STALE_DENIED") \in C =>
       /\ locked("SUPERSEDED") \in C \/ Corrected
       /\ denied_call \in C \/ Blocked
  /\ entered("RECOVERY_COMMITTED") \in C =>
       /\ locked("STALE_DENIED") \in C \/ (Corrected /\ Blocked)
       /\ committed_call \in C \/ Recovered
       /\ complete_call \in C \/ Completed
  /\ entered("PROOF_AVAILABLE") \in C =>
       locked("RECOVERY_COMMITTED") \in C \/ (Corrected /\ Blocked /\ Recovered /\ Completed)

Handler(s) ==
  /\ Script(s, all(s))
  /\ \A c \in all(s) : Proper(c)
  /\ scenario = "stale-supersession" => Promises(all(s))

makes(s, kind) == \E c \in all(s) : c.do = kind

\* The handler that begins a demonstration, and the others.
Opens(s) ==
  /\ Handler(s)
  /\ ~makes(s, "detach") /\ ~makes(s, "unlist")
  /\ makes(s, "keep_alive") => makes(s, "register") /\ makes(s, "spawn")
  /\ makes(s, "register") => makes(s, "spawn")

Transits(s) ==
  /\ Handler(s)
  /\ ~makes(s, "keep_alive") /\ ~makes(s, "register")
  /\ makes(s, "detach") => makes(s, "join")
  /\ makes(s, "unlist") => makes(s, "stop")

\* A check made of free calls alone begins no keepalive thread and lists no session.
LEMMA LooseHandler ==
  ASSUME NEW s, Loose(s), scenario # "stale-supersession"
  PROVE  Opens(s)
<1>1. PICK A : FreeScript(s, A) /\ \A c \in A : Fit(c)
  BY DEF Loose
<1>2. all(s) = A /\ Script(s, all(s))
  BY <1>1 DEF FreeScript, Script
<1>3. \A c \in all(s) : c.do \in FreeKinds /\ Fit(c)
  BY <1>1, <1>2 DEF FreeScript
<1>4. Handler(s)
  BY <1>2, <1>3 DEF Handler, Proper
<1>5. \A kind \in {"detach", "unlist", "keep_alive", "register"} : ~makes(s, kind)
  BY <1>3 DEF makes, FreeKinds
<1> QED
  BY <1>4, <1>5 DEF Opens

\* start() lists the session it starts a keepalive thread for, after it registered a node.
LEMMA StartOpens == Opens(start)
<1>1. all(start) = StartCalls /\ Script(start, all(start))
  BY StartScript DEF Script
<1>2. \A c \in StartCalls : c.do \in {"spawn", "activate", "keep_alive", "launch", "await_waiting",
                                      "phase", "register"}
  BY DEF StartCalls, call, entered
<1>3. \A c \in StartCalls : c.do = "phase" => c = entered("WAITING_STALE_WORKER")
  BY DEF StartCalls, call, entered
<1>4. \A c \in StartCalls : c.do = "spawn" => c.node # Replacement
  BY DemoAssumption DEF StartCalls, call, entered
<1>5. entered("WAITING_STALE_WORKER").arg = "WAITING_STALE_WORKER"
  BY DEF entered, call
<1>6. \A c \in StartCalls : Proper(c)
  BY <1>2, <1>3, <1>4, <1>5 DEF Proper, Fit, Superseding
<1>7. Promises(StartCalls)
  <2>1. \A p : entered(p).do = "phase" /\ entered(p).arg = p
    BY DEF entered, call
  <2>2. going_call \notin StartCalls
    BY <1>2 DEF going_call, call
  <2> QED
    BY <1>3, <2>1, <2>2 DEF Promises
<1>8. \A kind \in {"spawn", "register"} : makes(start, kind)
  <2>1. /\ call("register", NoNode, NoTool) \in all(start)
        /\ call("spawn", Sibling, {read_metrics}) \in all(start)
    BY <1>1 DEF StartCalls
  <2>2. call("register", NoNode, NoTool).do = "register" /\ call("spawn", Sibling, {read_metrics}).do = "spawn"
    BY DEF call
  <2> QED
    BY <2>1, <2>2 DEF makes
<1>9. ~makes(start, "detach") /\ ~makes(start, "unlist")
  BY <1>1, <1>2 DEF makes
<1> QED
  BY <1>1, <1>6, <1>7, <1>8, <1>9 DEF Opens, Handler

\* So does _start_lease_expiry().
LEMMA LeaseOpens ==
  ASSUME scenario = "lease-expiry"
  PROVE  Opens(_start_lease_expiry)
<1> DEFINE s == _start_lease_expiry
<1>1. all(s) = LeaseCalls /\ Script(s, all(s))
  BY LeaseScript DEF Script
<1> HIDE DEF s
<1>2. \A c \in LeaseCalls : c.do \in {"spawn", "activate", "checkpoint", "keep_alive", "phase", "register"}
  BY DEF LeaseCalls, call, entered
<1>3. Handler(s)
  BY <1>1, <1>2 DEF Handler, Proper, Fit
<1>4. /\ call("register", NoNode, NoTool) \in LeaseCalls
      /\ call("spawn", Database, {restart_postgres}) \in LeaseCalls
  BY DEF LeaseCalls
<1>5. makes(s, "register") /\ makes(s, "spawn")
  <2>1. call("register", NoNode, NoTool).do = "register" /\ call("spawn", Database, {restart_postgres}).do = "spawn"
    BY DEF call
  <2> QED
    BY <1>1, <1>4, <2>1 DEF makes
<1>6. ~makes(s, "detach") /\ ~makes(s, "unlist")
  BY <1>1, <1>2 DEF makes
<1> QED
  BY <1>3, <1>5, <1>6 DEF Opens, s

\* Whichever demonstration is chosen, the handler that begins it is one of those.
LEMMA OpeningOpens ==
  ASSUME scenario \in Scenario
  PROVE  Opens(opening)
<1>1. CASE scenario = "stale-supersession"
  BY <1>1, StartOpens DEF opening
<1>2. CASE scenario = "lease-expiry"
  BY <1>2, LeaseOpens DEF opening
<1>3. CASE scenario \in {"cancellation", "idempotent-retry", "recovery-manifest-mismatch",
                         "sibling-isolation", "concurrent-stale-valid"}
  BY <1>3, ChecksLoose, LooseHandler DEF opening
<1> QED
  BY <1>1, <1>2, <1>3 DEF Scenario

\* A handler whose calls are known.
LEMMA HandlerOf ==
  ASSUME NEW s, NEW A, Script(s, A), \A c \in A : Proper(c),
         scenario = "stale-supersession" => Promises(A)
  PROVE  Handler(s) /\ all(s) = A
  BY DEF Handler, Script

\* What the handlers of HTTP requests, the lease check's and close() begin with.
LEMMA SupersedeTransits == Transits(supersede)
<1>1. \A c \in SupersedeCalls : c.do \in {"lock", "stop", "join", "detach", "command", "checkpoint", "phase"}
  BY DEF SupersedeCalls, locked, entered, correction, call
<1>2. \A c \in SupersedeCalls :
        /\ c.do = "lock" => c = locked(c.arg)
        /\ c.do = "phase" => c = entered("SUPERSEDED")
        /\ c.do = "command" => c = correction
  BY DEF SupersedeCalls, locked, entered, correction, call
<1>3. \A p : entered(p).do = "phase" /\ entered(p).arg = p
  BY DEF entered, call
<1>4. \A c \in SupersedeCalls : Proper(c)
  <2>1. Fit(correction)
    BY DemoAssumption DEF Fit, correction, call, CommandType
  <2> QED
    BY <1>1, <1>2, <1>3, <2>1 DEF Proper, Superseding, Fit
<1>5. Promises(SupersedeCalls)
  <2>1. going_call \notin SupersedeCalls
    BY <1>1 DEF going_call, call
  <2>2. correction \in SupersedeCalls
    BY DEF SupersedeCalls
  <2> QED
    BY <1>2, <1>3, <2>1, <2>2 DEF Promises
<1>6. Handler(supersede) /\ all(supersede) = SupersedeCalls
  BY <1>4, <1>5, SupersedeScript, HandlerOf
<1>7. makes(supersede, "join")
  <2>1. call("join", NoNode, NoTool) \in all(supersede) /\ call("join", NoNode, NoTool).do = "join"
    BY <1>6 DEF SupersedeCalls, call
  <2> QED
    BY <2>1 DEF makes
<1>8. ~makes(supersede, "unlist") /\ ~makes(supersede, "keep_alive") /\ ~makes(supersede, "register")
  BY <1>1, <1>6 DEF makes
<1> QED
  BY <1>6, <1>7, <1>8 DEF Transits

\* release_stale_worker() denies the stale action before it says so.
LEMMA ReleaseTransits == Transits(release_stale_worker)
<1>1. \A c \in ReleaseCalls : c.do \in {"lock", "go", "await_exit", "denied", "phase"}
  BY DEF ReleaseCalls, locked, entered, going_call, denied_call, call
<1>2. \A c \in ReleaseCalls :
        /\ c.do = "lock" => c = locked(c.arg)
        /\ c.do = "phase" => c = entered("STALE_DENIED")
        /\ c.do = "go" => c = going_call
        /\ c.do = "denied" => c = denied_call
  BY DEF ReleaseCalls, locked, entered, going_call, denied_call, call
<1>3. \A p : entered(p).do = "phase" /\ entered(p).arg = p
  BY DEF entered, call
<1>4. \A c \in ReleaseCalls : Proper(c)
  BY <1>1, <1>2, <1>3 DEF Proper, Superseding, Fit
<1>5. Promises(ReleaseCalls)
  <2>1. locked("SUPERSEDED") \in ReleaseCalls /\ denied_call \in ReleaseCalls
    BY DEF ReleaseCalls
  <2> QED
    BY <1>2, <1>3, <2>1 DEF Promises
<1>6. Handler(release_stale_worker) /\ all(release_stale_worker) = ReleaseCalls
  BY <1>4, <1>5, ReleaseScript, HandlerOf
<1>7. \A kind \in {"detach", "unlist", "keep_alive", "register"} : ~makes(release_stale_worker, kind)
  BY <1>1, <1>6 DEF makes
<1> QED
  BY <1>6, <1>7 DEF Transits

\* run_replacement() commits the recovery and completes the replacement before it says so.
LEMMA ReplacementTransits == Transits(run_replacement)
<1>1. \A c \in ReplacementCalls :
        c.do \in {"lock", "replace", "activate", "execute", "committed", "complete", "phase"}
  BY DEF ReplacementCalls, locked, entered, recovery, action, committed_call, complete_call, call
<1>2. \A c \in ReplacementCalls :
        /\ c.do = "lock" => c = locked(c.arg)
        /\ c.do = "phase" => c = entered("RECOVERY_COMMITTED")
        /\ c.do = "execute" => c = recovery
        /\ c.do = "committed" => c = committed_call
        /\ c.do = "complete" => c = complete_call
  BY DEF ReplacementCalls, locked, entered, recovery, action, committed_call, complete_call, call
<1>3. \A p : entered(p).do = "phase" /\ entered(p).arg = p
  BY DEF entered, call
<1>4. \A c \in ReplacementCalls : Proper(c)
  <2>1. Fit(recovery)
    BY DemoAssumption DEF Fit, recovery, action, call
  <2> QED
    BY <1>1, <1>2, <1>3, <2>1 DEF Proper, Superseding, Fit
<1>5. Promises(ReplacementCalls)
  <2>1. /\ locked("STALE_DENIED") \in ReplacementCalls
        /\ committed_call \in ReplacementCalls /\ complete_call \in ReplacementCalls
    BY DEF ReplacementCalls
  <2>2. going_call \notin ReplacementCalls
    BY <1>1 DEF going_call, call
  <2> QED
    BY <1>2, <1>3, <2>1, <2>2 DEF Promises
<1>6. Handler(run_replacement) /\ all(run_replacement) = ReplacementCalls
  BY <1>4, <1>5, ReplacementScript, HandlerOf
<1>7. \A kind \in {"detach", "unlist", "keep_alive", "register"} : ~makes(run_replacement, kind)
  BY <1>1, <1>6 DEF makes
<1> QED
  BY <1>6, <1>7 DEF Transits

\* build_proof() goes on from RECOVERY_COMMITTED, and joins the manager before it detaches it.
LEMMA ProofTransits == Transits(build_proof)
<1>1. \A c \in ProofCalls : c.do \in {"lock", "prove", "phase", "stop", "join", "detach"}
  BY DEF ProofCalls, locked, entered, call
<1>2. \A c \in ProofCalls :
        /\ c.do = "lock" => c = locked(c.arg)
        /\ c.do = "phase" => c = entered("PROOF_AVAILABLE")
  BY DEF ProofCalls, locked, entered, call
<1>3. \A p : entered(p).do = "phase" /\ entered(p).arg = p
  BY DEF entered, call
<1>4. \A c \in ProofCalls : Proper(c)
  BY <1>1, <1>2, <1>3 DEF Proper, Superseding, Fit
<1>5. Promises(ProofCalls)
  <2>1. locked("RECOVERY_COMMITTED") \in ProofCalls
    BY DEF ProofCalls
  <2>2. going_call \notin ProofCalls
    BY <1>1 DEF going_call, call
  <2> QED
    BY <1>2, <1>3, <2>1, <2>2 DEF Promises
<1>6. Handler(build_proof) /\ all(build_proof) = ProofCalls
  BY <1>4, <1>5, ProofScript, HandlerOf
<1>7. makes(build_proof, "join")
  <2>1. call("join", NoNode, NoTool) \in all(build_proof) /\ call("join", NoNode, NoTool).do = "join"
    BY <1>6 DEF ProofCalls, call
  <2> QED
    BY <2>1 DEF makes
<1>8. ~makes(build_proof, "unlist") /\ ~makes(build_proof, "keep_alive") /\ ~makes(build_proof, "register")
  BY <1>1, <1>6 DEF makes
<1> QED
  BY <1>6, <1>7, <1>8 DEF Transits

\* finish_lease_expiry() joins the manager before it detaches it.
LEMMA FinishTransits ==
  ASSUME scenario = "lease-expiry"
  PROVE  Transits(finish_lease_expiry)
<1>1. \A c \in FinishCalls :
        c.do \in {"execute", "scan", "stop", "join", "detach", "phase", "command", "expect"}
  BY DEF FinishCalls, action, entered, call
<1>2. \A c \in FinishCalls : Proper(c)
  <2>1. Fit(action(Database, stale_key, restart_postgres))
    BY DemoAssumption DEF Fit, action, call
  <2>2. Fit(call("command", Root, <<closing_key, "CANCEL_RUN">>))
    BY DemoAssumption DEF Fit, call, CommandType
  <2>3. \A c \in FinishCalls : c.do \in {"execute", "command"} =>
          c \in {action(Database, stale_key, restart_postgres),
                 call("command", Root, <<closing_key, "CANCEL_RUN">>)}
    BY DEF FinishCalls, entered, call
  <2> QED
    BY <2>1, <2>2, <2>3 DEF Proper, Fit
<1>3. Handler(finish_lease_expiry) /\ all(finish_lease_expiry) = FinishCalls
  BY <1>2, FinishScript, HandlerOf
<1>4. makes(finish_lease_expiry, "join")
  <2>1. /\ call("join", NoNode, NoTool) \in all(finish_lease_expiry)
        /\ call("join", NoNode, NoTool).do = "join"
    BY <1>3 DEF FinishCalls, call
  <2> QED
    BY <2>1 DEF makes
<1>5. \A kind \in {"unlist", "keep_alive", "register"} : ~makes(finish_lease_expiry, kind)
  BY <1>1, <1>3 DEF makes
<1> QED
  BY <1>3, <1>4, <1>5 DEF Transits

\* A handler that takes the entry out and stops its manager detaches nothing.
LEMMA UnlistTransits ==
  ASSUME NEW s, NEW A, Script(s, A), call("stop", NoNode, NoTool) \in A,
         \A c \in A : c.do \in {"unlist", "earlier", "kill", "stop", "join"}
  PROVE  /\ Transits(s) /\ ~makes(s, "detach") /\ makes(s, "stop") /\ all(s) = A
<1>1. \A c \in A : Proper(c)
  BY DEF Proper, Fit, Superseding
<1>2. Promises(A)
  <2>1. \A p : entered(p).do = "phase"
    BY DEF entered, call
  <2>2. going_call.do = "go"
    BY DEF going_call, call
  <2> QED
    BY <2>1, <2>2 DEF Promises
<1>3. Handler(s) /\ all(s) = A
  BY <1>1, <1>2, HandlerOf
<1>4. makes(s, "stop")
  <2>1. call("stop", NoNode, NoTool).do = "stop"
    BY DEF call
  <2> QED
    BY <1>3, <2>1 DEF makes
<1>5. \A kind \in {"detach", "keep_alive", "register"} : ~makes(s, kind)
  BY <1>3 DEF makes
<1> QED
  BY <1>3, <1>4, <1>5 DEF Transits

\* close(), reset() and the manager's own close() stop the manager and never detach it.
LEMMA CloseTransits ==
  /\ Transits(close) /\ Transits(reset) /\ Transits(manager_close)
  /\ ~makes(close, "detach") /\ ~makes(manager_close, "detach")
  /\ makes(manager_close, "stop")
  /\ \A c \in all(manager_close) : c.do \in {"stop", "join"}
<1> DEFINE M == {call("stop", NoNode, NoTool), call("join", NoNode, NoTool)}
<1>1. /\ \A c \in CloseCalls : c.do \in {"unlist", "earlier", "kill", "stop", "join"}
      /\ ResetCalls \subseteq CloseCalls
      /\ \A c \in M : c.do \in {"stop", "join"}
  BY DEF CloseCalls, ResetCalls, call
<1>2. call("stop", NoNode, NoTool) \in ResetCalls \cap M
  BY DEF ResetCalls
<1>3. Script(manager_close, M)
  BY ClosingScript
<1> HIDE DEF M
<1>4. Transits(close) /\ ~makes(close, "detach")
  BY <1>1, <1>2, CloseScript, UnlistTransits
<1>5. Transits(reset)
  BY <1>1, <1>2, CloseScript, UnlistTransits
<1>6. /\ Transits(manager_close) /\ ~makes(manager_close, "detach") /\ makes(manager_close, "stop")
      /\ all(manager_close) = M
  BY <1>1, <1>2, <1>3, UnlistTransits
<1> QED
  BY <1>1, <1>4, <1>5, <1>6

\* So every handler of an HTTP request is one that goes on with a session.
LEMMA RequestsTransit == \A op \in DOMAIN HTTPHandler : Transits(HTTPHandler[op])
<1>1. DOMAIN HTTPHandler =
        {"supersede", "release_stale_worker", "run_replacement", "build_proof", "reset"}
  BY DEF HTTPHandler
<1>2. /\ HTTPHandler["supersede"] = supersede
      /\ HTTPHandler["release_stale_worker"] = release_stale_worker
      /\ HTTPHandler["run_replacement"] = run_replacement
      /\ HTTPHandler["build_proof"] = build_proof
      /\ HTTPHandler["reset"] = reset
  BY DEF HTTPHandler
<1> QED
  BY <1>1, <1>2, SupersedeTransits, ReleaseTransits, ReplacementTransits, ProofTransits,
     CloseTransits

-----------------------------------------------------------------------------
(* How the threads move.                                                   *)
todo(r) == thread[r].todo

ThreadShape ==
  /\ thread = [r \in Task |-> thread[r]]
  /\ \A r \in Task : thread[r] = [op |-> thread[r].op, todo |-> thread[r].todo]

\* Thread r is left with t, the others are left alone.
Moves(r, t) ==
  /\ ThreadShape'
  /\ thread'[r].todo = t
  /\ \A q \in Task \ {r} : thread'[q] = thread[q]

\* A thread whose record is replaced has moved, and no other.
LEMMA ThreadUpdate ==
  ASSUME ThreadShape, NEW r \in Task, NEW op, NEW t,
         thread' = [thread EXCEPT ![r] = [op |-> op, todo |-> t]]
  PROVE  Moves(r, t)
<1> DEFINE row == [op |-> op, todo |-> t]
<1>1. row.todo = t /\ row = [op |-> row.op, todo |-> row.todo]
  OBVIOUS
<1>2. thread' = [thread EXCEPT ![r] = row]
  OBVIOUS
<1> HIDE DEF row
<1>3. thread' = [q \in Task |-> IF q = r THEN row ELSE thread[q]]
  BY <1>2 DEF ThreadShape
<1>4. thread'[r] = row /\ \A q \in Task \ {r} : thread'[q] = thread[q]
  BY <1>3
<1>5. ThreadShape'
  BY <1>1, <1>3, <1>4 DEF ThreadShape
<1> QED
  BY <1>1, <1>4, <1>5 DEF Moves

\* A handler that is left has nothing to do any more.
LEMMA LeaveMoves ==
  ASSUME ThreadShape, NEW r \in Task, leave(r)
  PROVE  Moves(r, <<>>)
  BY ThreadUpdate DEF leave, Idle

\* A handler whose calls are replaced has those calls to make.
LEMMA TodoMoves ==
  ASSUME ThreadShape, NEW r \in Task, NEW t, thread' = [thread EXCEPT ![r].todo = t]
  PROVE  Moves(r, t)
<1>1. [thread[r] EXCEPT !.todo = t] = [op |-> thread[r].op, todo |-> t]
  BY DEF ThreadShape
<1>2. thread' = [thread EXCEPT ![r] = [op |-> thread[r].op, todo |-> t]]
  BY <1>1
<1> QED
  BY <1>2, ThreadUpdate

\* A handler that continues has the given calls to make.
LEMMA ContinueMoves ==
  ASSUME ThreadShape, NEW r \in Task, NEW t, continue(r, t)
  PROVE  Moves(r, t)
<1>1. CASE t = <<>>
  BY <1>1, LeaveMoves DEF continue
<1>2. CASE t # <<>>
  BY <1>2, TodoMoves DEF continue
<1> QED
  BY <1>1, <1>2

\* A handler that begins has all its calls to make, on a thread that had none.
LEMMA BeginMoves ==
  ASSUME ThreadShape, NEW r \in Task, NEW op, NEW t, begin(r, op, t)
  PROVE  Moves(r, t) /\ todo(r) = <<>>
<1>1. todo(r) = <<>>
  BY DEF begin, todo, Idle
<1>2. thread' = [thread EXCEPT ![r] = [op |-> op, todo |-> t]]
  BY DEF begin
<1> QED
  BY <1>1, <1>2, ThreadUpdate

\* The call returned; it, or the handler, raised.
Goes(r, c) == Moves(r, left(r, c))
Ends(r) == Moves(r, <<>>)
Raises(r, c) == IF c.do \in {"launch", "await_waiting"} THEN Moves(r, manager_close) ELSE Ends(r)

\* The three ways in which a call ends, as moves of its thread.
LEMMA CallMoves ==
  ASSUME ThreadShape, NEW r \in Task, NEW c
  PROVE  /\ proceed(r, c) => Goes(r, c)
         /\ raise(r, c) => Raises(r, c)
         /\ leave(r) => Ends(r)
  BY LeaveMoves, ContinueMoves DEF proceed, raise, Goes, Raises, Ends

\* A thread that goes on makes the remaining calls.
LEMMA GoesOn ==
  ASSUME NEW r \in Task, Script(todo(r), all(todo(r))), NEW c \in calls(r)
  PROVE  /\ Script(left(r, c), all(left(r, c)))
         /\ all(left(r, c)) \subseteq all(todo(r))
         /\ all(todo(r)) \ {c} \subseteq all(left(r, c))
         /\ \A d \in all(left(r, c)) : MayFollow(c.do, d.do)
         /\ c \in all(todo(r))
<1>1. todo(r) # <<>> /\ calls(r) = Head(todo(r))
  BY DEF calls, todo
<1>2. left(r, c) = IF Head(todo(r)) = {c} THEN Tail(todo(r))
                   ELSE <<Head(todo(r)) \ {c}>> \o Tail(todo(r))
  BY <1>1 DEF left, todo
<1> QED
  BY <1>1, <1>2, Remaining

\* A thread without a handler makes no call.
LEMMA NothingLeft == all(<<>>) = {} /\ Script(<<>>, all(<<>>))
<1>1. Len(<<>>) = 0
  OBVIOUS
<1>2. 1 .. Len(<<>>) = {}
  BY <1>1
<1>3. all(<<>>) = {}
  BY <1>2 DEF all
<1> QED
  BY <1>2, <1>3, EmptySeq DEF Script, Orderly

\* Kinds of calls that have to do with the keepalive thread and the entry of the session.
ManagerKinds == {"keep_alive", "stop", "join", "detach", "register", "unlist"}

ManagerShape ==
  /\ {"running", "stop", "nodes", "beating"} \subseteq DOMAIN manager
  /\ {manager.running, manager.stop, attached, listed} \subseteq BOOLEAN

\* The calls that have nothing to do with them.
LEMMA OtherCalls ==
  ASSUME ThreadShape, NEW r \in Task, NEW c \in calls(r), perform(r, c), c.do \notin ManagerKinds
  PROVE  /\ UNCHANGED <<manager, attached, listed>>
         /\ thread' = thread \/ Goes(r, c) \/ Raises(r, c) \/ Ends(r)
         /\ c.do = "phase" => Goes(r, c)
         /\ c.do \in {"launch", "await_waiting"} => Goes(r, c) \/ Raises(r, c)
         /\ c.do \in {"earlier", "kill"} => Goes(r, c) \/ (Ends(r) /\ aborted')
         /\ aborted => aborted'
<1> DEFINE Goal ==
         /\ UNCHANGED <<manager, attached, listed>>
         /\ thread' = thread \/ Goes(r, c) \/ Raises(r, c) \/ Ends(r)
         /\ c.do = "phase" => Goes(r, c)
         /\ c.do \in {"launch", "await_waiting"} => Goes(r, c) \/ Raises(r, c)
         /\ c.do \in {"earlier", "kill"} => Goes(r, c) \/ (Ends(r) /\ aborted')
         /\ aborted => aborted'
<1>1. CASE service(r, c)
  BY <1>1, CallMoves DEF service, session
<1>2. CASE execution(r, c)
  BY <1>2, CallMoves DEF execution, session
<1>3. CASE checkpointing(r, c)
  BY <1>3, CallMoves DEF checkpointing, session
<1>4. CASE failure(r, c)
  BY <1>4, CallMoves DEF failure, session
<1>5. CASE expectation(r, c)
  BY <1>5, CallMoves DEF expectation
<1>6. CASE looked_at(r, c)
  BY <1>6, CallMoves DEF looked_at, session
<1>7. CASE locking(r, c)
  BY <1>7, CallMoves, TodoMoves DEF locking, session, Goes
<1>8. CASE entering(r, c)
  BY <1>8, CallMoves DEF entering
<1>9. CASE launching(r, c)
  BY <1>9, CallMoves DEF launching, session
<1>10. CASE awaiting_checkpoint(r, c)
  BY <1>10, CallMoves DEF awaiting_checkpoint, session
<1>11. CASE going(r, c)
  BY <1>11, CallMoves DEF going, session
<1>12. CASE awaiting_exit(r, c)
  BY <1>12, CallMoves DEF awaiting_exit, session
<1>13. CASE killing(r, c)
  BY <1>13, CallMoves DEF killing
<1>14. CASE closing_others(r, c)
  BY <1>14, CallMoves DEF closing_others
<1>15. CASE registering(r, c) \/ unlisting(r, c) \/ keeping_alive(r, c) \/ stopping(r, c)
            \/ joining(r, c) \/ detaching(r, c)
  BY <1>15 DEF registering, unlisting, keeping_alive, stopping, joining, detaching, ManagerKinds
<1> HIDE DEF Goal
<1> QED
  BY <1>1, <1>2, <1>3, <1>4, <1>5, <1>6, <1>7, <1>8, <1>9, <1>10, <1>11, <1>12, <1>13, <1>14,
     <1>15
  DEF perform, Goal

\* And those that have.
LEMMA ManagerCalls ==
  ASSUME ThreadShape, ManagerShape, NEW r \in Task, NEW c \in calls(r), perform(r, c),
         c.do \in ManagerKinds
  PROVE  /\ ManagerShape'
         /\ UNCHANGED vars /\ aborted' = aborted
         /\ c.do = "keep_alive" =>
              /\ Goes(r, c) /\ attached' /\ listed' = listed
              /\ manager'.running /\ manager'.stop = manager.stop
         /\ c.do = "stop" =>
              /\ Goes(r, c) /\ UNCHANGED <<attached, listed>>
              /\ manager'.running = manager.running
              /\ manager'.stop <=> manager.stop \/ attached
         /\ c.do = "join" =>
              /\ UNCHANGED <<manager, attached, listed>>
              /\ IF attached /\ manager.running THEN Ends(r) ELSE Goes(r, c)
         /\ c.do = "detach" => Goes(r, c) /\ ~attached' /\ UNCHANGED <<manager, listed>>
         /\ c.do = "register" => Goes(r, c) /\ listed' /\ UNCHANGED <<manager, attached>>
         /\ c.do = "unlist" =>
              /\ ~listed' /\ UNCHANGED <<manager, attached>>
              /\ IF listed THEN Goes(r, c) ELSE Ends(r)
<1>1. \/ registering(r, c) \/ unlisting(r, c) \/ keeping_alive(r, c)
      \/ stopping(r, c) \/ joining(r, c) \/ detaching(r, c)
  BY DEF perform, ManagerKinds, service, execution, checkpointing, failure, expectation, looked_at,
         locking, entering, launching, awaiting_checkpoint, going, awaiting_exit, killing,
         closing_others
<1>2. CASE registering(r, c)
  BY <1>2, CallMoves DEF registering, ManagerShape
<1>3. CASE unlisting(r, c)
  <2>1. c.do = "unlist" /\ ManagerShape' /\ UNCHANGED <<vars, manager, attached, aborted>> /\ ~listed'
    BY <1>3 DEF unlisting, ManagerShape
  <2>2. IF listed THEN Goes(r, c) ELSE Ends(r)
    BY <1>3, CallMoves DEF unlisting
  <2> QED
    BY <2>1, <2>2
<1>4. CASE keeping_alive(r, c)
  <2>1. manager' = [manager EXCEPT !.running = TRUE, !.nodes = c.arg] /\ attached' = TRUE
    BY <1>4 DEF keeping_alive
  <2>2. DOMAIN manager' = DOMAIN manager /\ manager'.running = TRUE /\ manager'.stop = manager.stop
    BY <2>1 DEF ManagerShape
  <2>3. ManagerShape'
    BY <1>4, <2>1, <2>2 DEF keeping_alive, ManagerShape
  <2>4. c.do = "keep_alive" /\ UNCHANGED <<vars, listed, aborted>> /\ Goes(r, c)
    BY <1>4, CallMoves DEF keeping_alive
  <2> QED
    BY <2>1, <2>2, <2>3, <2>4
<1>5. CASE stopping(r, c)
  <2> DEFINE asked == manager.stop \/ attached
  <2>1. asked \in BOOLEAN
    BY DEF ManagerShape
  <2>2. manager' = [manager EXCEPT !.stop = asked]
    BY <1>5 DEF stopping
  <2> HIDE DEF asked
  <2>3. /\ DOMAIN manager' = DOMAIN manager
        /\ manager'.running = manager.running /\ manager'.stop = asked
    BY <2>2 DEF ManagerShape
  <2>4. ManagerShape'
    BY <1>5, <2>1, <2>3 DEF stopping, session, ManagerShape
  <2>5. c.do = "stop" /\ UNCHANGED <<vars, attached, listed, aborted>> /\ Goes(r, c)
    BY <1>5, CallMoves DEF stopping, session
  <2> QED
    BY <2>3, <2>4, <2>5 DEF asked
<1>6. CASE joining(r, c)
  BY <1>6, CallMoves DEF joining, session, ManagerShape, Raises
<1>7. CASE detaching(r, c)
  BY <1>7, CallMoves DEF detaching, ManagerShape
<1> QED
  BY <1>1, <1>2, <1>3, <1>4, <1>5, <1>6, <1>7

-----------------------------------------------------------------------------
(* The control plane that the demonstrations drive.                        *)

\* Every thread makes calls of handlers, in their order.
ThreadsInv ==
  /\ ThreadShape
  /\ \A r \in Task : /\ Script(todo(r), all(todo(r)))
                     /\ \A c \in all(todo(r)) : Proper(c)

\* What a demonstration does at the gateway is a step of the control plane.
LEMMA DecideSteps ==
  ASSUME NEW n, NEW key \in ActionKey, NEW tool \in Tool, decide(n, key, tool)
  PROVE  [Next]_vars
<1>1. CASE execute_allow(n, key, tool) \/ execute_deny_stale(n, key, tool) \/ execute_deny(n, key, tool)
  <2>1. n \in tokens
    BY <1>1 DEF execute_allow, execute_deny_stale, execute_deny, admissible
  <2> QED
    BY <1>1, <2>1 DEF Next, Gateway
<1> QED
  BY <1>1 DEF decide

\* So is what it does of a checkpoint.
LEMMA CheckpointSteps ==
  ASSUME NEW n, NEW answer, checkpoint(n, answer)
  PROVE  Next
<1>1. CASE checkpoint_read(n)
  <2>1. n \in Node
    BY <1>1 DEF checkpoint_read, tokens
  <2> QED
    BY <1>1, <2>1 DEF Next, Checkpoints
<1>2. CASE \E k \in pending_checkpoint(n) : checkpoint_decide(k) \/ checkpoint_write(k)
  BY <1>2 DEF pending_checkpoint, Next, Checkpoints
<1> QED
  BY <1>1, <1>2 DEF checkpoint

\* So is every call of a service.
LEMMA ServiceSteps ==
  ASSUME TypeOK, now # 0, NEW r, NEW c, Fit(c), service(r, c)
  PROVE  [Next]_vars
<1>n. now \in 1 .. now
  BY DEF TypeOK
<1>1. ASSUME create_spawn(parent_of(c.node), c.node, c.arg) PROVE Next
  <2>1. parent_of(c.node) \in tokens /\ c.node \in fresh /\ c.arg \subseteq reg[parent_of(c.node)].caps
    BY <1>1 DEF create_spawn, _validate_capability_delegation
  <2>2. c.arg \in SUBSET Capability
    BY <2>1 DEF TypeOK, Registration, tokens
  <2> QED
    BY <1>1, <2>1, <2>2 DEF Next, Lifecycle
<1>2. ASSUME activate(c.node, now) PROVE Next
  <2>1. c.node \in Node
    BY <1>2 DEF activate, registered
  <2> QED
    BY <1>n, <1>2, <2>1 DEF Next, Lifecycle
<1>3. ASSUME c.do = "command", commanded(c.node, c.arg[1], c.arg[2]) PROVE [Next]_vars
  <2>1. CASE UNCHANGED vars
    BY <2>1
  <2> DEFINE tool == IF c.arg[2] = "CORRECT_SUBTREE" THEN reset_redis_pool ELSE NoTool
  <2>2. CASE issue_command(Operator, c.arg[1], c.arg[2], c.node, tool, NoProposal)
    <3>1. c.node \in Node
      BY <2>2 DEF issue_command, registered
    <3>2. c.arg[1] \in CommandKey /\ c.arg[2] \in CommandType
      BY <1>3 DEF Fit
    <3>3. tool \in Tool \cup {NoTool} /\ Operator \in Issuer
      BY DemoAssumption DEF Issuer
    <3> HIDE DEF tool
    <3> QED
      BY <2>2, <3>1, <3>2, <3>3 DEF Next, Control
  <2> QED
    BY <1>3, <2>1, <2>2 DEF commanded
<1>4. ASSUME replaced PROVE [Next]_vars
  <2>1. ASSUME NEW i \in issued(correction_key), create_replacement(Root, Replacement, i) PROVE Next
    <3>1. Root \in tokens /\ Replacement \in fresh /\ i \in DOMAIN commands
      BY <2>1 DEF create_replacement, issued
    <3> QED
      BY <2>1, <3>1 DEF Next, Lifecycle
  <2> QED
    BY <1>4, <2>1 DEF replaced
<1>5. ASSUME complete_node(c.node) PROVE Next
  <2>1. c.node \in Node
    BY <1>5 DEF complete_node, tokens
  <2> QED
    BY <1>5, <2>1 DEF Next, Lifecycle
<1>6. ASSUME expire_stale_nodes(now) PROVE Next
  BY <1>n, <1>6 DEF Next, Scanner
<1> QED
  BY <1>1, <1>2, <1>3, <1>4, <1>5, <1>6 DEF service

\* Every step of a demonstration is a step of the control plane, or leaves its tables alone.
LEMMA DemoSteps ==
  ASSUME TypeOK, now # 0, ThreadsInv, [DemoNext]_demoVars
  PROVE  [Next]_vars
<1>n. now \in 1 .. now
  BY DEF TypeOK
<1>1. CASE Requests
  BY <1>1 DEF Requests, open, transition, finish, shut_down, begin
<1>2. ASSUME NEW r \in Task, NEW c \in calls(r), perform(r, c) PROVE [Next]_vars
  <2>1. Fit(c)
    BY GoesOn DEF ThreadsInv, Proper
  <2>2. CASE service(r, c)
    BY <2>1, <2>2, ServiceSteps
  <2>3. CASE execution(r, c)
    BY <2>1, <2>3, DecideSteps DEF execution, Fit
  <2>4. CASE checkpointing(r, c)
    BY <2>4, CheckpointSteps DEF checkpointing
  <2>5. CASE failure(r, c)
    BY <2>5 DEF failure, pending_checkpoint, Next, Checkpoints
  <2>6. CASE \/ expectation(r, c) \/ looked_at(r, c) \/ locking(r, c) \/ entering(r, c)
             \/ registering(r, c) \/ unlisting(r, c) \/ keeping_alive(r, c) \/ stopping(r, c)
             \/ joining(r, c) \/ detaching(r, c) \/ launching(r, c) \/ awaiting_checkpoint(r, c)
             \/ going(r, c) \/ awaiting_exit(r, c) \/ killing(r, c)
             \/ closing_others(r, c)
    BY <2>6 DEF expectation, looked_at, locking, entering, registering, unlisting, keeping_alive,
         stopping, joining, detaching, launching, awaiting_checkpoint, going, awaiting_exit, killing,
         closing_others
  <2> QED
    BY <1>2, <2>2, <2>3, <2>4, <2>5, <2>6 DEF perform
<1>3. CASE Keepalive
  <2>1. ASSUME NEW n, \/ heartbeat_renewed(n, now) \/ heartbeat_expired(n, now)
                      \/ heartbeat_fenced(n, now)
        PROVE  Next
    <3>1. n \in Node
      BY <2>1 DEF heartbeat_renewed, heartbeat_expired, heartbeat_fenced, heartbeat_live, tokens
    <3> QED
      BY <1>n, <2>1, <3>1 DEF Next, Lifecycle
  <2> QED
    BY <1>3, <2>1 DEF Keepalive, beat, beaten, ended
<1>4. CASE WorkerProcess
  <2>1. stale_key \in ActionKey /\ restart_postgres \in Tool
    BY DemoAssumption
  <2>2. CASE worker_checkpoint
    BY <2>2, CheckpointSteps DEF worker_checkpoint
  <2>3. CASE worker_action
    BY <2>1, <2>3, DecideSteps DEF worker_action
  <2>4. CASE worker_released \/ worker_timeout
    BY <2>4 DEF worker_released, worker_timeout
  <2> QED
    BY <1>4, <2>2, <2>3, <2>4 DEF WorkerProcess
<1>5. CASE Elsewhere
  BY <1>n, <1>5 DEF Elsewhere, Next, Scanner
<1>6. CASE UNCHANGED demoVars
  BY <1>6 DEF demoVars
<1> QED
  BY <1>1, <1>2, <1>3, <1>4, <1>5, <1>6 DEF DemoNext, Threads, run_thread

-----------------------------------------------------------------------------
(* The keepalive thread.                                                   *)
pending(r, kind) == makes(todo(r), kind)

\* The demonstration has registered a node.
Begun == \E n \in Node \ {Root} : status[n] # "NONE"

\* A handler that will put the entry into the controller's table with nothing before it that
\* could end the handler, and one that will stop the thread with nothing before it but the
\* calls whose failure is remembered.
Starting(r) ==
  /\ pending(r, "register")
  /\ \A c \in all(todo(r)) : c.do \in {"launch", "await_waiting", "phase", "register"}

Stopping(r) ==
  /\ pending(r, "stop")
  /\ \A c \in all(todo(r)) : c.do \in ClosingKinds

\* Only the handler that begins the demonstration starts the thread and lists the session;
\* whoever detaches the manager has joined it first; whoever forgets the session is to stop it.
HandlerInv(r) ==
  /\ pending(r, "keep_alive") =>
       /\ ~manager.running /\ ~attached /\ ~listed
       /\ pending(r, "register")
       /\ \A q \in Task \ {r} : \A kind \in {"detach", "keep_alive", "register"} : ~pending(q, kind)
  /\ pending(r, "keep_alive") \/ pending(r, "register") => pending(r, "spawn") \/ Begun
  /\ pending(r, "detach") => pending(r, "join") \/ ~manager.running \/ ~attached
  /\ pending(r, "unlist") => pending(r, "stop")

ManagerInv ==
  /\ ManagerShape
  /\ manager.running \/ attached \/ listed => Begun
  /\ manager.running /\ ~manager.stop => attached
  /\ \A r \in Task : HandlerInv(r)
  /\ ~listed /\ manager.running /\ ~manager.stop =>
       aborted \/ \E r \in Task : Starting(r) \/ Stopping(r)

\* What a move does to the calls that are pending.
LEMMA PendingMoves ==
  ASSUME NEW r \in Task, NEW t, Moves(r, t)
  PROVE  /\ \A kind : pending(r, kind)' <=> makes(t, kind)
         /\ Starting(r)' <=> makes(t, "register") /\
              \A c \in all(t) : c.do \in {"launch", "await_waiting", "phase", "register"}
         /\ Stopping(r)' <=> makes(t, "stop") /\ \A c \in all(t) : c.do \in ClosingKinds
         /\ \A q \in Task \ {r} : /\ \A kind : pending(q, kind)' <=> pending(q, kind)
                                  /\ Starting(q)' <=> Starting(q)
                                  /\ Stopping(q)' <=> Stopping(q)
<1>1. thread'[r].todo = t /\ \A q \in Task \ {r} : thread'[q].todo = thread[q].todo
  BY DEF Moves
<1> QED
  BY <1>1 DEF pending, Starting, Stopping, todo, makes, all


\* Every thread is left with calls of a handler, in their order.
LEMMA ThreadsMove ==
  ASSUME ThreadsInv, scenario' = scenario, NEW r \in Task, NEW t, Moves(r, t),
         Script(t, all(t)), \A c \in all(t) : Proper(c)
  PROVE  ThreadsInv'
<1>1. /\ ThreadShape' /\ thread'[r].todo = t
      /\ \A q \in Task \ {r} : thread'[q].todo = thread[q].todo
  BY DEF Moves
<1>2. /\ \A s, A : Script(s, A)' <=> Script(s, A)
      /\ \A c : Proper(c)' <=> Proper(c)
  BY DEF Script, Orderly, MayFollow, Proper, Superseding, Fit
<1>3. ASSUME NEW q \in Task
      PROVE  /\ Script(thread'[q].todo, all(thread'[q].todo))
             /\ \A c \in all(thread'[q].todo) : Proper(c)
  BY <1>1 DEF ThreadsInv, todo
<1> QED
  BY <1>1, <1>2, <1>3 DEF ThreadsInv, todo

\* Threads that do not move keep their scripts.
LEMMA ThreadsKept ==
  ASSUME ThreadsInv, thread' = thread, scenario' = scenario
  PROVE  ThreadsInv'
<1>1. /\ \A s, A : Script(s, A)' <=> Script(s, A)
      /\ \A c : Proper(c)' <=> Proper(c)
  BY DEF Script, Orderly, MayFollow, Proper, Superseding, Fit
<1> QED
  BY <1>1 DEF ThreadsInv, ThreadShape, todo

\* What a thread may be left with.
LEMMA ScriptsLeft ==
  ASSUME ThreadsInv, NEW r \in Task, NEW c \in calls(r), NEW t,
         t \in {left(r, c), <<>>, manager_close}
  PROVE  Script(t, all(t)) /\ \A d \in all(t) : Proper(d)
<1>1. CASE t = left(r, c)
  BY <1>1, GoesOn DEF ThreadsInv
<1>2. CASE t = <<>>
  BY <1>2, NothingLeft
<1>3. CASE t = manager_close
  BY <1>3, CloseTransits DEF Transits, Handler
<1> QED
  BY <1>1, <1>2, <1>3

\* How a thread moves, whatever call it makes.
LEMMA PerformMoves ==
  ASSUME ThreadShape, ManagerShape, NEW r \in Task, NEW c \in calls(r), perform(r, c)
  PROVE  thread' = thread \/ Goes(r, c) \/ Ends(r) \/ Moves(r, manager_close)
<1>1. CASE c.do \notin ManagerKinds
  BY <1>1, OtherCalls DEF Raises
<1>2. CASE c.do \in ManagerKinds
  BY <1>2, ManagerCalls DEF ManagerKinds
<1> QED
  BY <1>1, <1>2

\* How a handler begins.
LEMMA Begins ==
  ASSUME ThreadShape, scenario \in Scenario, NEW r \in Task,
         open(r) \/ transition(r) \/ finish(r) \/ shut_down(r)
  PROVE  \E t : /\ Moves(r, t) /\ todo(r) = <<>> /\ Handler(t)
                /\ UNCHANGED <<vars, scenario, phase, manager, attached, listed, aborted, worker,
                               reason>>
                /\ \/ /\ Opens(t) /\ registered = {Root}
                      /\ \A q \in Task : todo(q) = <<>>
                   \/ Transits(t) /\ (listed \/ ~makes(t, "detach"))
<1>1. CASE open(r)
  <2>1. Opens(opening) /\ Handler(opening)
    BY OpeningOpens DEF Opens
  <2>2. \A q \in Task : todo(q) = <<>>
    BY <1>1 DEF open, todo, Idle
  <2>3. Moves(r, opening)
    BY <1>1, BeginMoves DEF open
  <2> QED
    BY <1>1, <2>1, <2>2, <2>3 DEF open, begin, session
<1>2. CASE transition(r)
  <2>1. PICK op \in DOMAIN HTTPHandler : begin(r, op, HTTPHandler[op])
    BY <1>2 DEF transition
  <2>2. Transits(HTTPHandler[op]) /\ Handler(HTTPHandler[op])
    BY RequestsTransit DEF Transits
  <2>3. Moves(r, HTTPHandler[op]) /\ todo(r) = <<>>
    BY <2>1, BeginMoves
  <2> QED
    BY <1>2, <2>1, <2>2, <2>3 DEF transition, begin, session
<1>3. CASE finish(r)
  <2>1. Transits(finish_lease_expiry) /\ Handler(finish_lease_expiry)
    BY <1>3, FinishTransits DEF finish, Transits
  <2>2. Moves(r, finish_lease_expiry) /\ todo(r) = <<>>
    BY <1>3, BeginMoves DEF finish
  <2> QED
    BY <1>3, <2>1, <2>2 DEF finish, begin, session
<1>4. CASE shut_down(r)
  <2>1. Transits(close) /\ Handler(close) /\ ~makes(close, "detach")
    BY CloseTransits DEF Transits
  <2>2. Moves(r, close) /\ todo(r) = <<>>
    BY <1>4, BeginMoves DEF shut_down
  <2> QED
    BY <1>4, <2>1, <2>2 DEF shut_down, begin
<1> QED
  BY <1>1, <1>2, <1>3, <1>4

\* What is not a handler's leaves the threads alone.
LEMMA OutsideMoves ==
  ASSUME ManagerShape, Keepalive \/ WorkerProcess \/ Elsewhere \/ UNCHANGED demoVars
  PROVE  /\ UNCHANGED <<scenario, thread, phase, listed, attached, aborted>>
         /\ ManagerShape'
         /\ manager'.stop = manager.stop
         /\ manager'.running => manager.running
<1>1. CASE Keepalive
  <2>1. UNCHANGED <<scenario, thread, phase, listed, attached, aborted>>
    BY <1>1 DEF Keepalive, beat, beaten, ended, session
  <2>2. ASSUME NEW b \in BOOLEAN, NEW N, manager' = [manager EXCEPT !.beating = b, !.nodes = N]
        PROVE  DOMAIN manager' = DOMAIN manager /\ manager'.stop = manager.stop /\ manager'.running = manager.running
    BY <2>2 DEF ManagerShape
  <2>3. CASE beat
    BY <2>1, <2>3 DEF beat, ManagerShape
  <2>4. CASE \E n \in manager.nodes : beaten(n)
    BY <2>1, <2>2, <2>4 DEF beaten, ManagerShape
  <2>5. CASE ended
    BY <2>1, <2>5 DEF ended, ManagerShape
  <2> QED
    BY <1>1, <2>3, <2>4, <2>5 DEF Keepalive
<1>2. CASE WorkerProcess
  BY <1>2 DEF WorkerProcess, worker_checkpoint, worker_released, worker_action, worker_timeout,
              session, ManagerShape
<1>3. CASE Elsewhere \/ UNCHANGED demoVars
  BY <1>3 DEF Elsewhere, demoVars, demo, session, ManagerShape
<1> QED
  BY <1>1, <1>2, <1>3

\* Every step leaves every thread with a handler's calls, in their order.
LEMMA ThreadsStep ==
  ASSUME ThreadsInv, ManagerShape, scenario \in Scenario, [DemoNext]_demoVars
  PROVE  ThreadsInv' /\ scenario' = scenario
<1>t. ThreadShape
  BY DEF ThreadsInv
<1>1. CASE Requests
  <2>1. PICK r \in Task : open(r) \/ transition(r) \/ finish(r) \/ shut_down(r)
    BY <1>1 DEF Requests
  <2>2. PICK t : Moves(r, t) /\ Handler(t) /\ scenario' = scenario
    BY <1>t, <2>1, Begins
  <2> QED
    BY <2>2, ThreadsMove DEF Handler
<1>2. ASSUME NEW r \in Task, NEW c \in calls(r), perform(r, c)
      PROVE  ThreadsInv' /\ scenario' = scenario
  <2>1. scenario' = scenario
    BY <1>2 DEF perform, service, execution, checkpointing, failure, expectation, looked_at,
         locking, entering, registering, unlisting, keeping_alive, stopping, joining, detaching,
         launching, awaiting_checkpoint, going, awaiting_exit, killing,
         closing_others
  <2>2. thread' = thread \/ \E t \in {left(r, c), <<>>, manager_close} : Moves(r, t)
    BY <1>t, <1>2, PerformMoves DEF Goes, Ends
  <2> QED
    BY <2>1, <2>2, ThreadsKept, ScriptsLeft, ThreadsMove
<1>3. CASE Keepalive \/ WorkerProcess \/ Elsewhere \/ UNCHANGED demoVars
  BY <1>3, OutsideMoves, ThreadsKept
<1> QED
  BY <1>1, <1>2, <1>3 DEF DemoNext, Threads, run_thread

-----------------------------------------------------------------------------
\* Registered nodes stay registered.
LEMMA BegunStays ==
  ASSUME TypeOK, CheckpointsHeld, [Next]_vars, Begun
  PROVE  Begun'
  BY ExpiredStaysExpired DEF Begun

\* A handler that begins is the one that begins the demonstration, or one of a session that
\* is listed, or one that forgets it.
LEMMA ManagerBegin ==
  ASSUME ThreadsInv, ManagerInv, NEW r \in Task, NEW t, Moves(r, t), todo(r) = <<>>,
         UNCHANGED <<vars, manager, attached, listed, aborted>>,
         \/ Opens(t) /\ registered = {Root} /\ \A q \in Task : todo(q) = <<>>
         \/ Transits(t) /\ (listed \/ ~makes(t, "detach"))
  PROVE  ManagerInv'
<1>b. Begun' <=> Begun
  BY DEF Begun, vars, tables
<1>p. /\ \A kind : pending(r, kind)' <=> makes(t, kind)
      /\ \A q \in Task \ {r} : /\ \A kind : pending(q, kind)' <=> pending(q, kind)
                               /\ Starting(q)' <=> Starting(q)
                               /\ Stopping(q)' <=> Stopping(q)
  BY PendingMoves
<1>n. \A q \in Task : todo(q) = <<>> => \A kind : ~pending(q, kind)
  BY NothingLeft DEF pending, makes
<1>i. ~Starting(r) /\ ~Stopping(r)
  BY <1>n DEF Starting, Stopping
<1>1. ManagerShape' /\ (manager'.running \/ attached' \/ listed' => Begun')
      /\ (manager'.running /\ ~manager'.stop => attached')
  BY <1>b DEF ManagerInv, ManagerShape
<1>2. ~listed' /\ manager'.running /\ ~manager'.stop =>
        aborted' \/ \E q \in Task : Starting(q)' \/ Stopping(q)'
  BY <1>i, <1>p DEF ManagerInv
<1>3. ASSUME NEW q \in Task PROVE HandlerInv(q)'
  <2>1. CASE Opens(t) /\ registered = {Root} /\ \A s \in Task : todo(s) = <<>>
    <3>1. ~Begun
      BY <2>1 DEF Begun, registered
    <3>2. ~manager.running /\ ~attached /\ ~listed
      BY <3>1 DEF ManagerInv
    <3>3. \A s \in Task \ {r} : \A kind : ~pending(s, kind)'
      BY <1>n, <1>p, <2>1
    <3>4. /\ ~pending(r, "detach")' /\ ~pending(r, "unlist")'
          /\ pending(r, "keep_alive")' => pending(r, "register")' /\ pending(r, "spawn")'
          /\ pending(r, "register")' => pending(r, "spawn")'
      BY <1>p, <2>1 DEF Opens
    <3> QED
      BY <3>2, <3>3, <3>4 DEF HandlerInv
  <2>2. CASE Transits(t) /\ (listed \/ ~makes(t, "detach"))
    <3>1. /\ ~pending(r, "keep_alive")' /\ ~pending(r, "register")'
          /\ pending(r, "detach")' => pending(r, "join")' /\ listed
          /\ pending(r, "unlist")' => pending(r, "stop")'
      BY <1>p, <2>2 DEF Transits
    <3>2. HandlerInv(q)
      BY DEF ManagerInv
    <3>3. CASE q = r
      BY <3>1, <3>3 DEF HandlerInv
    <3>4. CASE q # r
      BY <1>b, <1>p, <3>1, <3>2, <3>4 DEF HandlerInv
    <3> QED
      BY <3>3, <3>4
  <2> QED
    BY <2>1, <2>2
<1> QED
  BY <1>1, <1>2, <1>3 DEF ManagerInv

\* Calls of other kinds.
LEMMA ManagerOther ==
  ASSUME TypeOK, CheckpointsHeld, [Next]_vars, ThreadsInv, ManagerInv,
         NEW r \in Task, NEW c \in calls(r), perform(r, c), c.do \notin ManagerKinds
  PROVE  ManagerInv'
<1>s. ThreadShape /\ Script(todo(r), all(todo(r)))
  BY DEF ThreadsInv
<1>1. /\ UNCHANGED <<manager, attached, listed>>
      /\ thread' = thread \/ Goes(r, c) \/ Raises(r, c) \/ Ends(r)
      /\ c.do = "phase" => Goes(r, c)
      /\ c.do \in {"launch", "await_waiting"} => Goes(r, c) \/ Raises(r, c)
      /\ c.do \in {"earlier", "kill"} => Goes(r, c) \/ (Ends(r) /\ aborted')
      /\ aborted => aborted'
  BY <1>s, OtherCalls
<1>b. Begun => Begun'
  BY BegunStays
<1>t. CASE thread' = thread
  <2>1. \A q \in Task : /\ \A kind : pending(q, kind)' <=> pending(q, kind)
                        /\ Starting(q)' <=> Starting(q)
                        /\ Stopping(q)' <=> Stopping(q)
    BY <1>t DEF pending, Starting, Stopping, todo, makes, all
  <2>2. ASSUME NEW q \in Task PROVE HandlerInv(q)'
    BY <1>1, <1>b, <2>1 DEF ManagerInv, HandlerInv
  <2> QED
    BY <1>1, <1>b, <2>1, <2>2 DEF ManagerInv, ManagerShape
<1>m. ASSUME NEW t, Moves(r, t),
             \A kind \in {"keep_alive", "register", "detach", "unlist"} : makes(t, kind) => pending(r, kind),
             makes(t, "keep_alive") => makes(t, "register"),
             makes(t, "keep_alive") \/ makes(t, "register") => makes(t, "spawn") \/ Begun',
             makes(t, "detach") => makes(t, "join") \/ ~manager.running \/ ~attached,
             makes(t, "unlist") => makes(t, "stop"),
             Starting(r) \/ Stopping(r) => Starting(r)' \/ Stopping(r)' \/ aborted'
      PROVE  ManagerInv'
  <2>p. /\ \A kind : pending(r, kind)' <=> makes(t, kind)
        /\ \A q \in Task \ {r} : /\ \A kind : pending(q, kind)' <=> pending(q, kind)
                                 /\ Starting(q)' <=> Starting(q)
                                 /\ Stopping(q)' <=> Stopping(q)
    BY <1>m, PendingMoves
  <2>1. \A q \in Task : \A kind \in {"keep_alive", "register", "detach", "unlist"} :
          pending(q, kind)' => pending(q, kind)
    BY <1>m, <2>p
  <2>2. ASSUME NEW q \in Task PROVE HandlerInv(q)'
    <3>1. HandlerInv(q)
      BY DEF ManagerInv
    <3>2. CASE q = r
      BY <1>1, <1>m, <2>p, <2>1, <3>1, <3>2 DEF HandlerInv
    <3>3. CASE q # r
      BY <1>1, <1>b, <2>p, <2>1, <3>1, <3>3 DEF HandlerInv
    <3> QED
      BY <3>2, <3>3
  <2>3. ~listed' /\ manager'.running /\ ~manager'.stop =>
        aborted' \/ \E q \in Task : Starting(q)' \/ Stopping(q)'
    BY <1>1, <1>m, <2>p DEF ManagerInv
  <2> QED
    BY <1>1, <1>b, <2>2, <2>3 DEF ManagerInv, ManagerShape
<1>2. CASE Goes(r, c)
  <2> DEFINE t == left(r, c)
  <2>1. /\ all(t) \subseteq all(todo(r)) /\ all(todo(r)) \ {c} \subseteq all(t)
        /\ c \in all(todo(r))
    BY <1>s, GoesOn
  <2>2. Moves(r, t)
    BY <1>2 DEF Goes
  <2> HIDE DEF t
  <2>3. \A kind : makes(t, kind) => pending(r, kind)
    BY <2>1 DEF makes, pending
  <2>4. \A kind : kind # c.do /\ pending(r, kind) => makes(t, kind)
    BY <2>1 DEF makes, pending
  <2>5. HandlerInv(r)
    BY DEF ManagerInv
  <2>6. c.do \notin {"register", "join", "stop"}
    BY DEF ManagerKinds
  <2>7. makes(t, "keep_alive") \/ makes(t, "register") => makes(t, "spawn") \/ Begun'
    <3>1. CASE c.do # "spawn"
      BY <1>b, <2>3, <2>4, <2>5, <3>1 DEF HandlerInv
    <3>2. CASE c.do = "spawn" /\ service(r, c)
      <4>1. create_spawn(parent_of(c.node), c.node, c.arg)
        BY <3>2 DEF service
      <4>2. c.node \in fresh /\ status' = [status EXCEPT ![c.node] = "PENDING"]
        BY <4>1 DEF create_spawn, _create_spawn_locked
      <4>3. CASE c.node # Root
        BY <4>2, <4>3 DEF fresh, Begun, TypeOK
      <4>4. CASE c.node = Root
        \* The root is registered from the start; a spawn below it needs its credential.
        <5>1. parent_of(c.node) = Root
          BY <4>4, DemoAssumption DEF parent_of
        <5>2. node_allowed(Root)
          BY <4>1, <5>1 DEF create_spawn
        <5>3. status[Root] \in LiveStatus
          BY <5>2 DEF node_allowed, validate_node_runtime_state
        <5>4. status[Root] = "NONE"
          BY <4>2, <4>4 DEF fresh, registered
        <5> QED
          BY <5>3, <5>4 DEF LiveStatus
      <4> QED
        BY <4>3, <4>4
    <3>3. CASE c.do = "spawn" /\ ~service(r, c)
      <4>1. failure(r, c)
        BY <1>2, <3>3 DEF perform, execution, checkpointing, expectation, looked_at, locking,
             entering, registering, unlisting, keeping_alive, stopping, joining, detaching,
             launching, awaiting_checkpoint, going, awaiting_exit, killing,
         closing_others
      <4>2. Ends(r)
        BY <1>s, <3>3, <4>1, LeaveMoves DEF failure, raise, Ends
      <4>3. t = <<>>
        BY <2>2, <4>2 DEF Ends, Moves
      <4> QED
        BY <4>3, NothingLeft DEF makes
    <3> QED
      BY <3>1, <3>2, <3>3
  <2>8. Starting(r) \/ Stopping(r) => Starting(r)' \/ Stopping(r)'
    <3>1. /\ Starting(r)' <=> makes(t, "register") /\
               \A d \in all(t) : d.do \in {"launch", "await_waiting", "phase", "register"}
          /\ Stopping(r)' <=> makes(t, "stop") /\ \A d \in all(t) : d.do \in ClosingKinds
      BY <2>2, PendingMoves
    <3>2. Starting(r) => Starting(r)'
      BY <2>1, <2>4, <2>6, <3>1 DEF Starting
    <3>3. Stopping(r) => Stopping(r)'
      BY <2>1, <2>4, <2>6, <3>1 DEF Stopping
    <3> QED
      BY <3>2, <3>3
  <2> QED
    BY <1>m, <2>2, <2>3, <2>4, <2>5, <2>6, <2>7, <2>8 DEF HandlerInv
<1>3. CASE Raises(r, c) /\ c.do \in {"launch", "await_waiting"}
  <2>1. Moves(r, manager_close)
    BY <1>3 DEF Raises
  <2>2. /\ \A kind \in {"keep_alive", "register", "detach", "unlist"} : ~makes(manager_close, kind)
        /\ makes(manager_close, "stop")
        /\ \A d \in all(manager_close) : d.do \in {"stop", "join"}
    <3>1. \A d \in all(manager_close) : d.do \in {"stop", "join"}
      BY CloseTransits
    <3> QED
      BY <3>1, CloseTransits DEF makes
  <2>3. Stopping(r)'
    BY <2>1, <2>2, PendingMoves DEF ClosingKinds
  <2> QED
    BY <1>m, <2>1, <2>2, <2>3
<1>4. CASE Ends(r) /\ (c.do \notin {"launch", "await_waiting", "phase", "earlier", "kill"} \/ aborted')
  <2>1. Moves(r, <<>>) /\ \A kind : ~makes(<<>>, kind)
    BY <1>4, NothingLeft DEF Ends, makes
  <2>2. c \in all(todo(r))
    BY <1>s, GoesOn
  <2>3. aborted' \/ (~Starting(r) /\ ~Stopping(r))
    BY <1>4, <2>2 DEF Starting, Stopping, ClosingKinds, ManagerKinds
  <2> QED
    BY <1>m, <2>1, <2>3
<1> QED
  BY <1>1, <1>t, <1>2, <1>3, <1>4 DEF Raises

\* Calls that start, stop, join or detach the thread, or list or forget the session.
LEMMA ManagerOwn ==
  ASSUME ThreadsInv, ManagerInv, NEW r \in Task, NEW c \in calls(r), perform(r, c),
         c.do \in ManagerKinds
  PROVE  ManagerInv'
<1>s. ThreadShape /\ ManagerShape /\ Script(todo(r), all(todo(r)))
  BY DEF ThreadsInv, ManagerInv
<1>c. c \in all(todo(r))
  BY <1>s, GoesOn
<1>1. /\ ManagerShape' /\ (Begun' <=> Begun) /\ aborted' = aborted
      /\ manager'.running => manager.running \/ c.do = "keep_alive"
  <2>1. ManagerShape' /\ UNCHANGED vars /\ aborted' = aborted
    BY <1>s, ManagerCalls
  <2>2. Begun' <=> Begun
    BY <2>1 DEF Begun, vars, tables
  <2>3. c.do # "keep_alive" => manager' = manager \/ manager'.running = manager.running
    BY <1>s, ManagerCalls DEF ManagerKinds
  <2> QED
    BY <2>1, <2>2, <2>3
<1>k. pending(r, c.do)
  BY <1>c DEF pending, makes
<1>h. \A q \in Task : HandlerInv(q)
  BY DEF ManagerInv
<1>2. CASE Goes(r, c)
  <2> DEFINE t == left(r, c)
  <2>1. /\ all(t) \subseteq all(todo(r)) /\ all(todo(r)) \ {c} \subseteq all(t)
        /\ \A d \in all(t) : MayFollow(c.do, d.do)
    BY <1>s, GoesOn
  <2>2. Moves(r, t)
    BY <1>2 DEF Goes
  <2> HIDE DEF t
  <2>3. /\ \A kind : pending(r, kind)' => pending(r, kind)
        /\ \A kind : kind # c.do /\ pending(r, kind) => pending(r, kind)'
        /\ \A kind : pending(r, kind)' => MayFollow(c.do, kind)
        /\ \A q \in Task \ {r} : /\ \A kind : pending(q, kind)' <=> pending(q, kind)
                                 /\ Starting(q)' <=> Starting(q)
                                 /\ Stopping(q)' <=> Stopping(q)
    <3>1. /\ \A kind : makes(t, kind) => pending(r, kind)
          /\ \A kind : kind # c.do /\ pending(r, kind) => makes(t, kind)
          /\ \A kind : makes(t, kind) => MayFollow(c.do, kind)
      BY <2>1 DEF makes, pending
    <3>2. /\ \A kind : pending(r, kind)' <=> makes(t, kind)
          /\ \A q \in Task \ {r} : /\ \A kind : pending(q, kind)' <=> pending(q, kind)
                                   /\ Starting(q)' <=> Starting(q)
                                   /\ Stopping(q)' <=> Stopping(q)
      BY <2>2, PendingMoves
    <3> QED
      BY <3>1, <3>2
  <2>4. /\ Starting(r)' <=> pending(r, "register")' /\
             \A d \in all(t) : d.do \in {"launch", "await_waiting", "phase", "register"}
        /\ Stopping(r)' <=> pending(r, "stop")' /\ \A d \in all(t) : d.do \in ClosingKinds
    BY <2>2, PendingMoves
  <2>5. CASE c.do = "keep_alive"
    <3>1. /\ attached' /\ listed' = listed /\ manager'.running /\ manager'.stop = manager.stop
      BY <1>s, <2>5, ManagerCalls
    <3>2. \A kind : pending(r, kind)' => kind \in {"launch", "await_waiting", "phase", "register"}
      BY <2>3, <2>5 DEF MayFollow
    <3>3. Begun
      <4>1. ~pending(r, "spawn")
        BY <2>3, <2>5, <3>2
      <4> QED
        BY <1>h, <1>k, <2>5, <4>1 DEF HandlerInv
    <3>4. ASSUME NEW q \in Task PROVE HandlerInv(q)'
      <4>1. CASE q = r
        BY <1>1, <3>2, <3>3, <4>1 DEF HandlerInv
      <4>2. CASE q # r
        BY <1>1, <1>h, <1>k, <2>3, <2>5, <3>3, <4>2 DEF HandlerInv
      <4> QED
        BY <4>1, <4>2
    <3>5. Starting(r)'
      <4>1. pending(r, "register")'
        BY <1>h, <1>k, <2>3, <2>5 DEF HandlerInv
      <4>2. \A d \in all(t) : d.do \in {"launch", "await_waiting", "phase", "register"}
        BY <2>1, <2>5 DEF MayFollow
      <4> QED
        BY <2>4, <4>1, <4>2
    <3> QED
      BY <1>1, <3>1, <3>3, <3>4, <3>5 DEF ManagerInv
  <2>6. CASE c.do = "stop"
    <3>1. /\ UNCHANGED <<attached, listed>> /\ manager'.running = manager.running
          /\ manager'.stop <=> manager.stop \/ attached
      BY <1>s, <2>6, ManagerCalls
    <3>2. ~(manager'.running /\ ~manager'.stop)
      BY <3>1 DEF ManagerInv
    <3>3. ~pending(r, "unlist")'
      BY <2>3, <2>6 DEF MayFollow
    <3>4. ASSUME NEW q \in Task PROVE HandlerInv(q)'
      <4>1. CASE q = r
        BY <1>1, <1>h, <2>3, <2>6, <3>1, <3>3, <4>1 DEF HandlerInv
      <4>2. CASE q # r
        BY <1>1, <1>h, <2>3, <3>1, <4>2 DEF HandlerInv
      <4> QED
        BY <4>1, <4>2
    <3> QED
      BY <1>1, <3>1, <3>2, <3>4 DEF ManagerInv
  <2>7. CASE c.do = "join"
    <3>1. UNCHANGED <<manager, attached, listed>>
      BY <1>s, <2>7, ManagerCalls
    <3>2. ~(attached /\ manager.running) \/ Ends(r)
      BY <1>s, <2>7, ManagerCalls
    <3>3. Ends(r) => \A kind : ~pending(r, kind)'
      BY PendingMoves, NothingLeft DEF Ends, makes
    <3>4. ASSUME NEW q \in Task PROVE HandlerInv(q)'
      <4>1. CASE q = r
        BY <1>1, <1>h, <2>3, <2>7, <3>1, <3>2, <3>3, <4>1 DEF HandlerInv
      <4>2. CASE q # r
        BY <1>1, <1>h, <2>3, <3>1, <4>2 DEF HandlerInv
      <4> QED
        BY <4>1, <4>2
    <3>5. ~Starting(r) /\ ~Stopping(r)
      BY <1>c, <2>3, <2>7 DEF Starting, Stopping, MayFollow
    <3>6. ~listed' /\ manager'.running /\ ~manager'.stop =>
        aborted' \/ \E q \in Task : Starting(q)' \/ Stopping(q)'
      BY <1>1, <2>3, <3>1, <3>5 DEF ManagerInv
    <3> QED
      BY <1>1, <3>1, <3>4, <3>6 DEF ManagerInv
  <2>8. CASE c.do = "detach"
    <3>1. ~attached' /\ UNCHANGED <<manager, listed>>
      BY <1>s, <2>8, ManagerCalls
    <3>2. ~pending(r, "join")
      BY <2>3, <2>8 DEF MayFollow
    <3>3. ~(manager'.running /\ ~manager'.stop)
      BY <1>h, <1>k, <2>8, <3>1, <3>2 DEF ManagerInv, HandlerInv
    <3>4. ASSUME NEW q \in Task PROVE HandlerInv(q)'
      <4>1. CASE q = r
        BY <1>1, <1>h, <2>3, <2>8, <3>1, <4>1 DEF HandlerInv
      <4>2. CASE q # r
        BY <1>1, <1>h, <1>k, <2>3, <2>8, <3>1, <4>2 DEF HandlerInv
      <4> QED
        BY <4>1, <4>2
    <3> QED
      BY <1>1, <3>1, <3>3, <3>4 DEF ManagerInv
  <2>9. CASE c.do = "register"
    <3>1. listed' /\ UNCHANGED <<manager, attached>>
      BY <1>s, <2>9, ManagerCalls
    <3>2. \A kind : ~pending(r, kind)'
      BY <2>3, <2>9 DEF MayFollow
    <3>3. Begun
      <4>1. ~pending(r, "spawn")
        BY <2>3, <2>9, <3>2
      <4> QED
        BY <1>h, <1>k, <2>9, <4>1 DEF HandlerInv
    <3>4. ASSUME NEW q \in Task PROVE HandlerInv(q)'
      <4>1. CASE q = r
        BY <3>2, <4>1 DEF HandlerInv
      <4>2. CASE q # r
        BY <1>1, <1>h, <1>k, <2>3, <2>9, <3>1, <3>3, <4>2 DEF HandlerInv
      <4> QED
        BY <4>1, <4>2
    <3> QED
      BY <1>1, <3>1, <3>3, <3>4 DEF ManagerInv
  <2>10. CASE c.do = "unlist"
    <3>1. ~listed' /\ UNCHANGED <<manager, attached>>
      BY <1>s, <2>10, ManagerCalls
    <3>2. \A kind : pending(r, kind)' => kind \in ClosingKinds
      BY <2>3, <2>10 DEF MayFollow
    <3>3. Stopping(r)'
      <4>1. pending(r, "stop")'
        BY <1>h, <1>k, <2>3, <2>10 DEF HandlerInv
      <4>2. \A d \in all(t) : d.do \in ClosingKinds
        BY <2>1, <2>10 DEF MayFollow
      <4> QED
        BY <2>4, <4>1, <4>2
    <3>4. ASSUME NEW q \in Task PROVE HandlerInv(q)'
      <4>1. CASE q = r
        BY <3>2, <4>1 DEF HandlerInv, ClosingKinds
      <4>2. CASE q # r
        BY <1>1, <1>h, <2>3, <3>1, <4>2 DEF HandlerInv
      <4> QED
        BY <4>1, <4>2
    <3> QED
      BY <1>1, <3>1, <3>3, <3>4 DEF ManagerInv
  <2> QED
    BY <2>5, <2>6, <2>7, <2>8, <2>9, <2>10 DEF ManagerKinds
<1>3. CASE Ends(r) /\ c.do \in {"join", "unlist"}
  <2>1. /\ \A kind : ~pending(r, kind)'
        /\ \A q \in Task \ {r} : /\ \A kind : pending(q, kind)' <=> pending(q, kind)
                                 /\ Starting(q)' <=> Starting(q)
                                 /\ Stopping(q)' <=> Stopping(q)
    BY <1>3, PendingMoves, NothingLeft DEF Ends, makes
  <2>2. UNCHANGED <<manager, attached>>
    BY <1>s, <1>3, ManagerCalls
  <2>3. ~Starting(r) /\ ~Stopping(r)
    <3>1. ~Starting(r)
      BY <1>c, <1>3 DEF Starting
    <3>2. CASE c.do = "unlist"
      BY <1>c, <3>1, <3>2 DEF Stopping, ClosingKinds
    <3>3. CASE c.do = "join"
      <4>1. ~pending(r, "stop")
        <5>1. /\ all(todo(r)) \ {c} \subseteq all(left(r, c))
              /\ \A d \in all(left(r, c)) : MayFollow(c.do, d.do)
          BY <1>s, GoesOn
        <5> QED
          BY <3>3, <5>1 DEF pending, makes, MayFollow
      <4> QED
        BY <3>1, <4>1 DEF Stopping
    <3> QED
      BY <1>3, <3>2, <3>3
  <2>4. (listed' => listed) /\ (listed /\ ~listed' => Goes(r, c))
    BY <1>s, <1>3, ManagerCalls
  <2>5. CASE Goes(r, c)
    BY <1>2, <2>5
  <2>6. CASE ~Goes(r, c)
    <3>1. listed' <=> listed
      BY <2>4, <2>6
    <3>2. ASSUME NEW q \in Task PROVE HandlerInv(q)'
      <4>1. CASE q = r
        BY <2>1, <4>1 DEF HandlerInv
      <4>2. CASE q # r
        BY <1>1, <1>h, <2>1, <2>2, <3>1, <4>2 DEF HandlerInv
      <4> QED
        BY <4>1, <4>2
    <3>3. ~listed' /\ manager'.running /\ ~manager'.stop =>
        aborted' \/ \E q \in Task : Starting(q)' \/ Stopping(q)'
      BY <1>1, <2>1, <2>2, <2>3, <3>1 DEF ManagerInv
    <3> QED
      BY <1>1, <2>2, <3>1, <3>2, <3>3 DEF ManagerInv
  <2> QED
    BY <2>5, <2>6
<1>4. Goes(r, c) \/ (Ends(r) /\ c.do \in {"join", "unlist"})
  BY <1>s, ManagerCalls DEF ManagerKinds
<1> QED
  BY <1>2, <1>3, <1>4

\* Every step keeps it.
LEMMA ManagerStep ==
  ASSUME TypeOK, CheckpointsHeld, [Next]_vars, ThreadsInv, ManagerInv, scenario \in Scenario,
         [DemoNext]_demoVars
  PROVE  ManagerInv'
<1>t. ThreadShape /\ ManagerShape
  BY DEF ThreadsInv, ManagerInv
<1>1. CASE Requests
  <2>1. PICK r \in Task : open(r) \/ transition(r) \/ finish(r) \/ shut_down(r)
    BY <1>1 DEF Requests
  <2>2. PICK t : /\ Moves(r, t) /\ todo(r) = <<>>
                 /\ UNCHANGED <<vars, manager, attached, listed, aborted>>
                 /\ \/ /\ Opens(t) /\ registered = {Root}
                       /\ \A q \in Task : todo(q) = <<>>
                    \/ Transits(t) /\ (listed \/ ~makes(t, "detach"))
    BY <1>t, <2>1, Begins
  <2> QED
    BY <2>2, ManagerBegin
<1>2. ASSUME NEW r \in Task, NEW c \in calls(r), perform(r, c) PROVE ManagerInv'
  BY <1>2, ManagerOther, ManagerOwn
<1>3. CASE Keepalive \/ WorkerProcess \/ Elsewhere \/ UNCHANGED demoVars
  <2>1. /\ UNCHANGED <<scenario, thread, phase, listed, attached, aborted>> /\ ManagerShape'
        /\ manager'.stop = manager.stop
        /\ manager'.running => manager.running
    BY <1>t, <1>3, OutsideMoves
  <2>2. Begun => Begun'
    BY BegunStays
  <2>3. \A q \in Task : /\ \A kind : pending(q, kind)' <=> pending(q, kind)
                        /\ Starting(q)' <=> Starting(q)
                        /\ Stopping(q)' <=> Stopping(q)
    BY <2>1 DEF pending, Starting, Stopping, todo, makes, all
  <2>4. ASSUME NEW q \in Task PROVE HandlerInv(q)'
    BY <2>1, <2>2, <2>3 DEF ManagerInv, HandlerInv
  <2> QED
    BY <2>1, <2>2, <2>3, <2>4 DEF ManagerInv
<1> QED
  BY <1>1, <1>2, <1>3 DEF DemoNext, Threads, run_thread

\* What is invariant of the tables, and of a demonstration over them.
TablesInv == FenceInv /\ TreeInv /\ ReplacementInv

DemoInv == TablesInv /\ scenario \in Scenario /\ ThreadsInv /\ ManagerInv

\* When nothing has begun no thread has anything to do.
LEMMA DemoInvInit == DemoInit => DemoInv /\ \A r \in Task : todo(r) = <<>>
<1> SUFFICES ASSUME DemoInit PROVE DemoInv /\ \A r \in Task : todo(r) = <<>>
  OBVIOUS
<1>1. TablesInv /\ scenario \in Scenario
  BY FenceInvInit, TreeInvInit, ReplacementInit DEF DemoInit, TablesInv
<1>2. ThreadShape /\ \A r \in Task : todo(r) = <<>>
  BY DEF DemoInit, ThreadShape, Idle, todo
<1>3. ThreadsInv
  BY <1>2, NothingLeft DEF ThreadsInv
<1>4. \A r \in Task : \A kind : ~pending(r, kind)
  BY <1>2, NothingLeft DEF pending, makes
<1>5. ManagerInv
  BY <1>4 DEF DemoInit, ManagerInv, ManagerShape, HandlerInv
<1> QED
  BY <1>1, <1>2, <1>3, <1>5 DEF DemoInv

\* Every step keeps the invariant, and is a step of the control plane.
LEMMA DemoInvStep ==
  ASSUME DemoInv, [DemoNext]_demoVars
  PROVE  DemoInv' /\ [Next]_vars /\ scenario' = scenario
<1>1. TypeOK /\ now # 0 /\ CheckpointsHeld
  BY DEF DemoInv, TablesInv, FenceInv, ReplacementInv
<1>2. [Next]_vars
  BY <1>1, DemoSteps DEF DemoInv
<1>3. TablesInv'
  BY <1>2, FenceInvStep, TreeInvStep, ReplacementStep DEF DemoInv, TablesInv
<1>4. ThreadsInv' /\ scenario' = scenario
  BY ThreadsStep DEF DemoInv, ManagerInv
<1>5. ManagerInv'
  BY <1>1, <1>2, ManagerStep DEF DemoInv
<1> QED
  BY <1>2, <1>3, <1>4, <1>5 DEF DemoInv

\* The demonstrations drive the control plane and nothing else: every behaviour of the
\* controller, its keepalive threads and its workers is, in the tables, a behaviour of
\* TraceFence, so every theorem about TraceFence holds of the demonstrations too.
THEOREM DemoDrivesControlPlane == DemoSpec => Spec
<1>1. DemoInit => Init
  BY DEF DemoInit
<1> QED
  BY <1>1, DemoInvInit, DemoInvStep, PTL DEF DemoSpec, Spec

\* The keepalive thread of an entry the controller has forgotten is asked to stop, whoever
\* forgot it and wherever the handlers that were running failed, unless reset or close()
\* raised between taking the entry out of its table and closing its manager.
THEOREM ForgottenManagerStopsHolds == DemoSpec => []ForgottenManagerStops
<1>1. DemoInv => ForgottenManagerStops
  <2> SUFFICES ASSUME DemoInv, ~listed, manager.running, ~manager.stop, ~aborted
               PROVE  \E r \in DOMAIN thread : thread[r] # Idle
    BY DEF ForgottenManagerStops
  <2>1. PICK r \in Task : Starting(r) \/ Stopping(r)
    BY DEF DemoInv, ManagerInv
  <2>2. todo(r) # <<>>
    BY <2>1, NothingLeft DEF Starting, Stopping, pending, makes
  <2>3. r \in DOMAIN thread
    BY DEF DemoInv, ThreadsInv, ThreadShape
  <2> QED
    BY <2>2, <2>3 DEF todo, Idle
<1> QED
  BY <1>1, DemoInvInit, DemoInvStep, PTL DEF DemoSpec

-----------------------------------------------------------------------------
(* The tables of the stale-supersession demonstration.                     *)

\* What stays of a command: who ordered what, and that its replacement completed.
Stays(new, row) ==
  /\ new.key = row.key /\ new.issuer = row.issuer /\ new.scope = row.scope
  /\ new.type = row.type /\ new.tool = row.tool
  /\ row.rstatus = "COMPLETED" /\ row.replacement # NoNode =>
       new.rstatus = "COMPLETED" /\ new.replacement # NoNode

CommandsStay ==
  /\ Len(commands') = Len(commands)
  /\ \A i \in 1 .. Len(commands) : Stays(commands'[i], commands[i])

\* A row of a command that is still open may change.
LEMMA OpenRowChanges ==
  ASSUME TypeOK, NEW c \in 1 .. Len(commands), NEW row \in CommandRow,
         commands' = [commands EXCEPT ![c] = row], Stays(row, commands[c])
  PROVE  CommandsStay
<1>1. commands \in Seq(CommandRow)
  BY DEF TypeOK
<1>2. /\ Len(commands') = Len(commands)
      /\ \A i \in 1 .. Len(commands) : commands'[i] = IF i = c THEN row ELSE commands[i]
  BY <1>1, ExceptSeq
<1>3. \A i \in 1 .. Len(commands) : Stays(commands[i], commands[i])
  BY DEF Stays
<1> QED
  BY <1>2, <1>3 DEF CommandsStay

\* A replacement's lifecycle never leaves COMPLETED.
LEMMA LifecycleStays ==
  ASSUME TypeOK, Agreement, NEW n \in Node, NEW rs \in ReplacementStatus, set_replacement(n, rs),
         replacement_is(n, "PENDING") \/ rs = "COMPLETED"
  PROVE  CommandsStay
<1>1. CASE reg[n].cause = 0
  BY <1>1 DEF set_replacement, CommandsStay, Stays
<1>2. CASE reg[n].cause # 0
  <2> DEFINE c == reg[n].cause
             row == [commands[c] EXCEPT !.rstatus = rs]
  <2>1. c \in 1 .. Len(commands) /\ commands \in Seq(CommandRow) /\ DOMAIN commands = 1 .. Len(commands)
    BY <1>2, LenProperties DEF Agreement, TypeOK
  <2>2. commands[c] \in CommandRow
    BY <2>1
  <2>3. commands' = [commands EXCEPT ![c] = row]
    BY <1>2 DEF set_replacement
  <2>4. replacement_is(n, "PENDING") => commands[c].rstatus = "PENDING"
    BY <1>2 DEF replacement_is
  <2>5. row \in CommandRow /\ Stays(row, commands[c])
    BY <2>2, <2>4 DEF CommandRow, Stays
  <2> HIDE DEF row, c
  <2> QED
    BY <2>1, <2>3, <2>5, OpenRowChanges
<1> QED
  BY <1>1, <1>2

\* The scanner ends lifecycles that were pending.
LEMMA ScanStays ==
  ASSUME TypeOK, NEW t, expire_stale_nodes(t)
  PROVE  CommandsStay
<1>1. /\ commands \in Seq(CommandRow) /\ Len(commands) \in Nat /\ DOMAIN commands = 1 .. Len(commands)
      /\ \A i \in 1 .. Len(commands) : commands[i] \in CommandRow
  BY LenProperties DEF TypeOK
<1> DEFINE new(c) == IF activation_expired(c, stale_nodes(t))
                     THEN [commands[c] EXCEPT !.rstatus = "ACTIVATION_EXPIRED"]
                     ELSE commands[c]
<1>2. commands' = [c \in 1 .. Len(commands) |-> new(c)]
  BY <1>1 DEF expire_stale_nodes
<1>3. ASSUME NEW c \in 1 .. Len(commands) PROVE new(c) \in CommandRow /\ Stays(new(c), commands[c])
  <2> DEFINE row == [commands[c] EXCEPT !.rstatus = "ACTIVATION_EXPIRED"]
  <2>1. /\ commands[c] \in CommandRow /\ Stays(commands[c], commands[c])
        /\ row \in CommandRow /\ (commands[c].rstatus = "PENDING" => Stays(row, commands[c]))
    BY <1>1 DEF CommandRow, ReplacementStatus, Stays
  <2>2. new(c) = IF activation_expired(c, stale_nodes(t)) THEN row ELSE commands[c]
    OBVIOUS
  <2>3. activation_expired(c, stale_nodes(t)) => commands[c].rstatus = "PENDING"
    BY DEF activation_expired
  <2> HIDE DEF row, new
  <2> QED
    BY <2>1, <2>2, <2>3
<1>6. \A c \in 1 .. Len(commands) : Stays(commands'[c], commands[c])
  BY <1>2, <1>3
<1> HIDE DEF new
<1>4. commands' \in [1 .. Len(commands) -> CommandRow]
  BY <1>2, <1>3
<1>5. Len(commands') = Len(commands)
  <2> DEFINE rows == commands'
  <2>1. rows \in [1 .. Len(commands) -> CommandRow]
    BY <1>4
  <2> HIDE DEF rows
  <2>2. rows \in Seq(CommandRow)
    BY <1>1, <2>1, FunctionIsSeq
  <2>3. Len(rows) \in Nat /\ DOMAIN rows = 1 .. Len(rows) /\ DOMAIN rows = 1 .. Len(commands)
    BY <2>1, <2>2, LenProperties
  <2> DEFINE m == Len(rows)
             k == Len(commands)
  <2>4. m \in Nat /\ k \in Nat /\ \A i \in Nat : i \in 1 .. m <=> i \in 1 .. k
    BY <1>1, <2>3
  <2> HIDE DEF m, k
  <2>5. m <= k /\ k <= m
    <3>1. (m # 0 => m \in 1 .. m) /\ (k # 0 => k \in 1 .. k)
      BY <2>4
    <3> QED
      BY <2>4, <3>1
  <2> QED
    BY <2>4, <2>5 DEF rows, m, k
<1> QED
  BY <1>5, <1>6 DEF CommandsStay

\* A replacement is created for a command whose replacement did not complete.
LEMMA ReplacementStays ==
  ASSUME TypeOK, NEW p, NEW child \in Node, NEW c \in 1 .. Len(commands),
         create_replacement(p, child, c)
  PROVE  CommandsStay
<1> DEFINE row == [commands[c] EXCEPT !.replacement = child, !.rstatus = "PENDING"]
<1>1. commands \in Seq(CommandRow) /\ DOMAIN commands = 1 .. Len(commands) /\ commands[c] \in CommandRow
  BY LenProperties DEF TypeOK
<1>2. row \in CommandRow
  BY <1>1 DEF CommandRow, ReplacementStatus
<1>3. commands' = [commands EXCEPT ![c] = row]
  BY <1>1 DEF create_replacement
<1>4. Stays(row, commands[c])
  BY <1>1 DEF create_replacement, replacement_open, CommandRow, Stays
<1> HIDE DEF row
<1> QED
  BY <1>2, <1>3, <1>4, OpenRowChanges

-----------------------------------------------------------------------------
\* What the demonstration does to the tables, step by step: it registers a node, the stale
\* one below the database's and the replacement for a command; it issues the correction;
\* it decides the action of the stale worker once released or of the replacement; or it
\* leaves what the phases are about alone.
RegisteredAs(child, p, caps, cause) ==
  /\ _create_spawn_locked(p, child, caps, cause)
  /\ child = Stale => p = Database
  /\ child = Replacement => cause # 0

Registering(child) ==
  /\ child \in fresh
  /\ \E p, caps, cause : RegisteredAs(child, p, caps, cause)
  /\ CommandsStay
  /\ UNCHANGED <<attempts, reason>>

Correcting ==
  /\ issue_command(Operator, correction_key, "CORRECT_SUBTREE", Database, reset_redis_pool, NoProposal)
  /\ UNCHANGED reason

Deciding(n, key, tool) ==
  /\ execute_allow(n, key, tool) \/ execute_deny_stale(n, key, tool) \/ execute_deny(n, key, tool)
  /\ reason' = [reason EXCEPT ![key] = denial_reason(n, tool)]

Unconcerned ==
  /\ UNCHANGED <<reg, scope, attempts, reason>>
  /\ CommandsStay

Deeds ==
  \/ \E child \in Node : Registering(child)
  \/ Correcting
  \/ worker.sent /\ Deciding(Stale, stale_key, restart_postgres)
  \/ Deciding(Replacement, recovery_key, reset_redis_pool)
  \/ Unconcerned

\* The services.
LEMMA ServiceDeeds ==
  ASSUME TypeOK, Agreement, NEW r, NEW c, service(r, c), Superseding(c), issued(correction_key) \subseteq DOMAIN commands
  PROVE  Deeds
<1>r. reason' = reason
  BY DEF service
<1>d. DOMAIN commands = 1 .. Len(commands)
  BY LenProperties DEF TypeOK
<1>1. ASSUME c.do = "spawn", create_spawn(parent_of(c.node), c.node, c.arg) PROVE Deeds
  <2>1. c.node \in fresh /\ c.node \in Node /\ c.node # Replacement
    BY <1>1 DEF create_spawn, fresh, Superseding
  <2>2. c.node = Stale => parent_of(c.node) = Database
    BY DEF parent_of
  <2>3. CommandsStay /\ UNCHANGED attempts
    BY <1>1 DEF create_spawn, CommandsStay, Stays
  <2>4. Registering(c.node)
    BY <1>1, <1>r, <2>1, <2>2, <2>3 DEF create_spawn, Registering, RegisteredAs
  <2> QED
    BY <2>1, <2>4 DEF Deeds
<1>2. ASSUME activate(c.node, now) PROVE Deeds
  <2>1. c.node \in Node /\ "ACTIVE" \in ReplacementStatus
    BY <1>2 DEF activate, registered, ReplacementStatus
  <2>2. CommandsStay
    BY <1>2, <2>1, LifecycleStays DEF activate
  <2> QED
    BY <1>2, <1>r, <2>2 DEF activate, Unconcerned, Deeds
<1>3. ASSUME c.do = "command", commanded(c.node, c.arg[1], c.arg[2]) PROVE Deeds
  <2>1. c.node = Database /\ c.arg[1] = correction_key /\ c.arg[2] = "CORRECT_SUBTREE"
    BY <1>3 DEF Superseding, correction, call
  <2>2. CASE UNCHANGED vars
    BY <1>r, <2>2 DEF vars, tables, Unconcerned, Deeds, CommandsStay, Stays
  <2>3. CASE ~UNCHANGED vars
    BY <1>r, <1>3, <2>1, <2>3 DEF commanded, Correcting, Deeds
  <2> QED
    BY <2>2, <2>3
<1>4. ASSUME replaced PROVE Deeds
  <2>1. ASSUME NEW i \in issued(correction_key), create_replacement(Root, Replacement, i) PROVE Deeds
    <3>1. i \in 1 .. Len(commands) /\ i # 0
      BY <1>d
    <3>2. Replacement \in Node /\ Replacement # Stale /\ Replacement \in fresh
      BY <2>1, DemoAssumption DEF create_replacement
    <3>3. CommandsStay
      BY <2>1, <3>1, <3>2, ReplacementStays
    <3>4. UNCHANGED attempts /\ _create_spawn_locked(Root, Replacement, capabilities_exact(i), i)
      BY <2>1 DEF create_replacement
    <3>5. Registering(Replacement)
      BY <1>r, <3>1, <3>2, <3>3, <3>4 DEF Registering, RegisteredAs
    <3> QED
      BY <3>2, <3>5 DEF Deeds
  <2>2. CASE UNCHANGED vars
    BY <1>r, <2>2 DEF vars, tables, Unconcerned, Deeds, CommandsStay, Stays
  <2> QED
    BY <1>4, <2>1, <2>2 DEF replaced
<1>5. ASSUME complete_node(c.node) PROVE Deeds
  <2>1. c.node \in Node /\ "COMPLETED" \in ReplacementStatus
    BY <1>5 DEF complete_node, tokens, ReplacementStatus
  <2>2. CommandsStay
    BY <1>5, <2>1, LifecycleStays DEF complete_node
  <2> QED
    BY <1>5, <1>r, <2>2 DEF complete_node, Unconcerned, Deeds
<1>6. ASSUME expire_stale_nodes(now) PROVE Deeds
  BY <1>6, <1>r, ScanStays DEF expire_stale_nodes, Unconcerned, Deeds
<1>7. CASE UNCHANGED vars
  BY <1>7, <1>r DEF vars, tables, Unconcerned, Deeds, CommandsStay, Stays
<1> QED
  BY <1>1, <1>2, <1>3, <1>4, <1>5, <1>6, <1>7 DEF service

\* Every step of the demonstration.
LEMMA DemoDeeds ==
  ASSUME TypeOK, Agreement, ThreadsInv, scenario = "stale-supersession", [DemoNext]_demoVars
  PROVE  Deeds
<1>u. UNCHANGED <<reg, scope, attempts, commands, reason>> => Deeds
  BY DEF Unconcerned, Deeds, CommandsStay, Stays
<1>1. CASE Requests
  BY <1>1, <1>u DEF Requests, open, transition, finish, shut_down, begin, vars, tables
<1>d. ASSUME NEW n, NEW key, NEW tool, decide(n, key, tool)
      PROVE  UNCHANGED <<vars, reason>> \/ Deciding(n, key, tool)
  BY <1>d DEF decide, Deciding
<1>2. ASSUME NEW r \in Task, NEW c \in calls(r), perform(r, c) PROVE Deeds
  <2>1. Superseding(c)
    BY GoesOn DEF ThreadsInv, Proper
  <2>2. CASE service(r, c)
    BY <2>1, <2>2, ServiceDeeds DEF issued
  <2>3. CASE execution(r, c)
    <3>1. decide(Replacement, recovery_key, reset_redis_pool)
      BY <2>1, <2>3 DEF execution, Superseding, recovery, action, call
    <3> QED
      BY <1>d, <1>u, <3>1 DEF Deeds, vars, tables
  <2>4. CASE checkpointing(r, c)
    BY <1>u, <2>4 DEF checkpointing, checkpoint, checkpoint_read, checkpoint_decide, checkpoint_write,
         tables
  <2>5. CASE failure(r, c)
    BY <1>u, <2>5 DEF failure, checkpoint_abandon, vars, tables
  <2>6. CASE \/ expectation(r, c) \/ looked_at(r, c) \/ locking(r, c) \/ entering(r, c)
             \/ registering(r, c) \/ unlisting(r, c) \/ keeping_alive(r, c) \/ stopping(r, c)
             \/ joining(r, c) \/ detaching(r, c) \/ launching(r, c) \/ awaiting_checkpoint(r, c)
             \/ going(r, c) \/ awaiting_exit(r, c) \/ killing(r, c)
             \/ closing_others(r, c)
    <3>1. UNCHANGED <<vars, reason>>
      BY <2>6 DEF expectation, looked_at, locking, entering, registering, unlisting, keeping_alive,
           stopping, joining, detaching, launching, awaiting_checkpoint, going, awaiting_exit, killing,
         closing_others
    <3> QED
      BY <1>u, <3>1 DEF vars, tables
  <2> QED
    BY <1>2, <2>2, <2>3, <2>4, <2>5, <2>6 DEF perform
<1>3. CASE Keepalive
  <2>1. reason' = reason
    BY <1>3 DEF Keepalive, beat, beaten, ended
  <2>2. CASE UNCHANGED vars
    BY <1>u, <2>1, <2>2 DEF vars, tables
  <2>3. ASSUME NEW n, \/ heartbeat_renewed(n, now) \/ heartbeat_expired(n, now)
                      \/ heartbeat_fenced(n, now)
        PROVE  Deeds
    BY <1>u, <2>1, <2>3 DEF heartbeat_renewed, heartbeat_expired, heartbeat_fenced
  <2> QED
    BY <1>3, <2>2, <2>3 DEF Keepalive, beat, beaten, ended
<1>4. CASE WorkerProcess
  <2>1. CASE worker_checkpoint
    BY <1>u, <2>1 DEF worker_checkpoint, checkpoint, checkpoint_read, checkpoint_decide, checkpoint_write,
         tables
  <2>2. CASE worker_action
    <3>1. worker.sent /\ (decide(Stale, stale_key, restart_postgres) \/ UNCHANGED <<vars, reason>>)
      BY <2>2 DEF worker_action
    <3> QED
      BY <1>d, <1>u, <3>1 DEF Deeds, vars, tables
  <2>3. CASE worker_released \/ worker_timeout
    BY <1>u, <2>3 DEF worker_released, worker_timeout, vars, tables
  <2> QED
    BY <1>4, <2>1, <2>2, <2>3 DEF WorkerProcess
<1>5. CASE Elsewhere
  <2>1. reason' = reason
    BY <1>5 DEF Elsewhere, demo
  <2>2. CASE expire_stale_nodes(now)
    BY <2>1, <2>2, ScanStays DEF expire_stale_nodes, Unconcerned, Deeds
  <2>3. CASE tick
    BY <1>u, <2>1, <2>3 DEF tick, tables
  <2> QED
    BY <1>5, <2>2, <2>3 DEF Elsewhere
<1>6. CASE UNCHANGED demoVars
  BY <1>6, <1>u DEF demoVars, demo, vars, tables
<1> QED
  BY <1>1, <1>2, <1>3, <1>4, <1>5, <1>6 DEF DemoNext, Threads, run_thread

-----------------------------------------------------------------------------
(* What the tables of that demonstration hold.                             *)

\* The only command is the operator's correction.
Journal ==
  /\ Len(commands) <= 1
  /\ \A i \in 1 .. Len(commands) :
       commands[i].key = correction_key /\ commands[i].issuer = Operator /\ commands[i].scope = Database
  /\ Corrected => scope[Database].status = "SUPERSEDED"

\* The stale worker and the replacement have one action each, and the first is denied.
StaleDenied(a) ==
  a.node = Stale /\ a.key = stale_key /\ a.tool = restart_postgres /\ a.decision = "DENY"
RecoveryAction(a) ==
  a.node = Replacement /\ a.key = recovery_key /\ a.tool = reset_redis_pool

Actions ==
  /\ \A a \in attempts : StaleDenied(a) \/ RecoveryAction(a)
  /\ \A a \in attempts : \A b \in attempts : a.node = b.node => a = b

\* The stale node is below the corrected one, and the replacement is one.
Roles ==
  /\ status[Stale] # "NONE" => reg[Stale].parent = Database
  /\ status[Replacement] # "NONE" => reg[Replacement].cause # 0

\* What the controller reads of an action tells what became of it.
Reasons ==
  /\ {stale_key, recovery_key} \subseteq DOMAIN reason
  /\ reason[stale_key] = "SCOPE_SUPERSEDED" => Blocked
  /\ reason[recovery_key] = "ALLOWED" => Recovered

StoryInv == Journal /\ Actions /\ Roles /\ Reasons

\* What once is true of them stays true.
StoryGoesOn ==
  /\ Corrected => Corrected'
  /\ Blocked => Blocked'
  /\ Recovered => Recovered'
  /\ Completed => Completed'

\* There is one command after the correction, and none before it.
LEMMA CorrectedIsOne ==
  ASSUME TypeOK, Journal
  PROVE  Len(commands) = IF Corrected THEN 1 ELSE 0
<1> DEFINE m == Len(commands)
<1>1. m \in Nat /\ m <= 1
  BY LenProperties DEF TypeOK, Journal
<1>2. Corrected <=> m # 0
  BY EmptySeq DEF TypeOK, Corrected
<1> HIDE DEF m
<1>3. m = 0 \/ m = 1
  BY <1>1
<1> QED
  BY <1>2, <1>3 DEF m

\* A node is registered by a step that changes a scope.
LEMMA NoneStays ==
  ASSUME TypeOK, FreshIsBlank, [Next]_vars, UNCHANGED scope, NEW n \in Node, status[n] = "NONE"
  PROVE  status'[n] = "NONE"
<1>1. ASSUME NEW p \in Node, NEW child \in Node, NEW caps, NEW cause, Registers(p, child, caps, cause)
      PROVE  FALSE
  <2>1. scope[child].status = "ABSENT" /\ child \in DOMAIN scope
    BY <1>1 DEF Registers, FreshIsBlank, TypeOK, Scope
  <2>2. scope'[child] = [version |-> 1, status |-> "ACTIVE"]
    BY <1>1, <2>1 DEF Registers, _create_spawn_locked
  <2> QED
    BY <2>1, <2>2
<1> QED
  BY <1>1, StepKinds DEF Issues, Commits, Quiet

\* The same commands, and the same actions.
LEMMA JournalStays ==
  ASSUME TypeOK, TypeOK', Journal, CommandsStay, Corrected => scope'[Database] = scope[Database]
  PROVE  Journal' /\ (Corrected => Corrected') /\ (Completed => Completed')
<1>1. Len(commands) = IF Corrected THEN 1 ELSE 0
  BY CorrectedIsOne
<1>2. Len(commands') = Len(commands)
  BY DEF CommandsStay
<1>3. Corrected' <=> Corrected
  <2>1. commands' \in Seq(CommandRow) /\ (commands' = <<>> <=> Len(commands') = 0)
    BY EmptySeq DEF TypeOK
  <2> QED
    BY <1>1, <1>2, <2>1 DEF Corrected
<1>4. \A i \in 1 .. Len(commands) : Stays(commands'[i], commands[i])
  BY DEF CommandsStay
<1>5. Journal'
  BY <1>2, <1>3, <1>4 DEF Journal, Stays
<1>6. Completed => Completed'
  BY <1>1, <1>3, <1>4 DEF Completed, Stays
<1> QED
  BY <1>3, <1>5, <1>6

\* A registration.
LEMMA StoryRegisters ==
  ASSUME TypeOK, FreshIsBlank, TypeOK', CommandsFence, StoryInv, NEW child \in Node, Registering(child)
  PROVE  StoryInv' /\ StoryGoesOn
<1>0. PICK p, caps, cause : RegisteredAs(child, p, caps, cause)
  BY DEF Registering
<1>1. /\ _create_spawn_locked(p, child, caps, cause)
      /\ child = Stale => p = Database
      /\ child = Replacement => cause # 0
  BY <1>0 DEF RegisteredAs
<1>2. /\ child \in fresh /\ UNCHANGED <<attempts, reason>> /\ CommandsStay
      /\ status[child] = "NONE"
  BY DEF Registering, fresh, registered
<1>3. Journal' /\ (Corrected => Corrected') /\ (Completed => Completed')
  <2>1. Corrected => scope'[Database] = scope[Database]
    <3>1. Corrected => child # Database
      <4>1. scope[child].status = "ABSENT"
        BY <1>2 DEF FreshIsBlank
      <4> QED
        BY <4>1 DEF StoryInv, Journal
    <3> QED
      BY <1>1, <3>1, DemoAssumption DEF _create_spawn_locked, TypeOK, Scope
  <2> QED
    BY <1>2, <2>1, JournalStays DEF StoryInv
<1>4. Actions' /\ Reasons' /\ (Blocked => Blocked') /\ (Recovered => Recovered')
  BY <1>2 DEF StoryInv, Actions, Reasons, Blocked, Recovered, StaleDenied, RecoveryAction
<1>5. Roles'
  <2>1. /\ \A n \in Node \ {child} : status'[n] = status[n] /\ reg'[n] = reg[n]
        /\ reg'[child].parent = p /\ reg'[child].cause = cause
    BY <1>1 DEF _create_spawn_locked, TypeOK
  <2>2. Stale \in Node /\ Replacement \in Node
    BY DemoAssumption
  <2> QED
    BY <1>1, <2>1, <2>2 DEF StoryInv, Roles
<1> QED
  BY <1>3, <1>4, <1>5 DEF StoryInv, StoryGoesOn

\* The correction.
LEMMA StoryCorrects ==
  ASSUME TypeOK, TypeOK', StoryInv, Correcting
  PROVE  StoryInv' /\ StoryGoesOn /\ Corrected'
<1> DEFINE row == command_row(Operator, correction_key, "CORRECT_SUBTREE", Database, reset_redis_pool, NoProposal)
<1>1. /\ UNCHANGED <<status, reg, attempts, reason>>
      /\ commands' = Append(commands, row)
      /\ invalidate_scope(Database, "CORRECT_SUBTREE")
      /\ new_request(Operator, correction_key)
  BY DEF Correcting, issue_command, target_scope
<1>2. row.key = correction_key /\ row.issuer = Operator /\ row.scope = Database
  BY DEF command_row, target_scope
<1> HIDE DEF row
<1>3. ~Corrected /\ Len(commands) = 0
  <2>1. Len(commands) = IF Corrected THEN 1 ELSE 0
    BY CorrectedIsOne DEF StoryInv
  <2>2. ~(1 \in DOMAIN commands /\ commands[1].key = correction_key /\ commands[1].issuer = Operator)
    BY <1>1 DEF new_request
  <2>3. DOMAIN commands = 1 .. Len(commands)
    BY LenProperties DEF TypeOK
  <2>4. ~Corrected
    BY <2>1, <2>2, <2>3 DEF StoryInv, Journal
  <2> QED
    BY <2>1, <2>4
<1>4. commands' = <<row>>
  <2>1. commands = <<>>
    BY <1>3 DEF Corrected
  <2> QED
    BY <1>1, <2>1
<1>5. Len(commands') = 1 /\ commands'[1] = row /\ commands' # <<>>
  BY <1>4
<1>6. scope'[Database].status = "SUPERSEDED"
  BY <1>1, DemoAssumption DEF invalidate_scope, TypeOK, Scope
<1>7. Journal' /\ Corrected'
  BY <1>2, <1>5, <1>6 DEF Journal, Corrected
<1>8. Actions' /\ Roles' /\ Reasons'
  BY <1>1 DEF StoryInv, Actions, Roles, Reasons, Blocked, Recovered, StaleDenied, RecoveryAction
<1>9. StoryGoesOn
  BY <1>1, <1>3, <1>7 DEF StoryGoesOn, Blocked, Recovered, Completed
<1> QED
  BY <1>7, <1>8, <1>9 DEF StoryInv

\* An attempt recorded for a node that had none.
LEMMA StoryRecords ==
  ASSUME TypeOK, TypeOK', StoryInv, NEW a,
         attempts' = attempts \cup {a}, UNCHANGED <<reg, scope, commands>>,
         \A n \in Node : status[n] = "NONE" => status'[n] = "NONE",
         \A b \in attempts : b.node # a.node,
         StaleDenied(a) \/ RecoveryAction(a),
         Reasons'
  PROVE  StoryInv' /\ StoryGoesOn
<1>1. Journal' /\ (Corrected => Corrected') /\ (Completed => Completed')
  BY DEF StoryInv, Journal, Corrected, Completed
<1>2. Actions'
  BY DEF StoryInv, Actions, StaleDenied, RecoveryAction
<1>3. Roles'
  BY DemoAssumption DEF StoryInv, Roles
<1>4. (Blocked => Blocked') /\ (Recovered => Recovered')
  BY DEF Blocked, Recovered
<1> QED
  BY <1>1, <1>2, <1>3, <1>4 DEF StoryInv, StoryGoesOn

\* What the gateway records.
LEMMA GatewayRecords ==
  ASSUME TypeOK, FreshIsBlank, NEW n, NEW key, NEW tool,
         execute_allow(n, key, tool) \/ execute_deny_stale(n, key, tool) \/ execute_deny(n, key, tool)
  PROVE  /\ n \in tokens
         /\ \A b \in attempts : b.node # n \/ b.key # key
         /\ UNCHANGED <<reg, scope, commands>>
         /\ \A m \in Node : status[m] = "NONE" => status'[m] = "NONE"
         /\ execute_allow(n, key, tool) => attempt(n, key, tool, "ALLOW", {})
         /\ ~execute_allow(n, key, tool) => \E matched : attempt(n, key, tool, "DENY", matched)
         /\ execute_deny_stale(n, key, tool) => attempt(n, key, tool, "DENY", commands_for_scope_mismatches(n))
<1>1. n \in tokens /\ status[n] # "NONE" /\ n \in Node
  BY DEF execute_allow, execute_deny_stale, execute_deny, admissible, tokens, FreshIsBlank
<1>2. UNCHANGED <<reg, scope, commands>> /\ \A b \in attempts : b.node # n \/ b.key # key
  BY DEF execute_allow, execute_deny_stale, execute_deny, admissible
<1>3. \A m \in Node : status[m] = "NONE" => status'[m] = "NONE"
  BY <1>1 DEF execute_allow, execute_deny_stale, execute_deny, TypeOK
<1>4. /\ execute_allow(n, key, tool) => attempt(n, key, tool, "ALLOW", {})
      /\ execute_deny_stale(n, key, tool) => attempt(n, key, tool, "DENY", commands_for_scope_mismatches(n))
      /\ execute_deny(n, key, tool) => attempt(n, key, tool, "DENY", {})
  BY DEF execute_allow, execute_deny_stale, execute_deny
<1> QED
  BY <1>1, <1>2, <1>3, <1>4

\* The action of the stale worker, released after the correction, is denied; if it is for
\* the scope, with the correction as the command that fenced it.
LEMMA StoryStale ==
  ASSUME FenceInv, TreeInv, TypeOK', StoryInv, Corrected,
         Deciding(Stale, stale_key, restart_postgres)
  PROVE  StoryInv' /\ StoryGoesOn
<1> DEFINE n == Stale
           key == stale_key
           tool == restart_postgres
<1>0. TypeOK /\ FreshIsBlank /\ n \in Node /\ key \in DOMAIN reason /\ key # recovery_key
  BY DemoAssumption DEF FenceInv, StoryInv, Reasons
<1>1. /\ n \in tokens
      /\ \A b \in attempts : b.node # n \/ b.key # key
      /\ UNCHANGED <<reg, scope, commands>>
      /\ \A m \in Node : status[m] = "NONE" => status'[m] = "NONE"
      /\ ~execute_allow(n, key, tool) => \E matched : attempt(n, key, tool, "DENY", matched)
      /\ execute_deny_stale(n, key, tool) => attempt(n, key, tool, "DENY", commands_for_scope_mismatches(n))
  BY <1>0, GatewayRecords DEF Deciding
<1>2. Database \in snapshot_scopes(n)
  <2>1. reg[n].parent = Database
    BY <1>0, <1>1 DEF StoryInv, Roles, FreshIsBlank, tokens
  <2>2. Database # NoNode
    BY RegistryAssumption, DemoAssumption
  <2> QED
    BY <1>0, <2>1, <2>2 DEF TreeInv, ParentsDelegate
<1>3. ~scopes_allowed(n)
  <2>1. PICK e \in reg[n].snapshot : e.scope = Database
    BY <1>2 DEF snapshot_scopes
  <2>2. scope[Database].status = "SUPERSEDED"
    BY DEF StoryInv, Journal
  <2> QED
    BY <2>1, <2>2 DEF scopes_allowed, mismatches
<1>4. ~execute_allow(n, key, tool)
  BY <1>3 DEF execute_allow, node_allowed, validate_node_runtime_state
<1>5. 1 \in commands_for_scope_mismatches(n)
  <2>1. Len(commands) = 1
    BY <1>0, CorrectedIsOne DEF StoryInv
  <2>2. 1 \in FencingBefore(n, Len(commands))
    BY <1>2, <2>1 DEF FencingBefore, StoryInv, Journal
  <2> QED
    BY <2>2, MismatchesShowAll
<1>6. PICK matched : /\ attempt(n, key, tool, "DENY", matched)
                     /\ execute_deny_stale(n, key, tool) => matched # {}
  BY <1>1, <1>4, <1>5
<1> DEFINE a == [node |-> n, key |-> key, tool |-> tool, decision |-> "DENY", matched |-> matched,
                 place |-> Len(commands)]
<1>7. attempts' = attempts \cup {a}
  BY <1>6 DEF attempt
<1>8. a.node = n /\ StaleDenied(a) /\ a.matched = matched
  BY DEF StaleDenied
<1> HIDE DEF a
<1>9. \A b \in attempts : b.node # a.node
  BY <1>1, <1>8, DemoAssumption DEF StoryInv, Actions, StaleDenied, RecoveryAction
<1>10. /\ reason'[key] = denial_reason(n, tool) /\ reason'[recovery_key] = reason[recovery_key]
       /\ DOMAIN reason' = DOMAIN reason
  BY <1>0 DEF Deciding, StoryInv, Reasons
<1>11. denial_reason(n, tool) = "SCOPE_SUPERSEDED" => execute_deny_stale(n, key, tool)
  <2> DEFINE found == validate_node_runtime_state(n, status[n], lease[n])
  <2>1. found \in {"RUN_NOT_ACTIVE", "NODE_NOT_ACTIVE", "LEASE_EXPIRED", "SCOPE_INVALID", "ALLOWED"}
    BY DEF validate_node_runtime_state
  <2>2. denial_reason(n, tool) = "SCOPE_SUPERSEDED" => found = "SCOPE_INVALID"
    <3> HIDE DEF found
    <3>1. denial_reason(n, tool) = IF found = "SCOPE_INVALID"
            THEN IF effective_status(n) = "SUPERSEDED" THEN "SCOPE_SUPERSEDED" ELSE "SCOPE_CANCELLED"
            ELSE IF found # "ALLOWED" THEN found
            ELSE IF ~recovery_contract_allows(n, tool) THEN "RECOVERY_TOOL_MISMATCH"
            ELSE IF tool \notin reg[n].caps THEN "TOOL_NOT_ALLOWED" ELSE "ALLOWED"
      BY DEF denial_reason, found
    <3> QED
      BY <2>1, <3>1
  <2>3. found = "SCOPE_INVALID" => ~execute_deny(n, key, tool)
    BY DEF execute_deny
  <2> QED
    BY <1>4, <2>2, <2>3 DEF Deciding
<1>12. Reasons'
  <2>1. reason'[key] = "SCOPE_SUPERSEDED" => Blocked'
    BY <1>6, <1>7, <1>8, <1>10, <1>11 DEF Blocked, StaleDenied
  <2>2. Recovered => Recovered'
    BY <1>7 DEF Recovered
  <2> QED
    BY <1>10, <2>1, <2>2 DEF StoryInv, Reasons
<1> QED
  BY <1>0, <1>1, <1>7, <1>8, <1>9, <1>12, StoryRecords

\* The action of the replacement.
LEMMA StoryRecovers ==
  ASSUME FenceInv, TypeOK', StoryInv, Deciding(Replacement, recovery_key, reset_redis_pool)
  PROVE  StoryInv' /\ StoryGoesOn
<1> DEFINE n == Replacement
           key == recovery_key
           tool == reset_redis_pool
<1>0. TypeOK /\ FreshIsBlank /\ n \in Node /\ key \in DOMAIN reason /\ key # stale_key
  BY DemoAssumption DEF FenceInv, StoryInv, Reasons
<1>1. /\ \A b \in attempts : b.node # n \/ b.key # key
      /\ UNCHANGED <<reg, scope, commands>>
      /\ \A m \in Node : status[m] = "NONE" => status'[m] = "NONE"
      /\ execute_allow(n, key, tool) => attempt(n, key, tool, "ALLOW", {})
      /\ ~execute_allow(n, key, tool) => \E matched : attempt(n, key, tool, "DENY", matched)
  BY <1>0, GatewayRecords DEF Deciding
<1>2. PICK decision, matched : /\ attempt(n, key, tool, decision, matched)
                               /\ execute_allow(n, key, tool) => decision = "ALLOW"
  BY <1>1
<1> DEFINE a == [node |-> n, key |-> key, tool |-> tool, decision |-> decision, matched |-> matched,
                 place |-> Len(commands)]
<1>3. attempts' = attempts \cup {a}
  BY <1>2 DEF attempt
<1>4. a.node = n /\ RecoveryAction(a) /\ a.decision = decision
  BY DEF RecoveryAction
<1> HIDE DEF a
<1>5. \A b \in attempts : b.node # a.node
  BY <1>1, <1>4, DemoAssumption DEF StoryInv, Actions, StaleDenied, RecoveryAction
<1>6. /\ reason'[key] = denial_reason(n, tool) /\ reason'[stale_key] = reason[stale_key]
      /\ DOMAIN reason' = DOMAIN reason
  BY <1>0 DEF Deciding, StoryInv, Reasons
<1>7. denial_reason(n, tool) = "ALLOWED" => execute_allow(n, key, tool)
  <2> DEFINE found == validate_node_runtime_state(n, status[n], lease[n])
  <2>1. denial_reason(n, tool) = "ALLOWED" =>
          found = "ALLOWED" /\ recovery_contract_allows(n, tool) /\ tool \in reg[n].caps
    <3> HIDE DEF found
    <3>1. denial_reason(n, tool) = IF found = "SCOPE_INVALID"
            THEN IF effective_status(n) = "SUPERSEDED" THEN "SCOPE_SUPERSEDED" ELSE "SCOPE_CANCELLED"
            ELSE IF found # "ALLOWED" THEN found
            ELSE IF ~recovery_contract_allows(n, tool) THEN "RECOVERY_TOOL_MISMATCH"
            ELSE IF tool \notin reg[n].caps THEN "TOOL_NOT_ALLOWED" ELSE "ALLOWED"
      BY DEF denial_reason, found
    <3> QED
      BY <3>1
  <2>2. found = "ALLOWED" => ~execute_deny_stale(n, key, tool) /\ node_allowed(n)
    BY DEF execute_deny_stale, node_allowed
  <2>3. node_allowed(n) /\ recovery_contract_allows(n, tool) /\ tool \in reg[n].caps =>
          ~execute_deny(n, key, tool)
    BY DEF execute_deny
  <2> QED
    BY <2>1, <2>2, <2>3 DEF Deciding
<1>8. Reasons'
  <2>1. reason'[key] = "ALLOWED" => Recovered'
    BY <1>2, <1>3, <1>4, <1>6, <1>7 DEF Recovered, RecoveryAction
  <2>2. Blocked => Blocked'
    BY <1>3 DEF Blocked
  <2> QED
    BY <1>6, <2>1, <2>2 DEF StoryInv, Reasons
<1> QED
  BY <1>0, <1>1, <1>3, <1>4, <1>5, <1>8, StoryRecords

\* Whatever the demonstration does.
LEMMA StoryStep ==
  ASSUME FenceInv, TreeInv, TypeOK', [Next]_vars, StoryInv, worker.sent => Corrected, Deeds
  PROVE  StoryInv' /\ StoryGoesOn
<1>0. TypeOK /\ FreshIsBlank /\ CommandsFence
  BY DEF FenceInv
<1>1. ASSUME NEW child \in Node, Registering(child) PROVE StoryInv' /\ StoryGoesOn
  BY <1>0, <1>1, StoryRegisters
<1>2. CASE Correcting
  BY <1>0, <1>2, StoryCorrects
<1>3. CASE worker.sent /\ Deciding(Stale, stale_key, restart_postgres)
  BY <1>3, StoryStale
<1>4. CASE Deciding(Replacement, recovery_key, reset_redis_pool)
  BY <1>4, StoryRecovers
<1>5. CASE Unconcerned
  <2>1. Journal' /\ (Corrected => Corrected') /\ (Completed => Completed')
    BY <1>0, <1>5, JournalStays DEF Unconcerned, StoryInv
  <2>2. Actions' /\ Reasons' /\ (Blocked => Blocked') /\ (Recovered => Recovered')
    BY <1>5 DEF Unconcerned, StoryInv, Actions, Reasons, Blocked, Recovered, StaleDenied, RecoveryAction
  <2>3. Roles'
    <3>1. \A n \in {Stale, Replacement} : status[n] = "NONE" => status'[n] = "NONE"
      BY <1>0, <1>5, NoneStays, DemoAssumption DEF Unconcerned
    <3> QED
      BY <1>5, <3>1 DEF Unconcerned, StoryInv, Roles
  <2> QED
    BY <2>1, <2>2, <2>3 DEF StoryInv, StoryGoesOn
<1> QED
  BY <1>1, <1>2, <1>3, <1>4, <1>5 DEF Deeds

-----------------------------------------------------------------------------
(* The phase of the stale-supersession demonstration.                      *)

\* The worker is only released, and only sends its action, after the correction.
Signals ==
  /\ {"go", "sent"} \subseteq DOMAIN worker
  /\ worker.go \/ worker.sent => Corrected

\* What each phase says has happened.
PhaseFacts ==
  /\ phase = "SUPERSEDED" => Corrected
  /\ phase = "STALE_DENIED" => Corrected /\ Blocked
  /\ phase \in {"RECOVERY_COMMITTED", "PROOF_AVAILABLE"} =>
       Corrected /\ Blocked /\ Recovered /\ Completed

PhaseInv ==
  scenario = "stale-supersession" =>
    /\ StoryInv /\ Signals /\ PhaseFacts
    /\ \A r \in Task : Promises(all(todo(r)))

\* What is true once a call that a phase relies on has returned.
Done(c) ==
  /\ c = correction => Corrected'
  /\ c.do = "lock" => phase = c.arg
  /\ c = denied_call => Blocked'
  /\ c = committed_call => Recovered'
  /\ c = complete_call => Completed'

\* complete() of a replacement completes the command it recovers from.
LEMMA CompletionCompletes ==
  ASSUME TypeOK, Agreement, StoryInv, complete_node(Replacement)
  PROVE  Completed'
<1> DEFINE rows == commands
           k == reg[Replacement].cause
<1>1. Replacement \in Node /\ Replacement # NoNode
  BY DemoAssumption, RegistryAssumption
<1>2. status[Replacement] # "NONE"
  BY <1>1 DEF complete_node, node_allowed, validate_node_runtime_state, LiveStatus
<1>3. k # 0 /\ k \in 0 .. Len(commands)
  BY <1>1, <1>2 DEF StoryInv, Roles, Agreement
<1>4. Len(commands) = IF Corrected THEN 1 ELSE 0
  BY CorrectedIsOne DEF StoryInv
<1>5. k = 1 /\ Corrected /\ Len(commands) = 1
  <2> HIDE DEF k
  <2> QED
    BY <1>3, <1>4
<1>6. rows \in Seq(CommandRow) /\ 1 \in 1 .. Len(rows) /\ rows[1] \in CommandRow
  <2>1. rows \in Seq(CommandRow) /\ Len(rows) = 1
    BY <1>5 DEF TypeOK
  <2> HIDE DEF rows
  <2>2. 1 \in 1 .. Len(rows)
    BY <2>1
  <2> QED
    BY <2>1, <2>2, ElementOfSeq
<1> DEFINE row == [rows[1] EXCEPT !.rstatus = "COMPLETED"]
<1>7. row \in CommandRow /\ row.rstatus = "COMPLETED" /\ row.replacement = rows[1].replacement
  BY <1>6 DEF CommandRow, ReplacementStatus
<1>8. rows[1].replacement = Replacement
  BY <1>5 DEF complete_node, replacement_is
<1>9. commands' = [rows EXCEPT ![1] = row]
  BY <1>5 DEF complete_node, set_replacement
<1>10. commands'[1] = row /\ Len(commands') = 1 /\ commands' \in Seq(CommandRow)
  <2>1. Len(rows) = 1
    BY <1>5
  <2>2. rows \in Seq(CommandRow) /\ 1 \in 1 .. Len(rows) /\ row \in CommandRow
    BY <1>6, <1>7
  <2> HIDE DEF row, rows, k
  <2> DEFINE new == [rows EXCEPT ![1] = row]
  <2>3. /\ new \in Seq(CommandRow) /\ Len(new) = Len(rows)
        /\ \A j \in 1 .. Len(rows) : new[j] = IF j = 1 THEN row ELSE rows[j]
    BY <2>2, ExceptSeq
  <2>4. commands' = new
    BY <1>9
  <2> HIDE DEF new
  <2> QED
    BY <2>1, <2>2, <2>3, <2>4
<1>11. commands' # <<>>
  <2>1. Len(<<>>) = 0
    OBVIOUS
  <2>2. Len(commands') # 0
    BY <1>10
  <2> QED
    BY <2>1, <2>2, Zenon
<1> QED
  BY <1>1, <1>7, <1>8, <1>10, <1>11 DEF Completed, Corrected

\* A command was there, or has been issued.
LEMMA CommandCorrects ==
  ASSUME TypeOK, StoryInv, TypeOK', commanded(Database, correction_key, "CORRECT_SUBTREE")
  PROVE  Corrected'
<1>1. CASE issued(correction_key) # {} /\ UNCHANGED vars
  <2>1. PICK i \in DOMAIN commands : TRUE
    BY <1>1 DEF issued
  <2> DEFINE m == Len(commands)
  <2>2. i \in 1 .. m /\ m \in Nat /\ m = IF Corrected THEN 1 ELSE 0
    BY LenProperties, CorrectedIsOne DEF TypeOK, StoryInv
  <2> HIDE DEF m
  <2>3. Corrected
    BY <2>2
  <2> QED
    BY <1>1, <2>3 DEF Corrected, vars, tables
<1>2. ASSUME NEW row, commands' = Append(commands, row) PROVE Corrected'
  <2> DEFINE rows == commands
             S == CommandRow \cup {row}
  <2>1. rows \in Seq(CommandRow) /\ CommandRow \subseteq S /\ row \in S
    BY DEF TypeOK
  <2>2. commands' = Append(rows, row)
    BY <1>2
  <2> HIDE DEF rows, S
  <2>3. rows \in Seq(S)
    BY <2>1, SeqMonotonic
  <2>4. commands' # <<>>
    BY <2>1, <2>2, <2>3, AppendProperties
  <2> QED
    BY <2>4 DEF Corrected
<1> QED
  BY <1>1, <1>2 DEF commanded, issue_command

\* A call returns with what it promises done, or ends the handler, or is not over yet.
LEMMA PerformDone ==
  ASSUME TypeOK, Agreement, StoryInv, TypeOK', StoryInv', ThreadShape, ManagerShape,
         NEW r \in Task, NEW c \in calls(r), perform(r, c)
  PROVE  \/ thread' = thread \/ Ends(r) \/ Moves(r, manager_close)
         \/ Goes(r, c) /\ Done(c)
<1> DEFINE Goal ==
         \/ thread' = thread \/ Ends(r) \/ Moves(r, manager_close)
         \/ Goes(r, c) /\ Done(c)
<1>k. /\ correction.do = "command" /\ denied_call.do = "denied" /\ committed_call.do = "committed"
      /\ complete_call.do = "complete"
  BY DEF correction, denied_call, committed_call, complete_call, call
<1>1. CASE c.do \notin {"command", "lock", "denied", "committed", "complete"}
  <2>1. Done(c)
    BY <1>1, <1>k DEF Done
  <2> QED
    BY <2>1, PerformMoves
<1>2. CASE c.do = "lock"
  <2>1. locking(r, c)
    BY <1>2 DEF perform, service, execution, checkpointing, failure, expectation, looked_at,
         entering, registering, unlisting, keeping_alive, stopping, joining, detaching, launching,
         awaiting_checkpoint, going, awaiting_exit, killing,
         closing_others
  <2>2. CASE phase = c.arg
    <3>1. Goes(r, c)
      BY <2>1, <2>2, TodoMoves DEF locking, Goes
    <3>2. Done(c)
      BY <1>2, <1>k, <2>2 DEF Done
    <3> QED
      BY <3>1, <3>2
  <2>3. CASE phase # c.arg
    BY <2>1, <2>3, CallMoves DEF locking
  <2> QED
    BY <2>2, <2>3
<1>3. CASE c.do \in {"denied", "committed"}
  <2>1. looked_at(r, c)
    BY <1>3 DEF perform, service, execution, checkpointing, failure, expectation, locking,
         entering, registering, unlisting, keeping_alive, stopping, joining, detaching, launching,
         awaiting_checkpoint, going, awaiting_exit, killing,
         closing_others
  <2>2. CASE raise(r, c)
    BY <1>3, <2>2, CallMoves DEF Raises
  <2>3. CASE ~raise(r, c)
    <3>1. proceed(r, c) /\ reason[c.arg] = IF c.do = "denied" THEN "SCOPE_SUPERSEDED" ELSE "ALLOWED"
      BY <1>3, <2>1, <2>3 DEF looked_at
    <3>2. reason' = reason
      BY <2>1 DEF looked_at
    <3>3. /\ c = denied_call => reason'[stale_key] = "SCOPE_SUPERSEDED"
          /\ c = committed_call => reason'[recovery_key] = "ALLOWED"
      BY <3>1, <3>2 DEF denied_call, committed_call, call
    <3>4. Done(c)
      BY <1>3, <1>k, <3>3 DEF Done, StoryInv, Reasons
    <3> QED
      BY <3>1, <3>4, CallMoves
  <2> QED
    BY <2>2, <2>3
<1>4. CASE c.do \in {"command", "complete"}
  <2>1. service(r, c) \/ failure(r, c)
    BY <1>4 DEF perform, execution, checkpointing, expectation, looked_at, locking,
         entering, registering, unlisting, keeping_alive, stopping, joining, detaching, launching,
         awaiting_checkpoint, going, awaiting_exit, killing,
         closing_others
  <2>2. CASE failure(r, c)
    BY <1>4, <2>2, CallMoves DEF failure, Raises
  <2>3. CASE service(r, c)
    <3>1. Goes(r, c)
      BY <2>3, CallMoves DEF service
    <3>2. ASSUME c = correction PROVE Corrected'
      <4>1. c.do = "command" /\ c.node = Database /\ c.arg[1] = correction_key /\ c.arg[2] = "CORRECT_SUBTREE"
        BY <3>2 DEF correction, call
      <4>2. commanded(Database, correction_key, "CORRECT_SUBTREE")
        BY <2>3, <4>1 DEF service
      <4> QED
        BY <4>2, CommandCorrects
    <3>3. ASSUME c = complete_call PROVE Completed'
      <4>1. c.do = "complete" /\ c.node = Replacement
        BY <3>3 DEF complete_call, call
      <4>2. complete_node(Replacement)
        BY <2>3, <4>1 DEF service
      <4> QED
        BY <4>2, CompletionCompletes
    <3>4. Done(c)
      BY <1>4, <1>k, <3>2, <3>3 DEF Done
    <3> QED
      BY <3>1, <3>4
  <2> QED
    BY <2>1, <2>2, <2>3
<1> QED
  BY <1>1, <1>2, <1>3, <1>4

\* A handler that goes on keeps its promises: what it no longer has to do is done.
LEMMA PromisesKept ==
  ASSUME PhaseFacts, StoryGoesOn, NEW c, Done(c),
         NEW C, Promises(C), NEW D, D \subseteq C, C \ {c} \subseteq D
  PROVE  Promises(D)'
<1>1. \A p : c = locked(p) => phase = p
  BY DEF Done, locked, call
<1>2. \A d \in C : d # c => d \in D
  OBVIOUS
<1>3. /\ locked("SUPERSEDED") \in C => locked("SUPERSEDED") \in D \/ Corrected'
      /\ locked("STALE_DENIED") \in C => locked("STALE_DENIED") \in D \/ (Corrected' /\ Blocked')
      /\ locked("RECOVERY_COMMITTED") \in C =>
           locked("RECOVERY_COMMITTED") \in D \/ (Corrected' /\ Blocked' /\ Recovered' /\ Completed')
  BY <1>1, <1>2 DEF PhaseFacts, StoryGoesOn
<1>4. /\ correction \in C => correction \in D \/ Corrected'
      /\ denied_call \in C => denied_call \in D \/ Blocked'
      /\ committed_call \in C => committed_call \in D \/ Recovered'
      /\ complete_call \in C => complete_call \in D \/ Completed'
  BY <1>2 DEF Done
<1>5. /\ entered("SUPERSEDED") \in D => entered("SUPERSEDED") \in C
      /\ going_call \in D => going_call \in C
      /\ entered("STALE_DENIED") \in D => entered("STALE_DENIED") \in C
      /\ entered("RECOVERY_COMMITTED") \in D => entered("RECOVERY_COMMITTED") \in C
      /\ entered("PROOF_AVAILABLE") \in D => entered("PROOF_AVAILABLE") \in C
  OBVIOUS
<1> QED
  BY <1>3, <1>4, <1>5 DEF Promises, StoryGoesOn

\* What is true stays true, so promises kept elsewhere are kept.
LEMMA PromisesStay ==
  ASSUME StoryGoesOn, NEW C, Promises(C)
  PROVE  Promises(C)'
  BY DEF Promises, StoryGoesOn

\* A handler of which thread r is left with t, and the others.
LEMMA PromisesMove ==
  ASSUME StoryGoesOn, \A q \in Task : Promises(all(todo(q))),
         NEW r \in Task, NEW t, Moves(r, t), Promises(all(t))'
  PROVE  (\A q \in Task : Promises(all(todo(q))))'
<1>1. thread'[r].todo = t /\ \A q \in Task \ {r} : thread'[q].todo = thread[q].todo
  BY DEF Moves
<1>2. ASSUME NEW q \in Task PROVE Promises(all(todo(q)))'
  <2>1. CASE q = r
    BY <1>1, <2>1 DEF todo
  <2>2. CASE q # r
    <3>1. \A C : C = all(thread[q].todo) => Promises(C)'
      BY PromisesStay DEF todo
    <3> QED
      BY <1>1, <2>2, <3>1 DEF todo
  <2> QED
    BY <2>1, <2>2
<1> QED
  BY <1>2

\* Only the call that enters a phase changes it, and only the call that releases the worker
\* signals it.
LEMMA PerformSignals ==
  ASSUME {"go", "sent"} \subseteq DOMAIN worker, NEW r \in Task, NEW c \in calls(r), perform(r, c)
  PROVE  /\ phase' = IF c.do = "phase" THEN c.arg ELSE phase
         /\ {"go", "sent"} \subseteq DOMAIN worker' /\ worker'.sent = worker.sent
         /\ c.do # "go" => worker'.go = worker.go
<1>1. CASE entering(r, c)
  BY <1>1 DEF entering
<1>2. CASE going(r, c)
  BY <1>2 DEF going, session
<1>3. CASE launching(r, c) \/ awaiting_checkpoint(r, c) \/ killing(r, c)
  <2>1. phase' = phase /\ c.do \notin {"phase", "go"}
    BY <1>3 DEF launching, awaiting_checkpoint, killing, session
  <2>2. worker' = worker \/ \E s : worker' = [worker EXCEPT !.state = s]
    BY <1>3 DEF launching, awaiting_checkpoint, killing, perhaps_killed
  <2>3. DOMAIN worker' = DOMAIN worker /\ worker'.sent = worker.sent /\ worker'.go = worker.go
    BY <2>2
  <2> QED
    BY <2>1, <2>3
<1>4. CASE \/ service(r, c) \/ execution(r, c) \/ checkpointing(r, c) \/ failure(r, c)
           \/ expectation(r, c) \/ looked_at(r, c) \/ locking(r, c) \/ registering(r, c)
           \/ unlisting(r, c) \/ keeping_alive(r, c) \/ stopping(r, c) \/ joining(r, c)
           \/ detaching(r, c) \/ awaiting_exit(r, c) \/ closing_others(r, c)
  <2>1. UNCHANGED <<phase, worker>>
    BY <1>4 DEF service, execution, checkpointing, failure, expectation, looked_at, locking,
         registering, unlisting, keeping_alive, stopping, joining, detaching, awaiting_exit,
         closing_others, session
  <2>2. c.do # "phase"
    BY <1>4 DEF service, execution, checkpointing, failure, expectation, looked_at, locking,
         registering, unlisting, keeping_alive, stopping, joining, detaching, awaiting_exit,
         closing_others
  <2> QED
    BY <2>1, <2>2
<1> QED
  BY <1>1, <1>2, <1>3, <1>4 DEF perform

\* The worker acts on the release alone.
LEMMA OutsideSignals ==
  ASSUME {"go", "sent"} \subseteq DOMAIN worker,
         Keepalive \/ WorkerProcess \/ Elsewhere \/ UNCHANGED demoVars
  PROVE  /\ {"go", "sent"} \subseteq DOMAIN worker' /\ worker'.go = worker.go
         /\ worker'.sent => worker.sent \/ worker.go
<1>1. CASE Keepalive \/ Elsewhere \/ UNCHANGED demoVars
  <2>1. ASSUME Keepalive PROVE worker' = worker
    <3>1. beat \/ ended => worker' = worker
      BY DEF beat, ended
    <3>2. \A n : beaten(n) => worker' = worker
      BY DEF beaten
    <3> QED
      BY <2>1, <3>1, <3>2 DEF Keepalive
  <2>2. Elsewhere \/ UNCHANGED demoVars => worker' = worker
    BY DEF Elsewhere, demoVars, demo
  <2>3. worker' = worker
    BY <1>1, <2>1, <2>2
  <2> QED
    BY <2>3
<1>2. CASE worker_checkpoint \/ worker_timeout
  <2>1. worker' = worker \/ \E s : worker' = [worker EXCEPT !.state = s]
    BY <1>2 DEF worker_checkpoint, worker_timeout
  <2> QED
    BY <2>1
<1>3. CASE worker_released
  BY <1>3 DEF worker_released
<1>4. CASE worker_action
  <2>1. DOMAIN worker' = DOMAIN worker /\ worker'.go = worker.go /\ ~worker'.sent
    BY <1>4 DEF worker_action
  <2> QED
    BY <2>1
<1> QED
  BY <1>1, <1>2, <1>3, <1>4 DEF WorkerProcess

\* A handler enters a phase, or releases the worker, when nothing that this relies on is
\* still to be done: it cannot come after.
LEMMA CallsEstablished ==
  ASSUME scenario = "stale-supersession", ThreadsInv,
         NEW r \in Task, NEW c \in calls(r), Promises(all(todo(r)))
  PROVE  /\ c = entered("SUPERSEDED") => Corrected
         /\ c = going_call => Corrected
         /\ c = entered("STALE_DENIED") => Corrected /\ Blocked
         /\ c = entered("RECOVERY_COMMITTED") \/ c = entered("PROOF_AVAILABLE") =>
              Corrected /\ Blocked /\ Recovered /\ Completed
<1> DEFINE C == all(todo(r))
<1>1. c \in C /\ \A d \in C : d = c \/ MayFollow(c.do, d.do)
  BY GoesOn DEF ThreadsInv
<1>2. /\ correction.do = "command" /\ denied_call.do = "denied" /\ committed_call.do = "committed"
      /\ complete_call.do = "complete" /\ going_call.do = "go"
      /\ \A p : entered(p).do = "phase" /\ locked(p).do = "lock"
  BY DEF correction, denied_call, committed_call, complete_call, going_call, entered, locked, call
<1> HIDE DEF C
<1>3. ASSUME c.do = "phase"
      PROVE  \A d \in C : d.do \notin {"lock", "command", "denied", "committed", "complete"}
  BY <1>1, <1>3 DEF MayFollow, Establishing
<1>4. ASSUME c.do = "go" PROVE \A d \in C : d.do # "lock"
  BY <1>1, <1>4 DEF MayFollow
<1>5. Promises(C)
  BY DEF C
<1>6. ASSUME NEW p, c = entered(p)
      PROVE  /\ \A q : locked(q) \notin C
             /\ correction \notin C /\ denied_call \notin C /\ committed_call \notin C
             /\ complete_call \notin C
  BY <1>2, <1>3, <1>6
<1> QED
  BY <1>1, <1>2, <1>4, <1>5, <1>6 DEF Promises

\* One step of the demonstration.
LEMMA PhaseStep ==
  ASSUME DemoInv, DemoInv', [DemoNext]_demoVars, scenario = "stale-supersession",
         StoryInv, Signals, PhaseFacts, \A q \in Task : Promises(all(todo(q))),
         StoryInv', StoryGoesOn
  PROVE  Signals' /\ PhaseFacts' /\ (\A q \in Task : Promises(all(todo(q))))'
<1>t. /\ TypeOK /\ TypeOK' /\ Agreement /\ ThreadsInv /\ ThreadShape /\ ManagerShape
      /\ scenario \in Scenario /\ {"go", "sent"} \subseteq DOMAIN worker
  BY DEF DemoInv, TablesInv, FenceInv, ReplacementInv, ThreadsInv, ManagerInv, Signals
<1>p. phase' = phase => PhaseFacts'
  BY DEF PhaseFacts, StoryGoesOn
<1>s. thread' = thread => (\A q \in Task : Promises(all(todo(q))))'
  <2> SUFFICES ASSUME thread' = thread, NEW q \in Task PROVE Promises(all(todo(q)))'
    OBVIOUS
  <2>1. \A C : C = all(thread[q].todo) => Promises(C)'
    BY PromisesStay DEF todo
  <2> QED
    BY <2>1 DEF todo
<1>1. CASE Requests
  <2>1. PICK r \in Task : open(r) \/ transition(r) \/ finish(r) \/ shut_down(r)
    BY <1>1 DEF Requests
  <2>2. PICK t : Moves(r, t) /\ Handler(t) /\ UNCHANGED <<vars, phase, worker>>
    BY <1>t, <2>1, Begins
  <2>3. Promises(all(t))'
    BY <2>2, PromisesStay DEF Handler
  <2>4. (\A q \in Task : Promises(all(todo(q))))'
    BY <2>2, <2>3, PromisesMove
  <2> QED
    BY <1>p, <2>2, <2>4 DEF Signals, StoryGoesOn
<1>2. ASSUME NEW r \in Task, NEW c \in calls(r), perform(r, c)
      PROVE  Signals' /\ PhaseFacts' /\ (\A q \in Task : Promises(all(todo(q))))'
  <2>1. /\ phase' = IF c.do = "phase" THEN c.arg ELSE phase
        /\ {"go", "sent"} \subseteq DOMAIN worker' /\ worker'.sent = worker.sent
        /\ c.do # "go" => worker'.go = worker.go
    BY <1>t, <1>2, PerformSignals
  <2>2. Superseding(c)
    BY <1>t, GoesOn DEF ThreadsInv, Proper
  <2>3. /\ c = entered("SUPERSEDED") => Corrected
        /\ c = going_call => Corrected
        /\ c = entered("STALE_DENIED") => Corrected /\ Blocked
        /\ c = entered("RECOVERY_COMMITTED") \/ c = entered("PROOF_AVAILABLE") =>
             Corrected /\ Blocked /\ Recovered /\ Completed
    BY <1>t, CallsEstablished
  <2>4. Signals'
    BY <2>1, <2>2, <2>3 DEF Signals, StoryGoesOn, Superseding
  <2>5. PhaseFacts'
    <3>1. CASE c.do = "phase"
      <4>1. c = entered(phase')
        BY <2>1, <2>2, <3>1 DEF Superseding
      <4> QED
        BY <2>3, <4>1 DEF PhaseFacts, StoryGoesOn
    <3>2. CASE c.do # "phase"
      BY <1>p, <2>1, <3>2
    <3> QED
      BY <3>1, <3>2
  <2>6. (\A q \in Task : Promises(all(todo(q))))'
    <3>1. \/ thread' = thread \/ Ends(r) \/ Moves(r, manager_close)
          \/ Goes(r, c) /\ Done(c)
      BY <1>t, <1>2, PerformDone
    <3>2. CASE Ends(r)
      <4>1. Promises(all(<<>>))'
        BY NothingLeft DEF Promises
      <4> QED
        BY <3>2, <4>1, PromisesMove DEF Ends
    <3>3. CASE Moves(r, manager_close)
      <4>1. Promises(all(manager_close))
        BY CloseTransits DEF Transits, Handler
      <4> QED
        BY <3>3, <4>1, PromisesStay, PromisesMove
    <3>4. CASE Goes(r, c) /\ Done(c)
      <4> DEFINE t == left(r, c)
      <4>1. all(t) \subseteq all(todo(r)) /\ all(todo(r)) \ {c} \subseteq all(t)
        BY <1>t, GoesOn DEF ThreadsInv
      <4>2. \A u : u = t => Promises(all(u))'
        BY <3>4, <4>1, PromisesKept
      <4> QED
        BY <3>4, <4>2, PromisesMove DEF Goes
    <3> QED
      BY <1>s, <3>1, <3>2, <3>3, <3>4
  <2> QED
    BY <2>4, <2>5, <2>6
<1>3. CASE Keepalive \/ WorkerProcess \/ Elsewhere \/ UNCHANGED demoVars
  <2>1. UNCHANGED <<thread, phase>>
    BY <1>t, <1>3, OutsideMoves
  <2>2. Signals'
    BY <1>t, <1>3, OutsideSignals DEF Signals, StoryGoesOn
  <2> QED
    BY <1>p, <1>s, <2>1, <2>2
<1> QED
  BY <1>1, <1>2, <1>3 DEF DemoNext, Threads, run_thread

\* Nothing has happened yet, and nothing is said to have.
LEMMA PhaseInvInit == DemoInit => PhaseInv
<1> SUFFICES ASSUME DemoInit PROVE PhaseInv
  OBVIOUS
<1>1. /\ commands = <<>> /\ attempts = {} /\ phase = "NONE"
      /\ \A n \in Node \ {Root} : status[n] = "NONE"
      /\ reason = [key \in ActionKey |-> "NONE"]
      /\ worker = [state |-> "none", go |-> FALSE, sent |-> FALSE]
  BY DEF DemoInit, Init, create_run
<1>2. Journal
  <2>1. Len(commands) = 0
    BY <1>1
  <2> QED
    BY <1>1, <2>1 DEF Journal, Corrected
<1>3. Actions /\ Roles /\ Reasons
  BY <1>1, DemoAssumption DEF Actions, Roles, Reasons
<1>4. Signals /\ PhaseFacts
  BY <1>1 DEF Signals, PhaseFacts
<1>5. \A r \in Task : Promises(all(todo(r)))
  BY DemoInvInit, NothingLeft DEF Promises
<1> QED
  BY <1>2, <1>3, <1>4, <1>5 DEF PhaseInv, StoryInv

\* Every step keeps the phase true.
LEMMA PhaseInvStep ==
  ASSUME DemoInv, PhaseInv, [DemoNext]_demoVars
  PROVE  PhaseInv'
<1>1. DemoInv' /\ [Next]_vars /\ scenario' = scenario
  BY DemoInvStep
<1> SUFFICES ASSUME scenario = "stale-supersession"
             PROVE  /\ StoryInv' /\ Signals' /\ PhaseFacts'
                    /\ (\A r \in Task : Promises(all(todo(r))))'
  BY <1>1 DEF PhaseInv
<1>2. FenceInv /\ TreeInv /\ TypeOK /\ TypeOK' /\ Agreement /\ ThreadsInv
  BY <1>1 DEF DemoInv, TablesInv, FenceInv, ReplacementInv
<1>3. StoryInv /\ Signals /\ PhaseFacts /\ \A r \in Task : Promises(all(todo(r)))
  BY DEF PhaseInv
<1>4. Deeds
  BY <1>2, DemoDeeds
<1>5. StoryInv' /\ StoryGoesOn
  BY <1>1, <1>2, <1>3, <1>4, StoryStep DEF Signals
<1> QED
  BY <1>1, <1>3, <1>5, PhaseStep

\* What has happened is what a browser is told.
LEMMA PhaseInvTruthful == DemoInv /\ PhaseInv => PhaseTruthful
<1> SUFFICES ASSUME DemoInv, PhaseInv, scenario = "stale-supersession"
             PROVE  PhaseTruthful
  BY DEF PhaseTruthful
<1>1. TypeOK /\ StoryInv /\ PhaseFacts
  BY DEF DemoInv, TablesInv, FenceInv, PhaseInv
<1>2. effects(restart_postgres) = 0
  <2>1. {a \in attempts : a.tool = restart_postgres /\ a.decision = "ALLOW"} = {}
    BY <1>1, DemoAssumption DEF StoryInv, Actions, StaleDenied, RecoveryAction
  <2> QED
    BY <2>1, FS_EmptySet DEF effects
<1>3. Recovered => effects(reset_redis_pool) = 1
  <2> SUFFICES ASSUME Recovered PROVE effects(reset_redis_pool) = 1
    OBVIOUS
  <2>1. PICK b \in attempts : b.node = Replacement /\ b.decision = "ALLOW"
    BY DEF Recovered
  <2>2. \A a \in attempts : a.decision = "ALLOW" => a = b
    BY <1>1, <2>1 DEF StoryInv, Actions, StaleDenied, RecoveryAction
  <2>3. b.tool = reset_redis_pool
    BY <1>1, <2>1 DEF StoryInv, Actions, StaleDenied, RecoveryAction
  <2>4. {a \in attempts : a.tool = reset_redis_pool /\ a.decision = "ALLOW"} = {b}
    BY <2>1, <2>2, <2>3
  <2> QED
    BY <2>4, FS_Singleton DEF effects
<1>4. Corrected => scope[Database].status = "SUPERSEDED"
  BY <1>1 DEF StoryInv, Journal
<1>5. Completed => \A i \in issued(correction_key) : commands[i].rstatus = "COMPLETED"
  <2> SUFFICES ASSUME Completed, NEW i \in issued(correction_key)
               PROVE  commands[i].rstatus = "COMPLETED"
    OBVIOUS
  <2> DEFINE m == Len(commands)
  <2>1. m \in Nat /\ m = 1 /\ i \in 1 .. m
    BY <1>1, CorrectedIsOne, LenProperties DEF issued, TypeOK, StoryInv, Completed
  <2> HIDE DEF m
  <2>2. i = 1
    BY <2>1
  <2> QED
    BY <2>2 DEF Completed
<1> QED
  BY <1>1, <1>2, <1>3, <1>4, <1>5 DEF PhaseTruthful, PhaseFacts, Blocked

\* The phase a browser is shown is true, however the handlers of the session, its keepalive
\* thread, its worker and the lease scanner are interleaved and whichever of their calls fail.
THEOREM PhaseTruthfulHolds == DemoSpec => []PhaseTruthful
<1>1. DemoInv /\ PhaseInv /\ [DemoNext]_demoVars => (DemoInv /\ PhaseInv)'
  BY DemoInvStep, PhaseInvStep
<1> QED
  BY <1>1, DemoInvInit, PhaseInvInit, PhaseInvTruthful, PTL DEF DemoSpec
=============================================================================
