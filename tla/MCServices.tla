----------------------------- MODULE MCServices -----------------------------
(* Small instances of Outbox and RequestPath for TLC.  The two share nothing:
   a behaviour takes steps of one of them, chosen at the start, and the other
   stays in its initial state, where none of its fair actions is enabled. *)
EXTENDS Outbox, RequestPath

VARIABLE part

MCVars == <<outboxVars, requestVars, part>>

\* Two clients, one of which also has an operator key.
MCChain == {<<"ip1">>, <<"ip2">>, <<"ip1", "operator">>}

\* The operator's bucket is the narrower one.
MCLimit == [key \in Key |-> IF key = "operator" THEN 1 ELSE 2]

MCInit == OutboxInit /\ RequestInit /\ part \in {"outbox", "requests"}

MCNext ==
  /\ UNCHANGED part
  /\ \/ part = "outbox" /\ OutboxNext /\ UNCHANGED requestVars
     \/ part = "requests" /\ RequestNext /\ UNCHANGED outboxVars

MCSpec == MCInit /\ [][MCNext]_MCVars /\ OutboxFairness /\ RequestFairness
=============================================================================
