---------------------------- MODULE LeaseService ----------------------------
(***************************************************************************)
(* services/lease_service.py: the supervised scanner that expires leases   *)
(* and activation intents.  It reads the clock before it waits for the     *)
(* write lock, and uses strict comparisons where the services use <=.      *)
(***************************************************************************)
EXTENDS Registry

\* Mutants: nodes waiting at a checkpoint are skipped; activation intents are skipped.
stale_active_nodes(t) ==
  {n \in Node : \/ status[n] = "ACTIVE" /\ lease[n] # 0 /\ lease[n] < t
                \/ status[n] = "PENDING" /\ n \notin tokens /\ reg[n].expires < t}

stale_leases(t) ==
  {n \in Node : status[n] \in LiveStatus /\ lease[n] # 0 /\ lease[n] < t}

\* The overdue nodes, and the pending ones whose intent expired unused.
stale_nodes(t) ==
  {n \in Node : \/ status[n] \in LiveStatus /\ lease[n] # 0 /\ lease[n] < t
                \/ status[n] = "PENDING" /\ n \notin tokens /\ reg[n].expires < t}

\* The command of a replacement in S that was never activated.
activation_expired(c, S) ==
  LET n == commands[c].replacement IN
  n \in S /\ reg[n].cause = c /\ commands[c].rstatus = "PENDING"

\* t is the clock read before the wait for the write lock.
expire_stale_nodes(t) ==
  LET stale == stale_nodes(t) IN
  /\ clock_read(1, t)
  /\ status' = [n \in Node |-> IF n \in stale THEN "LEASE_EXPIRED" ELSE status[n]]
  /\ commands' = [c \in DOMAIN commands |->
                    IF activation_expired(c, stale)
                    THEN [commands[c] EXCEPT !.rstatus = "ACTIVATION_EXPIRED"]
                    ELSE commands[c]]
  /\ run' = IF Root \in stale /\ run = "RUNNING" THEN "FAILED" ELSE run
  /\ acks' = acks \cup lease_expiry_acks(stale)
  /\ UNCHANGED <<now, reg, lease, token, scope, attempts, proposals, checkpoints>>
=============================================================================
