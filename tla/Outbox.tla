------------------------------- MODULE Outbox -------------------------------
(***************************************************************************)
(* services/invariant_service.py: the auditor that persists a violation    *)
(* together with an outbox event, and the calls of deliver_pending that    *)
(* export the events outside the write lock.                               *)
(*                                                                         *)
(* Calls overlap, in one process (its deadline passes and the auditor      *)
(* calls again) or in two; a process stops between any two transactions.   *)
(* Expiry of a claim and of a retry delay are steps of their own: any of   *)
(* them may come first.  A batch of 100 takes every event of the model.    *)
(***************************************************************************)
EXTENDS Integers, FiniteSets

CONSTANTS
  Event,       \* the (command, action) pairs that the discovery finds
  Owner,       \* owner_id of an InvariantService: one for each start of a process
  Call,        \* calls of deliver_pending that may overlap
  NoOwner,     \* SQL NULL
  NoEvent      \* a call that is between two events

ASSUME OutboxAssumption == NoOwner \notin Owner /\ NoEvent \notin Event

VARIABLES
  outbox,      \* telemetry_outbox with invariant_violations
  running,     \* the owners whose process runs
  calls,       \* the calls of deliver_pending
  exported,    \* history: how often the event was emitted, counted up to 2
  flushed,     \* history: the events emitted before a flush that succeeded
  disturbed    \* history: the events whose claim lapsed, whose flush or acknowledgement
               \* failed, or whose deliverer stopped

outboxVars == <<outbox, running, calls, exported, flushed, disturbed>>

Row == [recorded: BOOLEAN, delivered: BOOLEAN, owner: Owner \cup {NoOwner},
        lapsed: BOOLEAN,     \* claim_expires_at has passed
        due: BOOLEAN]        \* next_attempt_at is NULL or has passed

\* A call: the claimed events it still has to look at, and the one it exports.
CallState == [owner: Owner \cup {NoOwner}, ids: SUBSET Event, row: Event \cup {NoEvent},
              step: {"next", "flush", "acknowledge", "fail"}]

Idle == [owner |-> NoOwner, ids |-> {}, row |-> NoEvent, step |-> "next"]

OutboxTypeOK ==
  /\ outbox \in [Event -> Row]
  /\ running \subseteq Owner
  /\ calls \in [Call -> CallState]
  /\ \A d \in Call : (calls[d].step = "next") <=> (calls[d].row = NoEvent)
  /\ \A e \in Event : outbox[e].lapsed => outbox[e].owner # NoOwner
  /\ exported \in [Event -> 0 .. 2]
  /\ flushed \subseteq Event /\ disturbed \subseteq Event

OutboxInit ==
  /\ outbox = [e \in Event |-> [recorded |-> FALSE, delivered |-> FALSE, owner |-> NoOwner,
                                lapsed |-> FALSE, due |-> TRUE]]
  /\ running = Owner
  /\ calls = [d \in Call |-> Idle]
  /\ exported = [e \in Event |-> 0]
  /\ flushed = {} /\ disturbed = {}

\* scan: the violation and its event in one transaction, unless they exist.
scan(e) ==
  /\ running # {}
  /\ ~outbox[e].recorded
  /\ outbox' = [outbox EXCEPT ![e].recorded = TRUE]
  /\ UNCHANGED <<running, calls, exported, flushed, disturbed>>

-----------------------------------------------------------------------------
pending(e) == outbox[e].recorded /\ ~outbox[e].delivered /\ outbox[e].due

\* Mutants: a claim is not respected; a claim never expires.
claimable_taken(e) == pending(e)
claimable_free(e) == pending(e) /\ outbox[e].owner = NoOwner

claimable(e) == pending(e) /\ (outbox[e].owner = NoOwner \/ outbox[e].lapsed)

\* deliver_pending while telemetry is READY; with nothing to claim it changes nothing.
_claim_pending(d, o) ==
  LET claimed == {e \in Event : claimable(e)} IN
  /\ calls[d] = Idle /\ o \in running
  /\ claimed # {}
  /\ outbox' = [e \in Event |-> IF e \in claimed
                                THEN [outbox[e] EXCEPT !.owner = o, !.lapsed = FALSE]
                                ELSE outbox[e]]
  /\ calls' = [calls EXCEPT ![d] = [Idle EXCEPT !.owner = o, !.ids = claimed]]
  /\ UNCHANGED <<running, exported, flushed, disturbed>>

\* Mutant: delivery and ownership are not read again.
still_claimed_unread(d, e) == TRUE

\* The row is undelivered and claimed by this owner: not necessarily by this call.
still_claimed(d, e) == ~outbox[e].delivered /\ outbox[e].owner = calls[d].owner

go(d, row, step) == calls' = [calls EXCEPT ![d].row = row, ![d].step = step]

\* The next event of the batch is dropped, or its metric and log are emitted.
deliver_next(d, e) ==
  /\ calls[d].step = "next" /\ e \in calls[d].ids
  /\ LET rest == calls[d].ids \ {e} IN
     IF still_claimed(d, e)
     THEN /\ calls' = [calls EXCEPT ![d].ids = rest, ![d].row = e, ![d].step = "flush"]
          /\ exported' = [exported EXCEPT ![e] = IF @ = 2 THEN 2 ELSE @ + 1]
     ELSE calls' = [calls EXCEPT ![d].ids = rest] /\ UNCHANGED exported
  /\ UNCHANGED <<outbox, running, flushed, disturbed>>

\* A flush exports what any call of the process emitted before it.
deliver_flush_ok(d) ==
  /\ calls[d].step = "flush"
  /\ go(d, calls[d].row, "acknowledge")
  /\ flushed' = flushed \cup {calls[d].row}
  /\ UNCHANGED <<outbox, running, exported, disturbed>>

\* Mutant: an event whose flush failed is acknowledged.
failed_step_acknowledged == "acknowledge"

failed_step == "fail"

deliver_flush_failed(d) ==
  /\ calls[d].step = "flush"
  /\ go(d, calls[d].row, failed_step)
  /\ disturbed' = disturbed \cup {calls[d].row}
  /\ UNCHANGED <<outbox, running, exported, flushed>>

\* Mutant: the claim is given back without its expiry.
released_owner(e) == [outbox[e] EXCEPT !.owner = NoOwner]

released(e) == [outbox[e] EXCEPT !.owner = NoOwner, !.lapsed = FALSE]

\* The closing transactions of an event: the claim goes with either.
settle(d, changed) ==
  LET e == calls[d].row IN
  /\ outbox' = IF still_claimed(d, e) THEN [outbox EXCEPT ![e] = changed] ELSE outbox
  /\ go(d, NoEvent, "next")
  /\ UNCHANGED <<running, exported, flushed, disturbed>>

deliver_acknowledge(d) ==
  /\ calls[d].step = "acknowledge"
  /\ settle(d, [released(calls[d].row) EXCEPT !.delivered = TRUE, !.due = TRUE])

\* Its transaction does not begin or does not commit: the write lock, the disk.  The event
\* was exported, and the except branch gives it back to be exported again.
deliver_acknowledge_failed(d) ==
  /\ calls[d].step = "acknowledge"
  /\ go(d, calls[d].row, "fail")
  /\ disturbed' = disturbed \cup {calls[d].row}
  /\ UNCHANGED <<outbox, running, exported, flushed>>

deliver_failed(d) ==
  /\ calls[d].step = "fail"
  /\ settle(d, [released(calls[d].row) EXCEPT !.due = FALSE])

deliver_return(d) ==
  /\ calls[d] # Idle /\ calls[d].step = "next" /\ calls[d].ids = {}
  /\ calls' = [calls EXCEPT ![d] = Idle]
  /\ UNCHANGED <<outbox, running, exported, flushed, disturbed>>

\* Reading the next row raises, or the transaction of the except branch does: the call ends
\* with claims that nobody works on any more.
deliver_raises(d) ==
  /\ calls[d].step = "fail" \/ (calls[d].step = "next" /\ calls[d].ids # {})
  /\ calls' = [calls EXCEPT ![d] = Idle]
  /\ UNCHANGED <<outbox, running, exported, flushed, disturbed>>

-----------------------------------------------------------------------------
claim_expires(e) ==
  /\ outbox[e].owner # NoOwner /\ ~outbox[e].lapsed
  /\ outbox' = [outbox EXCEPT ![e].lapsed = TRUE]
  /\ disturbed' = disturbed \cup {e}
  /\ UNCHANGED <<running, calls, exported, flushed>>

retry_due(e) ==
  /\ ~outbox[e].due
  /\ outbox' = [outbox EXCEPT ![e].due = TRUE]
  /\ UNCHANGED <<running, calls, exported, flushed, disturbed>>

\* A process stops for good: its calls are gone, its claims remain.
crash(o) ==
  LET of(d) == calls[d].owner = o
      interrupted == UNION {calls[d].ids \cup {calls[d].row} : d \in {c \in Call : of(c)}} IN
  /\ o \in running /\ running # {o}
  /\ running' = running \ {o}
  /\ calls' = [d \in Call |-> IF of(d) THEN Idle ELSE calls[d]]
  /\ disturbed' = disturbed \cup (interrupted \cap Event)
  /\ UNCHANGED <<outbox, exported, flushed>>

deliver_step(d) ==
  \/ \E e \in Event : deliver_next(d, e)
  \/ deliver_flush_ok(d)
  \/ deliver_flush_failed(d)
  \/ deliver_acknowledge(d)
  \/ deliver_acknowledge_failed(d)
  \/ deliver_failed(d)
  \/ deliver_raises(d)
  \/ deliver_return(d)

OutboxNext ==
  \/ \E e \in Event : scan(e) \/ claim_expires(e) \/ retry_due(e)
  \/ \E d \in Call : deliver_step(d) \/ (\E o \in Owner : _claim_pending(d, o))
  \/ \E o \in Owner : crash(o)

in_time(d, e) == calls[d].row = e /\ still_claimed(d, e)

\* The auditor of a running process keeps calling and time passes.  The exporter is not
\* broken for ever, nor are the reads and writes of the outbox, and neither the exporter
\* nor the other process outlasts every claim: of the steps that are possible again and
\* again while the claim holds, one is taken.
OutboxFairness ==
  /\ \A e \in Event :
       /\ WF_outboxVars(claim_expires(e)) /\ WF_outboxVars(retry_due(e))
       /\ SF_outboxVars(\E d \in Call : still_claimed(d, e) /\ deliver_next(d, e))
       /\ SF_outboxVars(\E d \in Call : in_time(d, e) /\ deliver_flush_ok(d))
       /\ SF_outboxVars(\E d \in Call : in_time(d, e) /\ deliver_acknowledge(d))
  /\ \A d \in Call : WF_outboxVars(deliver_step(d))
  /\ SF_outboxVars(\E d \in Call, o \in Owner : _claim_pending(d, o))

OutboxSpec == OutboxInit /\ [][OutboxNext]_outboxVars /\ OutboxFairness

-----------------------------------------------------------------------------
\* ARCHITECTURE.md section 11: at-least-once.  Whatever claims lapse and are taken over,
\* an event recorded as delivered was emitted before a flush that succeeded.
DeliveredWasFlushed == \A e \in Event : outbox[e].delivered => e \in flushed

\* tests/concurrency/test_invariant_outbox.py: two workers do not export one event twice.
\* For a second emission it takes a claim that lapsed, a flush that failed, a crash, or an
\* acknowledgement that could not be written after a flush that succeeded.
OneExportUnlessDisturbed == \A e \in Event : exported[e] > 1 => e \in disturbed

\* A call that comes too late does no harm: whatever it learned of its own flush, the
\* event that another call delivered stays delivered and is not claimed or retried again.
DeliveredIsFinal ==
  [][\A e \in Event : outbox[e].delivered => outbox'[e] = outbox[e]]_outboxVars

\* No violation stays silent: every event is delivered in the end, through crashes of
\* its deliverers and failures of the exporter.
EveryViolationDelivered ==
  \A e \in Event : outbox[e].recorded ~> outbox[e].delivered
=============================================================================
