--------------------------- MODULE ServicesProofs ---------------------------
(***************************************************************************)
(* Theorems about the two services that MCServices checks side by side:    *)
(* the telemetry outbox, then the way of a request to a bounded service.   *)
(***************************************************************************)
EXTENDS Outbox, RequestPath, FiniteSetTheorems, SequenceTheorems, WellFoundedInduction, TLAPS

(***************************************************************************)
(* The outbox.                                                             *)
(***************************************************************************)

\* A delivered event has nothing left that a call, a claim or a timer could take up.
Settled ==
  \A e \in Event : outbox[e].delivered =>
    /\ outbox[e].recorded /\ outbox[e].due
    /\ outbox[e].owner = NoOwner
    /\ e \in flushed

\* A call acknowledges what it flushed; what it gives back has failed.
StepsJustified ==
  \A d \in Call : /\ calls[d].step = "acknowledge" => calls[d].row \in flushed
                  /\ calls[d].step = "fail" => calls[d].row \in disturbed

\* The steps of a call, by what they do to it: it keeps its event, settles it, or is over.
exports(d) == deliver_flush_ok(d) \/ deliver_flush_failed(d) \/ deliver_acknowledge_failed(d)
settles(d) == deliver_acknowledge(d) \/ deliver_failed(d)
ends(d) == deliver_return(d) \/ deliver_raises(d)

holds(d, e) == e \in calls[d].ids \/ calls[d].row = e

\* What a call holds is in the table.
HeldRecorded == \A d \in Call, e \in Event : holds(d, e) => outbox[e].recorded

\* What is true of an event as long as its claim does not lapse, no flush or acknowledgement
\* of it fails and no process stops over it: one call at most has it, under the claim in the row, and emits it once.
OneHolder(e) ==
  /\ ~outbox[e].lapsed
  /\ exported[e] <= 1
  /\ outbox[e].owner = NoOwner /\ ~outbox[e].delivered => exported[e] = 0
  /\ \A d \in Call :
       /\ holds(d, e) => /\ ~outbox[e].delivered
                         /\ outbox[e].owner = calls[d].owner /\ outbox[e].owner # NoOwner
       /\ e \in calls[d].ids => exported[e] = 0 /\ calls[d].row # e
       /\ \A c \in Call : holds(c, e) /\ holds(d, e) => c = d

UndisturbedHeldOnce == \A e \in Event \ disturbed : OneHolder(e)

OutboxInv ==
  OutboxTypeOK /\ Settled /\ StepsJustified /\ HeldRecorded /\ UndisturbedHeldOnce

\* Nothing is recorded, claimed or emitted at the start.
LEMMA OutboxInitInv == OutboxInit => OutboxInv
  <1> SUFFICES ASSUME OutboxInit PROVE OutboxInv  OBVIOUS
  <1>1. OutboxTypeOK
    BY DEF OutboxInit, OutboxTypeOK, Row, CallState, Idle
  <1>2. Settled /\ StepsJustified /\ HeldRecorded
    BY OutboxAssumption DEF OutboxInit, Settled, StepsJustified, HeldRecorded, holds, Idle
  <1>3. UndisturbedHeldOnce
    BY OutboxAssumption DEF OutboxInit, UndisturbedHeldOnce, OneHolder, holds, Idle
  <1> QED  BY <1>1, <1>2, <1>3 DEF OutboxInv

-----------------------------------------------------------------------------
\* Giving a claim back or acknowledging leaves a row that is not claimed.
LEMMA ReleasedRow ==
  ASSUME NEW e \in Event, outbox[e] \in Row,
         NEW v, v = [released(e) EXCEPT !.delivered = TRUE, !.due = TRUE]
                \/ v = [released(e) EXCEPT !.due = FALSE]
  PROVE  /\ v \in Row
         /\ v.recorded = outbox[e].recorded /\ v.owner = NoOwner /\ ~v.lapsed
         /\ v = [released(e) EXCEPT !.delivered = TRUE, !.due = TRUE] => v.delivered /\ v.due
         /\ v = [released(e) EXCEPT !.due = FALSE] => v.delivered = outbox[e].delivered
  <1>1. /\ released(e) \in Row
        /\ released(e).recorded = outbox[e].recorded
        /\ released(e).delivered = outbox[e].delivered
        /\ released(e).owner = NoOwner /\ ~released(e).lapsed
    BY DEF released, Row
  <1> QED  BY <1>1 DEF Row

\* A step that settles the event e of call d, with what it writes.
Settling(d, e, v) ==
  /\ calls[d].row = e
  /\ v \in Row /\ v.owner = NoOwner /\ ~v.lapsed /\ v.recorded = outbox[e].recorded
  /\ \/ calls[d].step = "acknowledge" /\ v.delivered /\ v.due
     \/ calls[d].step = "fail" /\ v.delivered = outbox[e].delivered
  /\ outbox' = IF still_claimed(d, e) THEN [outbox EXCEPT ![e] = v] ELSE outbox
  /\ calls' = [calls EXCEPT ![d].row = NoEvent, ![d].step = "next"]
  /\ UNCHANGED <<running, exported, flushed, disturbed>>

\* The two ways of settling, in one form.
LEMMA SettlingSteps ==
  ASSUME OutboxTypeOK, NEW d \in Call, settles(d)
  PROVE  \E e \in Event, v \in Row : Settling(d, e, v)
  <1> DEFINE e == calls[d].row
             ack == [released(e) EXCEPT !.delivered = TRUE, !.due = TRUE]
             back == [released(e) EXCEPT !.due = FALSE]
  <1>1. calls[d] \in CallState /\ (calls[d].step = "next" <=> e = NoEvent)
    BY DEF OutboxTypeOK
  <1>2. calls[d].step # "next"
    BY DEF settles, deliver_acknowledge, deliver_failed
  <1>3. e \in Event /\ outbox[e] \in Row
    BY <1>1, <1>2 DEF CallState, OutboxTypeOK
  <1>4. CASE deliver_acknowledge(d)
    <2>1. /\ ack \in Row /\ ack.owner = NoOwner /\ ~ack.lapsed
          /\ ack.recorded = outbox[e].recorded /\ ack.delivered /\ ack.due
      BY <1>3, ReleasedRow
    <2>2. /\ calls[d].step = "acknowledge"
          /\ outbox' = IF still_claimed(d, e) THEN [outbox EXCEPT ![e] = ack] ELSE outbox
          /\ calls' = [calls EXCEPT ![d].row = NoEvent, ![d].step = "next"]
          /\ UNCHANGED <<running, exported, flushed, disturbed>>
      BY <1>4 DEF deliver_acknowledge, settle, go
    <2> HIDE DEF ack
    <2>3. Settling(d, e, ack)
      BY <2>1, <2>2 DEF Settling
    <2> QED  BY <1>3, <2>1, <2>3
  <1>5. CASE deliver_failed(d)
    <2>1. /\ back \in Row /\ back.owner = NoOwner /\ ~back.lapsed
          /\ back.recorded = outbox[e].recorded /\ back.delivered = outbox[e].delivered
      BY <1>3, ReleasedRow
    <2>2. /\ calls[d].step = "fail"
          /\ outbox' = IF still_claimed(d, e) THEN [outbox EXCEPT ![e] = back] ELSE outbox
          /\ calls' = [calls EXCEPT ![d].row = NoEvent, ![d].step = "next"]
          /\ UNCHANGED <<running, exported, flushed, disturbed>>
      BY <1>5 DEF deliver_failed, settle, go
    <2> HIDE DEF back
    <2>3. Settling(d, e, back)
      BY <2>1, <2>2 DEF Settling
    <2> QED  BY <1>3, <2>1, <2>3
  <1> QED  BY <1>4, <1>5 DEF settles

\* OutboxTypeOK is kept by every step.
LEMMA OutboxTypeStep == OutboxTypeOK /\ [OutboxNext]_outboxVars => OutboxTypeOK'
  <1> SUFFICES ASSUME OutboxTypeOK, [OutboxNext]_outboxVars PROVE OutboxTypeOK'  OBVIOUS
  <1>n. /\ outbox \in [Event -> Row] /\ calls \in [Call -> CallState]
        /\ exported \in [Event -> 0 .. 2] /\ NoEvent \notin Event /\ NoOwner \notin Owner
    BY OutboxAssumption DEF OutboxTypeOK
  <1> USE DEF OutboxTypeOK
  <1>1. ASSUME NEW e \in Event, scan(e) PROVE OutboxTypeOK'
    BY <1>1, <1>n DEF scan, Row
  <1>2. ASSUME NEW e \in Event, claim_expires(e) PROVE OutboxTypeOK'
    BY <1>2, <1>n DEF claim_expires, Row
  <1>3. ASSUME NEW e \in Event, retry_due(e) PROVE OutboxTypeOK'
    BY <1>3, <1>n DEF retry_due, Row
  <1>4. ASSUME NEW d \in Call, NEW o \in Owner, _claim_pending(d, o) PROVE OutboxTypeOK'
    <2>1. outbox' \in [Event -> Row]
      BY <1>4, <1>n DEF _claim_pending, Row
    <2>2. \A e \in Event : outbox'[e].lapsed => outbox'[e].owner # NoOwner
      BY <1>4, <1>n DEF _claim_pending, Row
    <2>3. calls' \in [Call -> CallState] /\ calls'[d].step = "next" /\ calls'[d].row = NoEvent
      BY <1>4, <1>n DEF _claim_pending, CallState, Idle
    <2>4. \A c \in Call : c # d => calls'[c] = calls[c]
      BY <1>4, <1>n DEF _claim_pending
    <2> QED  BY <1>4, <2>1, <2>2, <2>3, <2>4 DEF _claim_pending
  <1>5. ASSUME NEW d \in Call, NEW e \in Event, deliver_next(d, e) PROVE OutboxTypeOK'
    <2>1. exported' \in [Event -> 0 .. 2]
      BY <1>5, <1>n DEF deliver_next
    <2>2. /\ calls' \in [Call -> CallState]
          /\ \A c \in Call : (calls'[c].step = "next") <=> (calls'[c].row = NoEvent)
      BY <1>5, <1>n DEF deliver_next, CallState
    <2> QED  BY <1>5, <2>1, <2>2 DEF deliver_next
  <1>6. ASSUME NEW d \in Call, exports(d)
        PROVE  OutboxTypeOK'
    <2>1. calls[d].row \in Event
      BY <1>6, <1>n DEF exports, deliver_flush_ok, deliver_flush_failed,
             deliver_acknowledge_failed, CallState
    <2>2. /\ calls' \in [Call -> CallState]
          /\ \A c \in Call : (calls'[c].step = "next") <=> (calls'[c].row = NoEvent)
      BY <1>6, <1>n, <2>1 DEF exports, deliver_flush_ok, deliver_flush_failed,
             deliver_acknowledge_failed, go, failed_step, CallState
    <2> QED  BY <1>6, <2>1, <2>2 DEF exports, deliver_flush_ok, deliver_flush_failed,
             deliver_acknowledge_failed
  <1>7. ASSUME NEW d \in Call, settles(d) PROVE OutboxTypeOK'
    <2>1. PICK e \in Event, v \in Row : Settling(d, e, v)
      BY <1>7, SettlingSteps
    <2>2. /\ calls' \in [Call -> CallState]
          /\ \A c \in Call : (calls'[c].step = "next") <=> (calls'[c].row = NoEvent)
      BY <2>1, <1>n DEF Settling, CallState
    <2>3. outbox' \in [Event -> Row] /\ \A f \in Event : outbox'[f].lapsed => outbox'[f].owner # NoOwner
      BY <2>1, <1>n DEF Settling
    <2> QED  BY <2>1, <2>2, <2>3 DEF Settling
  <1>8. ASSUME NEW d \in Call, ends(d) PROVE OutboxTypeOK'
    BY <1>8, <1>n DEF ends, deliver_return, deliver_raises, Idle, CallState
  <1>9. ASSUME NEW o \in Owner, crash(o) PROVE OutboxTypeOK'
    <2>1. /\ calls' \in [Call -> CallState]
          /\ \A c \in Call : (calls'[c].step = "next") <=> (calls'[c].row = NoEvent)
      BY <1>9, <1>n DEF crash, Idle, CallState
    <2> QED  BY <1>9, <1>n, <2>1 DEF crash
  <1>10. CASE UNCHANGED outboxVars
    BY <1>10 DEF outboxVars
  <1> QED
    BY <1>1, <1>2, <1>3, <1>4, <1>5, <1>6, <1>7, <1>8, <1>9, <1>10 DEF OutboxNext, deliver_step, exports, settles, ends

\* A delivered event stays as it is, in every step.
LEMMA SettledStep ==
  ASSUME OutboxTypeOK, Settled, [OutboxNext]_outboxVars
  PROVE  \A e \in Event : outbox[e].delivered => outbox'[e] = outbox[e]
  <1> DEFINE Final == \A e \in Event : outbox[e].delivered => outbox'[e] = outbox[e]
  <1>n. /\ outbox \in [Event -> Row]
        /\ \A e \in Event : /\ outbox[e].lapsed => outbox[e].owner # NoOwner
                            /\ outbox[e].delivered => /\ outbox[e].recorded /\ outbox[e].due
                                                      /\ outbox[e].owner = NoOwner
    BY DEF OutboxTypeOK, Settled
  <1>1. ASSUME NEW e \in Event, scan(e)
        PROVE  Final
    BY <1>1, <1>n DEF scan
  <1>2. ASSUME NEW e \in Event, claim_expires(e)
        PROVE  Final
    BY <1>2, <1>n DEF claim_expires
  <1>3. ASSUME NEW e \in Event, retry_due(e)
        PROVE  Final
    BY <1>3, <1>n DEF retry_due
  <1>4. ASSUME NEW d \in Call, NEW o \in Owner, _claim_pending(d, o)
        PROVE  Final
    BY <1>4, <1>n DEF _claim_pending, claimable, pending, Idle
  <1>5. ASSUME NEW d \in Call, NEW e \in Event, deliver_next(d, e)
        PROVE  Final
    BY <1>5, <1>n DEF deliver_next
  <1>6. ASSUME NEW d \in Call, exports(d)
        PROVE  Final
    BY <1>6, <1>n DEF exports, deliver_flush_ok, deliver_flush_failed,
             deliver_acknowledge_failed, go, failed_step
  <1>7. ASSUME NEW d \in Call, settles(d)
        PROVE  Final
    <2>1. PICK e \in Event, v \in Row : Settling(d, e, v)
      BY <1>7, SettlingSteps
    <2> QED  BY <2>1, <1>n DEF Settling, still_claimed
  <1>8. ASSUME NEW d \in Call, ends(d)
        PROVE  Final
    BY <1>8, <1>n DEF ends, deliver_return, deliver_raises, Idle
  <1>9. ASSUME NEW o \in Owner, crash(o)
        PROVE  Final
    BY <1>9, <1>n DEF crash, Idle
  <1>10. CASE UNCHANGED outboxVars
    BY <1>10 DEF outboxVars
  <1> QED
    BY <1>1, <1>2, <1>3, <1>4, <1>5, <1>6, <1>7, <1>8, <1>9, <1>10 DEF OutboxNext, deliver_step, exports, settles, ends

\* Calls claim what is recorded, and no row is removed.
LEMMA HeldRecordedStep == OutboxTypeOK /\ HeldRecorded /\ [OutboxNext]_outboxVars => HeldRecorded'
  <1> SUFFICES ASSUME OutboxTypeOK, HeldRecorded, [OutboxNext]_outboxVars PROVE HeldRecorded'
    OBVIOUS
  <1>n. outbox \in [Event -> Row] /\ calls \in [Call -> CallState] /\ NoEvent \notin Event
    BY OutboxAssumption DEF OutboxTypeOK
  <1> DEFINE Kept == /\ \A e \in Event : outbox[e].recorded => outbox'[e].recorded
                     /\ \A c \in Call, e \in Event :
                          (holds(c, e))' => holds(c, e) \/ outbox'[e].recorded
  <1> SUFFICES Kept
    BY DEF HeldRecorded
  <1>1. ASSUME NEW e \in Event, scan(e)
        PROVE  Kept
    BY <1>1, <1>n DEF scan, holds, Row
  <1>2. ASSUME NEW e \in Event, claim_expires(e) \/ retry_due(e)
        PROVE  Kept
    BY <1>2, <1>n DEF claim_expires, retry_due, holds, Row
  <1>3. ASSUME NEW d \in Call, NEW o \in Owner, _claim_pending(d, o)
        PROVE  Kept
    <2>1. \A e \in Event : outbox'[e].recorded = outbox[e].recorded
      BY <1>3, <1>n DEF _claim_pending, Row
    <2>2. /\ \A c \in Call : c # d => calls'[c] = calls[c]
          /\ calls'[d].row = NoEvent /\ \A e \in calls'[d].ids : outbox[e].recorded
      BY <1>3, <1>n DEF _claim_pending, claimable, pending, Idle, CallState
    <2> QED  BY <2>1, <2>2, <1>n DEF holds
  <1>4. ASSUME NEW d \in Call, NEW f \in Event, deliver_next(d, f)
        PROVE  Kept
    <2>1. \A c \in Call : /\ calls'[c].ids \subseteq calls[c].ids
                          /\ calls'[c].row = calls[c].row \/ calls'[c].row \in calls[c].ids
      BY <1>4, <1>n DEF deliver_next, CallState
    <2> QED  BY <1>4, <2>1, <1>n DEF deliver_next, holds
  <1>5. ASSUME NEW d \in Call, exports(d)
        PROVE  Kept
    <2>1. \A c \in Call : calls'[c].ids = calls[c].ids /\ calls'[c].row = calls[c].row
      BY <1>5, <1>n DEF exports, deliver_flush_ok, deliver_flush_failed,
             deliver_acknowledge_failed, go, CallState
    <2> QED  BY <1>5, <2>1, <1>n DEF exports, deliver_flush_ok, deliver_flush_failed,
             deliver_acknowledge_failed, holds
  <1>6. ASSUME NEW d \in Call, settles(d)
        PROVE  Kept
    <2>1. PICK e \in Event, v \in Row : Settling(d, e, v)
      BY <1>6, SettlingSteps
    <2>2. \A c \in Call : /\ calls'[c].ids = calls[c].ids
                          /\ calls'[c].row = calls[c].row \/ calls'[c].row = NoEvent
      BY <2>1, <1>n DEF Settling, CallState
    <2>3. \A f \in Event : outbox'[f].recorded = outbox[f].recorded
      BY <2>1, <1>n DEF Settling
    <2> QED  BY <2>2, <2>3, <1>n DEF holds
  <1>7. ASSUME NEW d \in Call, ends(d)
        PROVE  Kept
    BY <1>7, <1>n DEF ends, deliver_return, deliver_raises, Idle, holds
  <1>8. ASSUME NEW o \in Owner, crash(o)
        PROVE  Kept
    BY <1>8, <1>n DEF crash, Idle, holds
  <1>9. CASE UNCHANGED outboxVars
    BY <1>9 DEF outboxVars, holds
  <1> QED
    BY <1>1, <1>2, <1>3, <1>4, <1>5, <1>6, <1>7, <1>8, <1>9 DEF OutboxNext, deliver_step, exports, settles, ends

\* What becomes delivered is settled in the same transaction, and was flushed by that call.
LEMMA SettledKept ==
  OutboxTypeOK /\ Settled /\ StepsJustified /\ HeldRecorded /\ [OutboxNext]_outboxVars
    => Settled' /\ StepsJustified'
  <1> SUFFICES ASSUME OutboxTypeOK, Settled, StepsJustified, HeldRecorded, [OutboxNext]_outboxVars
      PROVE  Settled' /\ StepsJustified'
    OBVIOUS
  <1>n. outbox \in [Event -> Row] /\ calls \in [Call -> CallState]
    BY DEF OutboxTypeOK
  <1>r. \A e \in Event : outbox[e].recorded \in BOOLEAN /\ outbox[e].delivered \in BOOLEAN
    BY <1>n DEF Row
  <1> USE DEF Settled, StepsJustified
  <1>1. ASSUME NEW e \in Event, scan(e)
        PROVE  Settled' /\ StepsJustified'
    BY <1>1, <1>n DEF scan
  <1>2. ASSUME NEW e \in Event, claim_expires(e)
        PROVE  Settled' /\ StepsJustified'
    BY <1>2, <1>n DEF claim_expires
  <1>3. ASSUME NEW e \in Event, retry_due(e)
        PROVE  Settled' /\ StepsJustified'
    BY <1>3, <1>n DEF retry_due
  <1>4. ASSUME NEW d \in Call, NEW o \in Owner, _claim_pending(d, o)
        PROVE  Settled' /\ StepsJustified'
    <2>1. \A e \in Event : outbox'[e].delivered => outbox[e].delivered /\ outbox'[e] = outbox[e]
      BY <1>4, <1>n DEF _claim_pending, claimable, pending, Row
    <2>2. \A c \in Call : calls'[c] = calls[c] \/ calls'[c].step = "next"
      BY <1>4, <1>n DEF _claim_pending, Idle, CallState
    <2>3. UNCHANGED <<flushed, disturbed>>
      BY <1>4 DEF _claim_pending
    <2>4. Settled'
      BY <2>1, <2>3
    <2>5. StepsJustified'
      BY <2>2, <2>3
    <2> QED  BY <2>4, <2>5
  <1>5. ASSUME NEW d \in Call, NEW e \in Event, deliver_next(d, e)
        PROVE  Settled' /\ StepsJustified'
    <2>1. \A c \in Call : \/ calls'[c].step = calls[c].step /\ calls'[c].row = calls[c].row
                          \/ calls'[c].step = "flush"
      BY <1>5, <1>n DEF deliver_next, CallState
    <2> QED  BY <1>5, <2>1 DEF deliver_next
  <1>6. ASSUME NEW d \in Call, exports(d)
        PROVE  Settled' /\ StepsJustified'
    <2>1. \A c \in Call : /\ calls'[c].row = calls[c].row
                          /\ c # d => calls'[c].step = calls[c].step
      BY <1>6, <1>n DEF exports, deliver_flush_ok, deliver_flush_failed,
             deliver_acknowledge_failed, go, CallState
    <2>2. /\ deliver_flush_ok(d) => calls'[d].step = "acknowledge"
          /\ deliver_flush_failed(d) \/ deliver_acknowledge_failed(d) => calls'[d].step = "fail"
      BY <1>n DEF exports, deliver_flush_ok, deliver_flush_failed,
             deliver_acknowledge_failed, go, failed_step, CallState
    <2> QED  BY <1>6, <2>1, <2>2 DEF exports, deliver_flush_ok, deliver_flush_failed,
             deliver_acknowledge_failed
  <1>7. ASSUME NEW d \in Call, settles(d)
        PROVE  Settled' /\ StepsJustified'
    <2>1. PICK e \in Event, v \in Row : Settling(d, e, v)
      BY <1>7, SettlingSteps
    <2>2. \A c \in Call : calls'[c] = calls[c] \/ calls'[c].step = "next"
      BY <2>1, <1>n DEF Settling, CallState
    <2>3. \A f \in Event : outbox'[f] = outbox[f] \/ (f = e /\ outbox'[f] = v /\ ~outbox[e].delivered)
      BY <2>1, <1>n DEF Settling, still_claimed
    <2>4. \/ v.recorded /\ v.due /\ v.owner = NoOwner /\ e \in flushed
          \/ v.delivered = outbox[e].delivered
      BY <2>1 DEF Settling, HeldRecorded, holds
    <2>5. UNCHANGED <<flushed, disturbed>>
      BY <2>1 DEF Settling
    <2>6. Settled'
      BY <1>r, <2>3, <2>4, <2>5
    <2>7. StepsJustified'
      BY <2>2, <2>5
    <2> QED  BY <2>6, <2>7
  <1>8. ASSUME NEW d \in Call, ends(d)
        PROVE  Settled' /\ StepsJustified'
    BY <1>8, <1>n DEF ends, deliver_return, deliver_raises, Idle
  <1>9. ASSUME NEW o \in Owner, crash(o)
        PROVE  Settled' /\ StepsJustified'
    BY <1>9, <1>n DEF crash, Idle
  <1>10. CASE UNCHANGED outboxVars
    BY <1>10 DEF outboxVars
  <1> QED
    BY <1>1, <1>2, <1>3, <1>4, <1>5, <1>6, <1>7, <1>8, <1>9, <1>10 DEF OutboxNext, deliver_step, exports, settles, ends

\* While nothing disturbs it, an event is claimed once, emitted once and settled by its holder.
LEMMA OneHolderStep ==
  ASSUME OutboxTypeOK, StepsJustified, UndisturbedHeldOnce, [OutboxNext]_outboxVars
  PROVE  UndisturbedHeldOnce'
  <1>m. disturbed \subseteq disturbed'
    BY DEF OutboxNext, deliver_step, outboxVars, scan, claim_expires, retry_due, _claim_pending,
           deliver_next, deliver_flush_ok, deliver_flush_failed, deliver_acknowledge,
           deliver_acknowledge_failed, deliver_failed, settle, deliver_return, deliver_raises, crash
  <1> SUFFICES ASSUME NEW e \in Event, e \notin disturbed' PROVE OneHolder(e)'
    BY DEF UndisturbedHeldOnce
  <1>o. e \notin disturbed /\ OneHolder(e)
    BY <1>m DEF UndisturbedHeldOnce
  <1>n. /\ outbox \in [Event -> Row] /\ calls \in [Call -> CallState]
        /\ exported \in [Event -> 0 .. 2] /\ e # NoEvent
        /\ \A d \in Call : (calls[d].step = "next") <=> (calls[d].row = NoEvent)
    BY OutboxAssumption DEF OutboxTypeOK
  \* A step that leaves the event to whom it belonged changes nothing of it.
  <1>s. ASSUME /\ outbox'[e].lapsed = outbox[e].lapsed /\ outbox'[e].owner = outbox[e].owner
               /\ outbox'[e].delivered = outbox[e].delivered /\ exported'[e] = exported[e],
               \A c \in Call : /\ (holds(c, e))' => holds(c, e) /\ calls'[c].owner = calls[c].owner
                               /\ e \in calls'[c].ids => /\ e \in calls[c].ids
                                                         /\ calls'[c].row # e
        PROVE  OneHolder(e)'
    BY <1>s, <1>o DEF OneHolder
  <1>1. ASSUME NEW f \in Event, scan(f) \/ retry_due(f) PROVE OneHolder(e)'
    <2>1. /\ outbox'[e].lapsed = outbox[e].lapsed /\ outbox'[e].owner = outbox[e].owner
          /\ outbox'[e].delivered = outbox[e].delivered /\ UNCHANGED <<exported, calls>>
      BY <1>1, <1>n DEF scan, retry_due, Row
    <2> QED  BY <2>1, <1>o DEF OneHolder, holds
  <1>2. ASSUME NEW f \in Event, claim_expires(f) PROVE OneHolder(e)'
    <2>1. f # e
      BY <1>2 DEF claim_expires
    <2>2. outbox'[e] = outbox[e] /\ UNCHANGED <<exported, calls>>
      BY <1>2, <2>1, <1>n DEF claim_expires
    <2> QED  BY <2>2, <1>o DEF OneHolder, holds
  <1>3. ASSUME NEW d \in Call, NEW o \in Owner, _claim_pending(d, o) PROVE OneHolder(e)'
    <2> DEFINE claimed == {f \in Event : claimable(f)}
    <2>a. claimed \subseteq Event /\ (e \in claimed <=> claimable(e))
      OBVIOUS
    <2>b. /\ calls' = [calls EXCEPT ![d] = [Idle EXCEPT !.owner = o, !.ids = claimed]]
          /\ calls[d] = Idle
      BY <1>3 DEF _claim_pending
    <2> HIDE DEF claimed
    <2>c. /\ \A c \in Call : c # d => calls'[c] = calls[c]
          /\ calls'[d] = [Idle EXCEPT !.owner = o, !.ids = claimed]
      BY <2>b, <1>n
    <2>d. calls[d].row = NoEvent /\ calls[d].ids = {}
      BY <2>b DEF Idle
    <2>e. calls'[d].row = NoEvent /\ calls'[d].owner = o /\ calls'[d].ids = claimed
      BY <2>c DEF Idle
    <2>f. UNCHANGED exported
      BY <1>3 DEF _claim_pending
    <2>1. /\ \A c \in Call : c # d => calls'[c] = calls[c]
          /\ calls'[d].row = NoEvent /\ calls'[d].owner = o
          /\ e \in calls'[d].ids <=> claimable(e)
          /\ calls[d].row = NoEvent /\ calls[d].ids = {}
          /\ UNCHANGED exported
      BY <2>a, <2>c, <2>d, <2>e, <2>f
    <2>2. CASE claimable(e)
      <3>1. outbox[e].owner = NoOwner /\ ~outbox[e].delivered /\ exported[e] = 0
        BY <2>2, <1>o DEF claimable, pending, OneHolder
      <3>2. \A c \in Call : ~holds(c, e)
        BY <3>1, <1>o DEF OneHolder
      <3>3. outbox'[e].owner = o /\ ~outbox'[e].lapsed /\ ~outbox'[e].delivered
        BY <1>3, <1>n, <2>2, <3>1 DEF _claim_pending, Row
      <3>4. \A c \in Call : (holds(c, e))' => c = d
        BY <2>1, <3>2 DEF holds
      <3>5. calls'[d].row # e /\ o # NoOwner
        BY <2>1, <1>n, OutboxAssumption
      <3>6. exported'[e] = 0
        BY <2>1, <3>1
      <3>7. \A c \in Call : e \in calls'[c].ids => c = d
        BY <3>4 DEF holds
      <3>8. calls'[d].owner = o
        BY <2>1
      <3> QED  BY <3>3, <3>4, <3>5, <3>6, <3>7, <3>8 DEF OneHolder
    <2>3. CASE ~claimable(e)
      <3>1. outbox'[e] = outbox[e]
        BY <1>3, <2>3, <1>n DEF _claim_pending
      <3>2. ~(holds(d, e))' /\ e \notin calls'[d].ids
        BY <2>1, <2>3, <1>n DEF holds
      <3>3. \A c \in Call : c # d => (holds(c, e))' = holds(c, e)
        BY <2>1 DEF holds
      <3> QED  BY <2>1, <3>1, <3>2, <3>3, <1>o DEF OneHolder
    <2> QED  BY <2>2, <2>3
  <1>4. ASSUME NEW d \in Call, NEW f \in Event, deliver_next(d, f) PROVE OneHolder(e)'
    <2>1. /\ calls[d].row = NoEvent /\ calls[d].step = "next" /\ f \in calls[d].ids
          /\ UNCHANGED outbox
      BY <1>4, <1>n DEF deliver_next
    <2>2. \A c \in Call : c # d => calls'[c] = calls[c]
      BY <1>4, <1>n DEF deliver_next
    <2>3. /\ calls'[d].owner = calls[d].owner /\ calls'[d].ids = calls[d].ids \ {f}
          /\ still_claimed(d, f) => /\ calls'[d].row = f
                                    /\ exported'[f] = IF exported[f] = 2 THEN 2 ELSE exported[f] + 1
          /\ ~still_claimed(d, f) => calls'[d].row = NoEvent
      BY <1>4, <1>n, <2>1 DEF deliver_next, CallState
    <2>4. \A g \in Event : g # f => exported'[g] = exported[g]
      BY <1>4, <1>n DEF deliver_next
    <2>5. CASE f # e
      <3>1. calls'[d].row # e
        BY <2>3, <2>5, <1>n
      <3>2. \A c \in Call : (holds(c, e))' = holds(c, e)
        BY <2>1, <2>2, <2>3, <2>5, <3>1, <1>n DEF holds
      <3>3. exported'[e] = exported[e]
        BY <2>4, <2>5
      <3> QED  BY <1>o, <2>1, <2>2, <2>3, <3>1, <3>2, <3>3 DEF OneHolder, holds
    <2>6. CASE f = e
      <3>1. still_claimed(d, e) /\ exported[e] = 0 /\ \A c \in Call : holds(c, e) => c = d
        BY <1>o, <2>1, <2>6 DEF OneHolder, holds, still_claimed
      <3>2. calls'[d].row = e /\ exported'[e] = 1 /\ calls'[d].ids = calls[d].ids \ {e}
        BY <2>3, <2>6, <3>1
      <3>3. \A c \in Call : (holds(c, e))' => c = d
        BY <2>2, <3>1 DEF holds
      <3>4. \A c \in Call : e \notin calls'[c].ids
        BY <3>2, <3>3 DEF holds
      <3>5. ~outbox[e].lapsed /\ ~outbox[e].delivered /\ outbox[e].owner = calls[d].owner /\ outbox[e].owner # NoOwner
        BY <1>o, <2>1, <2>6 DEF OneHolder, holds
      <3>6. UNCHANGED outbox /\ calls'[d].owner = calls[d].owner
        BY <2>1, <2>3
      <3> QED  BY <3>2, <3>3, <3>4, <3>5, <3>6 DEF OneHolder
    <2> QED  BY <2>5, <2>6
  <1>5. ASSUME NEW d \in Call, exports(d) PROVE OneHolder(e)'
    <2>1. \A c \in Call : /\ calls'[c].ids = calls[c].ids /\ calls'[c].row = calls[c].row
                          /\ calls'[c].owner = calls[c].owner
      BY <1>5, <1>n DEF exports, deliver_flush_ok, deliver_flush_failed,
             deliver_acknowledge_failed, go, CallState
    <2>2. UNCHANGED <<outbox, exported>>
      BY <1>5 DEF exports, deliver_flush_ok, deliver_flush_failed,
             deliver_acknowledge_failed
    <2> QED  BY <1>o, <2>1, <2>2 DEF OneHolder, holds
  <1>6. ASSUME NEW d \in Call, settles(d) PROVE OneHolder(e)'
    <2>1. PICK f \in Event, v \in Row : Settling(d, f, v)
      BY <1>6, SettlingSteps
    <2>2. /\ \A c \in Call : c # d => calls'[c] = calls[c]
          /\ calls'[d].row = NoEvent /\ calls'[d].ids = calls[d].ids
          /\ calls'[d].owner = calls[d].owner
          /\ UNCHANGED <<exported, disturbed>>
      BY <2>1, <1>n DEF Settling, CallState
    <2>3. CASE f # e
      <3>1. outbox'[e] = outbox[e]
        BY <2>1, <2>3, <1>n DEF Settling
      <3>2. \A c \in Call : (holds(c, e))' = holds(c, e)
        BY <2>1, <2>2, <2>3, <1>n DEF holds, Settling
      <3>3. \A c \in Call : e \in calls'[c].ids => e \in calls[c].ids /\ calls'[c].row # e
        BY <1>o, <2>2, <1>n DEF OneHolder
      <3>4. \A c \in Call : calls'[c].owner = calls[c].owner
        BY <2>2
      <3> QED  BY <1>o, <2>2, <3>1, <3>2, <3>3, <3>4 DEF OneHolder
    <2>4. CASE f = e
      <3>1. holds(d, e) /\ calls[d].row = e
        BY <2>1, <2>4 DEF holds, Settling
      <3>2. still_claimed(d, e) /\ e \notin calls[d].ids /\ \A c \in Call : holds(c, e) => c = d
        BY <1>o, <3>1 DEF OneHolder, still_claimed
      <3>3. calls[d].step = "acknowledge" /\ v.delivered /\ ~v.lapsed /\ v.owner = NoOwner
        BY <1>o, <2>1, <2>4 DEF Settling, StepsJustified
      <3>4. outbox'[e] = v
        BY <2>1, <2>4, <3>2, <1>n DEF Settling
      <3>5. \A c \in Call : ~(holds(c, e))' /\ e \notin calls'[c].ids
        BY <2>2, <3>2, <1>n DEF holds
      <3>6. exported'[e] <= 1
        BY <1>o, <2>2 DEF OneHolder
      <3> QED  BY <3>3, <3>4, <3>5, <3>6 DEF OneHolder
    <2> QED  BY <2>3, <2>4
  <1>7. ASSUME NEW d \in Call, ends(d) PROVE OneHolder(e)'
    <2>1. /\ \A c \in Call : c # d => calls'[c] = calls[c]
          /\ calls'[d].row = NoEvent /\ calls'[d].ids = {}
          /\ UNCHANGED <<outbox, exported>>
      BY <1>7, <1>n DEF ends, deliver_return, deliver_raises, Idle
    <2> QED  BY <1>o, <1>n, <2>1 DEF OneHolder, holds
  <1>8. ASSUME NEW o \in Owner, crash(o) PROVE OneHolder(e)'
    <2>1. /\ \A c \in Call : calls'[c] = calls[c] \/ (calls'[c].row = NoEvent /\ calls'[c].ids = {})
          /\ UNCHANGED <<outbox, exported>>
      BY <1>8, <1>n DEF crash, Idle
    <2> QED  BY <1>o, <1>n, <2>1 DEF OneHolder, holds
  <1>9. CASE UNCHANGED outboxVars
    BY <1>9, <1>o DEF outboxVars, OneHolder, holds
  <1> QED
    BY <1>1, <1>2, <1>3, <1>4, <1>5, <1>6, <1>7, <1>8, <1>9 DEF OutboxNext, deliver_step, exports, settles, ends

\* OutboxInv holds throughout.
LEMMA OutboxInvHolds == OutboxSpec => []OutboxInv
  <1>1. OutboxInit => OutboxInv
    BY OutboxInitInv
  <1>2. OutboxInv /\ [OutboxNext]_outboxVars => OutboxInv'
    BY OutboxTypeStep, SettledKept, HeldRecordedStep, OneHolderStep DEF OutboxInv
  <1> QED  BY <1>1, <1>2, PTL DEF OutboxSpec

\* The state of the outbox keeps its types; a call is between two events or has one.
THEOREM OutboxTypeCorrect == OutboxSpec => []OutboxTypeOK
  <1>1. OutboxInv => OutboxTypeOK
    BY DEF OutboxInv
  <1> QED  BY <1>1, OutboxInvHolds, PTL

\* deliver_pending, at least once: through lapsed claims, failures and crashes, what is
\* recorded as delivered was emitted before a flush that succeeded.
THEOREM DeliveredWasFlushedHolds == OutboxSpec => []DeliveredWasFlushed
  <1>1. OutboxInv => DeliveredWasFlushed
    BY DEF OutboxInv, Settled, DeliveredWasFlushed
  <1> QED  BY <1>1, OutboxInvHolds, PTL

\* _claim_pending and the claim read again before every export: any number of calls of any
\* number of owners emit an event once, unless its claim lapsed, its flush or its
\* acknowledgement failed, or a process stopped over it.
THEOREM OneExportUnlessDisturbedHolds == OutboxSpec => []OneExportUnlessDisturbed
  <1>1. ASSUME OutboxInv, NEW e \in Event, exported[e] > 1 PROVE e \in disturbed
    <2>1. exported[e] \in 0 .. 2
      BY <1>1 DEF OutboxInv, OutboxTypeOK
    <2> QED  BY <1>1, <2>1 DEF OutboxInv, UndisturbedHeldOnce, OneHolder
  <1>2. OutboxInv => OneExportUnlessDisturbed
    BY <1>1 DEF OneExportUnlessDisturbed
  <1> QED  BY <1>2, OutboxInvHolds, PTL

\* The closing transactions re-read the claim: no late call, timer or scan touches an event
\* that was delivered.
THEOREM DeliveredIsFinalHolds == OutboxSpec => DeliveredIsFinal
  <1> DEFINE Final == \A e \in Event : outbox[e].delivered => outbox'[e] = outbox[e]
  <1>1. OutboxInv /\ [OutboxNext]_outboxVars => [Final]_outboxVars
    BY SettledStep DEF OutboxInv
  <1>2. DeliveredIsFinal <=> [][Final]_outboxVars
    BY DEF DeliveredIsFinal
  <1> HIDE DEF Final
  <1> QED  BY <1>1, <1>2, OutboxInvHolds, PTL DEF OutboxSpec

-----------------------------------------------------------------------------
(***************************************************************************)
(* The bounded service runtime.  Nothing in it depends on the limiter but  *)
(* that a request it refuses is not submitted.                             *)
(***************************************************************************)

\* The types of the runtime: the part of RequestTypeOK that is not the limiter's.
RuntimeTypeOK ==
  /\ permits \in Nat
  /\ stops \in 0 .. MaxStops
  /\ executor \in {0, stops + 1}
  /\ ops \in [Request -> [state: OpState, pool: 0 .. MaxStops + 1, awaited: BOOLEAN]]

\* The operations that have a permit, and those that took one with them.
Charged(r) == ops[r].state \in {"queued", "running", "cancelled"}
charged == {r \in Request : Charged(r)}

RuntimeInv == RuntimeTypeOK /\ permits + Cardinality(charged) = MaxWorkers + MaxQueue

\* PermitsAccountedFor counts the charged operations.
LEMMA PermitsAreCharged ==
  PermitsAccountedFor <=> permits + Cardinality(charged) = MaxWorkers + MaxQueue
  <1>1. \A r \in Request : (outstanding(r) \/ ops[r].state = "cancelled") <=> Charged(r)
    BY DEF outstanding, Charged
  <1>2. {r \in Request : outstanding(r) \/ ops[r].state = "cancelled"} = charged
    BY <1>1, Zenon DEF charged
  <1> QED  BY <1>2 DEF PermitsAccountedFor

\* Permits and charged operations move together: one request more, one less, or none.
LEMMA ChargedMoves ==
  ASSUME RuntimeInv, permits' \in Nat,
         \/ permits' = permits /\ \A r \in Request : Charged(r)' <=> Charged(r)
         \/ \E q \in Request :
              /\ permits' = permits - 1
              /\ ~Charged(q) /\ Charged(q)'
              /\ \A r \in Request \ {q} : Charged(r)' <=> Charged(r)
         \/ \E q \in Request :
              /\ permits' = permits + 1
              /\ Charged(q) /\ ~Charged(q)'
              /\ \A r \in Request \ {q} : Charged(r)' <=> Charged(r)
  PROVE  permits' + Cardinality(charged') = MaxWorkers + MaxQueue
  <1>1. /\ permits \in Nat /\ permits + Cardinality(charged) = MaxWorkers + MaxQueue
    BY DEF RuntimeInv, RuntimeTypeOK
  <1>2. IsFiniteSet(charged) /\ Cardinality(charged) \in Nat
    <2>1. IsFiniteSet(Request)
      BY RequestAssumption, FS_Interval DEF Request
    <2>2. charged \subseteq Request
      BY DEF charged
    <2> QED  BY <2>1, <2>2, FS_Subset, FS_CardinalityType
  <1>3. CASE permits' = permits /\ \A r \in Request : Charged(r)' <=> Charged(r)
    <2>1. charged' = charged
      BY <1>3 DEF charged
    <2> QED  BY <1>1, <1>3, <2>1
  <1>4. ASSUME NEW q \in Request, permits' = permits - 1, ~Charged(q), Charged(q)',
               \A r \in Request \ {q} : Charged(r)' <=> Charged(r)
        PROVE  permits' + Cardinality(charged') = MaxWorkers + MaxQueue
    <2>1. charged' = charged \cup {q} /\ q \notin charged
      BY <1>4 DEF charged
    <2>2. Cardinality(charged \cup {q}) = Cardinality(charged) + 1
      BY <1>2, <2>1, FS_AddElement
    <2> QED  BY <1>1, <1>2, <1>4, <2>1, <2>2
  <1>5. ASSUME NEW q \in Request, permits' = permits + 1, Charged(q), ~Charged(q)',
               \A r \in Request \ {q} : Charged(r)' <=> Charged(r)
        PROVE  permits' + Cardinality(charged') = MaxWorkers + MaxQueue
    <2>1. charged' = charged \ {q} /\ q \in charged
      BY <1>5 DEF charged
    <2>2. Cardinality(charged \ {q}) = Cardinality(charged) - 1
      BY <1>2, <2>1, FS_RemoveElement
    <2> QED  BY <1>1, <1>2, <1>5, <2>1, <2>2
  <1> QED  BY <1>3, <1>4, <1>5

\* All permits are free at the start.
LEMMA RuntimeInit == RequestInit => RuntimeInv
  <1> SUFFICES ASSUME RequestInit PROVE RuntimeInv  OBVIOUS
  <1>1. MaxStops \in Nat /\ MaxWorkers + MaxQueue \in Nat
    BY RequestAssumption
  <1>2. RuntimeTypeOK
    BY <1>1 DEF RequestInit, RuntimeTypeOK, OpState
  <1>3. charged = {}
    BY DEF RequestInit, charged, Charged
  <1> QED  BY <1>1, <1>2, <1>3, FS_EmptySet DEF RuntimeInv, RequestInit

\* Every step of a request, a thread, a client or the operator keeps the account.
LEMMA RuntimeStep == RuntimeInv /\ [RequestNext]_requestVars => RuntimeInv'
  <1> SUFFICES ASSUME RuntimeInv, [RequestNext]_requestVars PROVE RuntimeInv'  OBVIOUS
  <1>n. /\ permits \in Nat /\ stops \in 0 .. MaxStops /\ executor \in {0, stops + 1}
        /\ ops \in [Request -> [state: OpState, pool: 0 .. MaxStops + 1, awaited: BOOLEAN]]
        /\ MaxStops \in Nat
    BY RequestAssumption DEF RuntimeInv, RuntimeTypeOK
  <1> DEFINE Account == permits' + Cardinality(charged') = MaxWorkers + MaxQueue
  <1> SUFFICES RuntimeTypeOK' /\ Account
    BY DEF RuntimeInv
  <1>1. ASSUME NEW r \in Request, NEW chain \in Chain, arrive(r, chain)
        PROVE  RuntimeTypeOK' /\ Account
    <2> DEFINE op == [state |-> "queued", pool |-> current, awaited |-> TRUE]
    <2>1. ops[r].state = "new" /\ stops' = stops
      BY <1>1 DEF arrive
    <2>2. CASE run(r) /\ permits > 0
      <3>1. current = stops + 1
        BY <1>n DEF current
      <3>2. op \in [state: OpState, pool: 0 .. MaxStops + 1, awaited: BOOLEAN]
        BY <1>n, <3>1 DEF OpState
      <3>3. ops' = [ops EXCEPT ![r] = op] /\ permits' = permits - 1 /\ executor' = stops + 1
        BY <2>2, <3>1 DEF run
      <3>4. op.state = "queued"
        OBVIOUS
      <3> HIDE DEF op
      <3>5. RuntimeTypeOK'
        BY <1>n, <2>1, <2>2, <3>2, <3>3 DEF RuntimeTypeOK
      <3>6. ~Charged(r) /\ Charged(r)' /\ \A q \in Request \ {r} : Charged(q)' <=> Charged(q)
        BY <1>n, <2>1, <3>3, <3>4 DEF Charged
      <3>7. permits' \in Nat
        BY <3>5 DEF RuntimeTypeOK
      <3> QED  BY <3>3, <3>5, <3>6, <3>7, ChargedMoves
    <2>3. CASE run(r) /\ ~(permits > 0)
      <3>1. /\ ops' = [ops EXCEPT ![r].state = "overloaded"] /\ permits' = permits
            /\ executor' = stops + 1
        BY <1>n, <2>3 DEF run, current
      <3>2. RuntimeTypeOK'
        BY <1>n, <2>1, <3>1 DEF RuntimeTypeOK, OpState
      <3>3. \A q \in Request : Charged(q)' <=> Charged(q)
        BY <1>n, <2>1, <3>1 DEF Charged
      <3> QED  BY <1>n, <3>1, <3>2, <3>3, ChargedMoves
    <2>4. CASE ops' = [ops EXCEPT ![r].state = "limited"] /\ UNCHANGED <<permits, executor>>
      <3>1. RuntimeTypeOK'
        BY <1>n, <2>1, <2>4 DEF RuntimeTypeOK, OpState
      <3>2. \A q \in Request : Charged(q)' <=> Charged(q)
        BY <1>n, <2>1, <2>4 DEF Charged
      <3> QED  BY <1>n, <2>4, <3>1, <3>2, ChargedMoves
    <2> QED  BY <1>1, <2>2, <2>3, <2>4 DEF arrive
  <1>2. ASSUME NEW r \in Request, begin(r) PROVE RuntimeTypeOK' /\ Account
    <2>1. RuntimeTypeOK'
      BY <1>2, <1>n DEF begin, RuntimeTypeOK, OpState
    <2>2. \A q \in Request : Charged(q)' <=> Charged(q)
      BY <1>2, <1>n DEF begin, Charged
    <2> QED  BY <1>2, <1>n, <2>1, <2>2, ChargedMoves DEF begin
  <1>3. ASSUME NEW r \in Request, end(r) PROVE RuntimeTypeOK' /\ Account
    <2> DEFINE op == [ops[r] EXCEPT !.state = "finished", !.awaited = FALSE]
    <2>a. ops[r] \in [state: OpState, pool: 0 .. MaxStops + 1, awaited: BOOLEAN]
      BY <1>n
    <2>b. op \in [state: OpState, pool: 0 .. MaxStops + 1, awaited: BOOLEAN]
      BY <2>a DEF OpState
    <2>c. ops' = [ops EXCEPT ![r] = op] /\ permits' = permits + 1 /\ UNCHANGED <<executor, stops>>
      BY <1>3 DEF end
    <2> HIDE DEF op
    <2>1. RuntimeTypeOK'
      BY <1>n, <2>b, <2>c DEF RuntimeTypeOK
    <2>2. Charged(r) /\ ~Charged(r)' /\ \A q \in Request \ {r} : Charged(q)' <=> Charged(q)
      BY <1>3, <1>n DEF end, Charged
    <2>3. permits' = permits + 1 /\ permits' \in Nat
      BY <1>3, <1>n DEF end
    <2> QED  BY <2>1, <2>2, <2>3, ChargedMoves
  <1>4. ASSUME NEW r \in Request, leave(r) PROVE RuntimeTypeOK' /\ Account
    <2>1. RuntimeTypeOK'
      BY <1>4, <1>n DEF leave, RuntimeTypeOK
    <2>2. \A q \in Request : Charged(q)' <=> Charged(q)
      BY <1>4, <1>n DEF leave, Charged
    <2> QED  BY <1>4, <1>n, <2>1, <2>2, ChargedMoves DEF leave
  <1>5. CASE stop
    <2>1. RuntimeTypeOK' /\ UNCHANGED <<ops, permits>>
      BY <1>5, <1>n DEF stop, RuntimeTypeOK
    <2>2. \A q \in Request : Charged(q)' <=> Charged(q)
      BY <2>1 DEF Charged
    <2> QED  BY <1>n, <2>1, <2>2, ChargedMoves
  <1>6. ASSUME NEW pool \in 1 .. MaxStops, drain(pool) PROVE RuntimeTypeOK' /\ Account
    <2>1. RuntimeTypeOK'
      BY <1>6, <1>n DEF drain, RuntimeTypeOK, OpState
    <2>2. \A q \in Request : Charged(q)' <=> Charged(q)
      BY <1>6, <1>n DEF drain, queued, Charged
    <2> QED  BY <1>6, <1>n, <2>1, <2>2, ChargedMoves DEF drain
  <1>7. CASE time_passes \/ UNCHANGED requestVars
    <2>1. UNCHANGED <<permits, executor, stops, ops>>
      BY <1>7 DEF time_passes, requestVars
    <2>2. RuntimeTypeOK' /\ \A q \in Request : Charged(q)' <=> Charged(q)
      BY <1>n, <2>1 DEF RuntimeTypeOK, Charged
    <2> QED  BY <1>n, <2>1, <2>2, ChargedMoves
  <1> QED
    BY <1>1, <1>2, <1>3, <1>4, <1>5, <1>6, <1>7 DEF RequestNext

\* BoundedServiceRuntime: whatever clients, threads and stops do in whatever order, every
\* permit is free, with an operation that runs or waits, or lost to a shutdown.
THEOREM PermitsAccountedForHolds == RequestSpec => []PermitsAccountedFor
  <1>1. RequestInit => RuntimeInv
    BY RuntimeInit
  <1>2. RuntimeInv /\ [RequestNext]_requestVars => RuntimeInv'
    BY RuntimeStep
  <1>3. RuntimeInv => PermitsAccountedFor
    BY PermitsAreCharged DEF RuntimeInv
  <1> QED  BY <1>1, <1>2, <1>3, PTL DEF RequestSpec
-----------------------------------------------------------------------------
(***************************************************************************)
(* The rate limiter.  _consume is called once or twice in a step, so its   *)
(* invariant is stated of any table R, log L and time t, and not of the    *)
(* variables.                                                              *)
(***************************************************************************)
Bucket == [key: Key, hits: Seq(Nat)]
Entry == [key: Key, at: Nat, what: {"granted", "limited", "evicted"}]

\* No bucket is forgotten of the key of place j from there on.
Alive(L, j) == \A e \in j .. Len(L) : L[e].key = L[j].key => L[e].what # "evicted"

\* The grants the bucket of K has seen since it was made.
Grants(L, K) == {j \in 1 .. Len(L) : L[j].key = K /\ L[j].what = "granted" /\ Alive(L, j)}

\* The hits of a bucket are, in order, grants of its key, and all that are in the window.
IsCount(f, L, K, h, t) ==
  /\ f \in [1 .. Len(h) -> Grants(L, K)]
  /\ \A i, k \in 1 .. Len(h) : i < k => f[i] < f[k]
  /\ \A i \in 1 .. Len(h) : L[f[i]].at = h[i]
  /\ \A j \in Grants(L, K) : L[j].at > t - Window => \E i \in 1 .. Len(h) : f[i] = j

Counts(L, K, h, t) == \E f : IsCount(f, L, K, h, t)

\* Time does not run backwards.
Timely(L, t) ==
  /\ \A i \in 1 .. Len(L) : L[i].at <= t
  /\ \A i, j \in 1 .. Len(L) : i <= j => L[i].at <= L[j].at

\* One bucket for a key.
Distinct(R) == \A i, j \in 1 .. Len(R) : R[i].key = R[j].key => i = j

Filled(R, L, t) ==
  \A p \in 1 .. Len(R) : /\ Len(R[p].hits) <= Limit[R[p].key]
                         /\ Counts(L, R[p].key, R[p].hits, t)

\* The key of every grant that counts has a bucket, or is in X.
Known(R, L, X) ==
  \A j \in 1 .. Len(L) : L[j].what = "granted" /\ Alive(L, j) =>
    L[j].key \in X \/ \E p \in 1 .. Len(R) : R[p].key = L[j].key

\* The order of the table is that of the last uses u of its keys.
IsRecency(u, R, L) ==
  /\ u \in [1 .. Len(R) -> 1 .. Len(L)]
  /\ \A p, q \in 1 .. Len(R) : p < q => u[p] < u[q]
  /\ \A p \in 1 .. Len(R) :
       /\ L[u[p]].key = R[p].key /\ L[u[p]].what # "evicted"
       /\ \A j \in 1 .. Len(L) : j > u[p] => L[j].key # R[p].key

Recent(R, L) == \E u : IsRecency(u, R, L)

\* WindowExact, at one place of a log.
WindowAt(L, i) ==
  /\ L[i].what = "granted" =>
       Cardinality(granted_in_window(L, L[i].key, i)) <= Limit[L[i].key]
  /\ L[i].what = "limited" =>
       \E s \in 1 .. i :
         /\ Cardinality(granted_in_window(L, L[i].key, s) \cap 1 .. i) = Limit[L[i].key]
         /\ L[i].at < L[s].at + Window

\* EvictionNeedsManyKeys, at one place of a log.
UsedSince(L, s, i) == {L[j].key : j \in (s + 1) .. (i + 1)} \ {L[i].key}

EvictionAt(L, i) ==
  L[i].what = "evicted" =>
    \E s \in 1 .. i : /\ L[s].key = L[i].key /\ L[s].what # "evicted"
                      /\ Cardinality(UsedSince(L, s, i)) >= MaxBuckets
                      /\ \A j \in (s + 1) .. (i - 1) : L[j].key # L[i].key

\* A table, a log and a time between two calls of _consume.
LimiterInv(R, L, t) ==
  /\ R \in Seq(Bucket) /\ L \in Seq(Entry) /\ t \in Nat
  /\ Len(R) <= MaxBuckets /\ Distinct(R)
  /\ Timely(L, t) /\ Filled(R, L, t) /\ Known(R, L, {}) /\ Recent(R, L)
  /\ L # <<>> => L[Len(L)].what # "evicted"
  /\ \A i \in 1 .. Len(L) : WindowAt(L, i) /\ EvictionAt(L, i)

-----------------------------------------------------------------------------
(* Sequences. *)

\* A function on an interval is a sequence.
LEMMA SeqMade ==
  ASSUME NEW S, NEW n \in Nat, NEW f \in [1 .. n -> S]
  PROVE  f \in Seq(S) /\ Len(f) = n
  <1>1. f \in Seq(S)
    BY SeqDef
  <1>2. Len(f) \in Nat /\ DOMAIN f = 1 .. Len(f)
    BY <1>1, LenProperties
  <1>3. 1 .. Len(f) = 1 .. n
    BY <1>2
  <1> QED  BY <1>1, <1>2, <1>3

\* A non-empty set of numbers has a least one, for any order that has no infinite descent.
LEMMA LeastOf ==
  ASSUME NEW T \in SUBSET Nat, NEW R, IsWellFoundedOn(R, Nat), T # {},
         \A x, y \in Nat : y < x => <<y, x>> \in R
  PROVE  \E x \in T : \A y \in T : x <= y
  <1>1. PICK x \in T : \A y \in T : ~(<<y, x>> \in R)
    BY WFMin, Zenon
  <1>2. ASSUME NEW y \in T PROVE x <= y
    <2>1. x \in Nat /\ y \in Nat
      OBVIOUS
    <2>2. ~(y < x)
      BY <1>1, <2>1, Zenon
    <2> QED  BY <2>1, <2>2
  <1> QED  BY <1>2

\* A non-empty set of natural numbers has a least one.
LEMMA Least ==
  ASSUME NEW T \in SUBSET Nat, T # {}
  PROVE  \E x \in T : \A y \in T : x <= y
  <1> DEFINE R == OpToRel(<, Nat)
  <1>1. IsWellFoundedOn(R, Nat)
    BY NatLessThanWellFounded
  <1>2. \A x, y \in Nat : y < x => <<y, x>> \in R
    BY DEF OpToRel
  <1> HIDE DEF R
  <1> QED  BY <1>1, <1>2, LeastOf, Zenon

\* without removes one place.
LEMMA WithoutOne ==
  ASSUME NEW S, NEW s \in Seq(S), NEW p \in 1 .. Len(s)
  PROVE  /\ without(s, p) \in Seq(S) /\ Len(without(s, p)) = Len(s) - 1
         /\ \A j \in 1 .. Len(s) - 1 : without(s, p)[j] = IF j < p THEN s[j] ELSE s[j + 1]
  <1> DEFINE w == without(s, p)
  <1>1. Len(s) \in Nat /\ Len(s) - 1 \in Nat /\ \A j \in 1 .. Len(s) : s[j] \in S
    BY LenProperties, ElementOfSeq
  <1>2. w \in [1 .. Len(s) - 1 -> S]
    BY <1>1 DEF without
  <1>3. \A j \in 1 .. Len(s) - 1 : w[j] = IF j < p THEN s[j] ELSE s[j + 1]
    BY DEF without
  <1> HIDE DEF w
  <1>4. w \in Seq(S) /\ Len(w) = Len(s) - 1
    BY <1>1, <1>2, SeqMade
  <1>5. w = without(s, p)
    BY DEF w
  <1> QED  BY <1>3, <1>4, <1>5, Zenon

\* An increasing function of 1 .. n takes n values.
LEMMA CountOf ==
  ASSUME NEW n \in Nat, NEW C, \A x \in C : x \in Int, NEW f \in [1 .. n -> C],
         \A y \in C : \E i \in 1 .. n : f[i] = y,
         \A i, k \in 1 .. n : i < k => f[i] < f[k]
  PROVE  IsFiniteSet(C) /\ Cardinality(C) = n
  <1>2. \A i, k \in 1 .. n : f[i] = f[k] => i = k
    <2> SUFFICES ASSUME NEW i \in 1 .. n, NEW k \in 1 .. n, f[i] = f[k] PROVE i = k
      OBVIOUS
    <2>0. f[i] \in C /\ f[k] \in C
      OBVIOUS
    <2>1. f[i] \in Int /\ f[k] \in Int /\ i \in Int /\ k \in Int
      BY <2>0
    <2>2. (i < k => f[i] < f[k]) /\ (k < i => f[k] < f[i])
      OBVIOUS
    <2> QED  BY <2>1, <2>2
  <1>3. f \in Bijection(1 .. n, C)
    BY <1>2 DEF Bijection, Injection, Surjection, IsInjective
  <1>4. IsFiniteSet(1 .. n) /\ Cardinality(1 .. n) = n
    <2>0. 1 \in Int /\ n \in Int
      OBVIOUS
    <2>1. IsFiniteSet(1 .. n) /\ Cardinality(1 .. n) = IF 1 > n THEN 0 ELSE n - 1 + 1
      BY <2>0, FS_Interval, Zenon
    <2> QED  BY <2>1
  <1>5. IsFiniteSet(C) /\ Cardinality(C) = Cardinality(1 .. n)
    BY <1>3, <1>4, FS_Bijection DEF ExistsBijection
  <1> QED  BY <1>4, <1>5
-----------------------------------------------------------------------------
(* The log. *)

Follows(L2, L, e) ==
  /\ L2 \in Seq(Entry) /\ Len(L2) = Len(L) + 1
  /\ \A i \in 1 .. Len(L) : L2[i] = L[i]
  /\ L2[Len(L) + 1] = e

LEMMA AppendFollows ==
  ASSUME NEW L \in Seq(Entry), NEW e \in Entry
  PROVE  Follows(Append(L, e), L, e)
  BY AppendProperties DEF Follows

\* An entry ends the life of a bucket when it is the eviction of its key, and only then.
LEMMA AliveFollows ==
  ASSUME NEW L \in Seq(Entry), NEW e \in Entry, NEW L2, Follows(L2, L, e)
  PROVE  /\ \A j \in 1 .. Len(L) :
              Alive(L2, j) <=> Alive(L, j) /\ (e.key = L[j].key => e.what # "evicted")
         /\ e.what # "evicted" => Alive(L2, Len(L) + 1)
  <1> DEFINE n == Len(L)
  <1>1. n \in Nat /\ Len(L2) = n + 1 /\ L2[n + 1] = e /\ \A i \in 1 .. n : L2[i] = L[i]
    BY LenProperties DEF Follows
  <1>2. ASSUME NEW j \in 1 .. n
        PROVE  Alive(L2, j) <=> Alive(L, j) /\ (e.key = L[j].key => e.what # "evicted")
    <2>1. j .. n + 1 = (j .. n) \cup {n + 1}
      BY <1>1
    <2>2. \A i \in j .. n : L2[i] = L[i]
      BY <1>1
    <2>3. L2[j] = L[j]
      BY <1>1
    <2> HIDE DEF n
    <2> QED  BY <1>1, <2>1, <2>2, <2>3 DEF Alive, n
  <1>3. e.what # "evicted" => Alive(L2, n + 1)
    <2>1. (n + 1) .. (n + 1) = {n + 1}
      BY <1>1
    <2> QED  BY <1>1, <2>1 DEF Alive
  <1> QED  BY <1>2, <1>3

\* What an entry does to the grants that count for a key.
LEMMA GrantsFollow ==
  ASSUME NEW L \in Seq(Entry), NEW e \in Entry, NEW L2, Follows(L2, L, e), NEW K
  PROVE  /\ K # e.key \/ e.what = "limited" => Grants(L2, K) = Grants(L, K)
         /\ K = e.key /\ e.what = "evicted" => Grants(L2, K) = {}
         /\ K = e.key /\ e.what = "granted" => Grants(L2, K) = Grants(L, K) \cup {Len(L) + 1}
  <1> DEFINE n == Len(L)
  <1>1. n \in Nat /\ Len(L2) = n + 1 /\ L2[n + 1] = e /\ \A i \in 1 .. n : L2[i] = L[i]
    BY LenProperties DEF Follows
  <1>2. 1 .. n + 1 = (1 .. n) \cup {n + 1} /\ n + 1 \notin 1 .. n
    BY <1>1
  <1>3. /\ \A j \in 1 .. n :
             Alive(L2, j) <=> Alive(L, j) /\ (e.key = L[j].key => e.what # "evicted")
        /\ e.what # "evicted" => Alive(L2, n + 1)
    BY AliveFollows
  <1> HIDE DEF n
  <1>4. Grants(L, K) = {j \in 1 .. n : L[j].key = K /\ L[j].what = "granted" /\ Alive(L, j)}
    BY DEF Grants, n
  <1>5. Grants(L2, K) = {j \in 1 .. n + 1 : L2[j].key = K /\ L2[j].what = "granted" /\ Alive(L2, j)}
    BY <1>1 DEF Grants
  <1>6. \A j \in 1 .. n :
          j \in Grants(L2, K) <=> j \in Grants(L, K) /\ (e.key = K => e.what # "evicted")
    BY <1>1, <1>2, <1>3, <1>4, <1>5
  <1>7. n + 1 \in Grants(L2, K) <=> K = e.key /\ e.what = "granted"
    BY <1>1, <1>2, <1>3, <1>5
  <1>8. Grants(L, K) \subseteq 1 .. n /\ Grants(L2, K) \subseteq (1 .. n) \cup {n + 1}
    BY <1>2, <1>4, <1>5
  <1> QED  BY <1>2, <1>6, <1>7, <1>8 DEF n

LEMMA GrantsAreGrants ==
  ASSUME NEW L \in Seq(Entry), NEW K, NEW j \in Grants(L, K)
  PROVE  j \in 1 .. Len(L) /\ j \in Int /\ Len(L) \in Nat
           /\ L[j].key = K /\ L[j].what = "granted" /\ Alive(L, j) /\ L[j] \in Entry
  <1>1. j \in 1 .. Len(L) /\ L[j].key = K /\ L[j].what = "granted" /\ Alive(L, j)
    BY DEF Grants
  <1>2. Len(L) \in Nat
    BY LenProperties
  <1> QED  BY <1>1, <1>2, ElementOfSeq

\* A bucket still counts its key after an entry that does not concern it.
LEMMA CountsFollow ==
  ASSUME NEW L \in Seq(Entry), NEW e \in Entry, NEW L2, Follows(L2, L, e), NEW K, NEW h, NEW t,
         K # e.key \/ e.what = "limited", Counts(L, K, h, t)
  PROVE  Counts(L2, K, h, t)
  <1>1. PICK f : IsCount(f, L, K, h, t)
    BY DEF Counts
  <1>2. Grants(L2, K) = Grants(L, K)
    BY GrantsFollow
  <1>3. \A j \in Grants(L, K) : L2[j] = L[j]
    BY GrantsAreGrants DEF Follows
  <1>4. \A i \in 1 .. Len(h) : f[i] \in Grants(L, K)
    BY <1>1 DEF IsCount
  <1>5. IsCount(f, L2, K, h, t)
    BY <1>1, <1>2, <1>3, <1>4 DEF IsCount
  <1> QED  BY <1>5 DEF Counts

\* A grant goes to the end of its bucket.
LEMMA CountsGranted ==
  ASSUME NEW L \in Seq(Entry), NEW e \in Entry, NEW L2, Follows(L2, L, e),
         e.what = "granted", NEW h \in Seq(Nat), Counts(L, e.key, h, e.at)
  PROVE  Counts(L2, e.key, Append(h, e.at), e.at)
  <1> DEFINE K == e.key
             n == Len(L)
             m == Len(h)
             h2 == Append(h, e.at)
  <1>1. PICK f : IsCount(f, L, K, h, e.at)
    BY DEF Counts
  <1>2. e.at \in Nat /\ n \in Nat /\ m \in Nat
    BY LenProperties DEF Entry
  <1>3. Len(h2) = m + 1 /\ h2[m + 1] = e.at /\ \A i \in 1 .. m : h2[i] = h[i]
    BY <1>2, AppendProperties
  <1>4. Grants(L2, K) = Grants(L, K) \cup {n + 1}
    BY GrantsFollow
  <1>5. \A j \in Grants(L, K) : j \in 1 .. n /\ j \in Int /\ L2[j] = L[j]
    BY GrantsAreGrants DEF Follows
  <1>6. L2[n + 1] = e
    BY DEF Follows
  <1> DEFINE f2 == [i \in 1 .. m + 1 |-> IF i <= m THEN f[i] ELSE n + 1]
  <1> HIDE DEF h2, K, n, m
  <1>7. /\ \A i \in 1 .. m : f[i] \in Grants(L, K) /\ L[f[i]].at = h[i]
        /\ \A i, k \in 1 .. m : i < k => f[i] < f[k]
        /\ \A j \in Grants(L, K) : L[j].at > e.at - Window => \E i \in 1 .. m : f[i] = j
    BY <1>1 DEF IsCount, m
  <1>8. f2[m + 1] = n + 1 /\ \A i \in 1 .. m : f2[i] = f[i] /\ i \in 1 .. m + 1
    BY <1>2
  <1>9. 1 .. m + 1 = (1 .. m) \cup {m + 1}
    BY <1>2
  <1>10. f2 \in [1 .. m + 1 -> Grants(L2, K)]
    BY <1>2, <1>4, <1>7
  <1> HIDE DEF f2
  <1>11. \A i, k \in 1 .. m + 1 : i < k => f2[i] < f2[k]
    <2> SUFFICES ASSUME NEW i \in 1 .. m + 1, NEW k \in 1 .. m + 1, i < k PROVE f2[i] < f2[k]
      OBVIOUS
    <2>1. i \in 1 .. m
      BY <1>2
    <2>2. f2[i] = f[i] /\ f[i] \in 1 .. n
      BY <1>5, <1>7, <1>8, <2>1
    <2>3. CASE k \in 1 .. m
      BY <1>7, <1>8, <2>1, <2>3
    <2>4. CASE k = m + 1
      BY <1>2, <1>8, <2>2, <2>4
    <2> QED  BY <1>9, <2>3, <2>4
  <1>12. \A i \in 1 .. m + 1 : L2[f2[i]].at = h2[i]
    BY <1>3, <1>5, <1>6, <1>7, <1>8, <1>9
  <1>13. \A j \in Grants(L2, K) : L2[j].at > e.at - Window => \E i \in 1 .. m + 1 : f2[i] = j
    <2> SUFFICES ASSUME NEW j \in Grants(L2, K), L2[j].at > e.at - Window
                 PROVE  \E i \in 1 .. m + 1 : f2[i] = j
      OBVIOUS
    <2>1. CASE j = n + 1
      BY <1>8, <1>9, <2>1
    <2>2. CASE j \in Grants(L, K)
      <3>1. L[j].at > e.at - Window
        BY <1>5, <2>2
      <3>2. PICK i \in 1 .. m : f[i] = j
        BY <1>7, <2>2, <3>1
      <3> QED  BY <1>8, <3>2
    <2> QED  BY <1>4, <2>1, <2>2
  <1>14. IsCount(f2, L2, K, h2, e.at)
    BY <1>3, <1>10, <1>11, <1>12, <1>13 DEF IsCount
  <1> QED  BY <1>14 DEF Counts, h2, K
-----------------------------------------------------------------------------
(* Windows. *)

\* fresh_hits drops a prefix, what is left is in the window.
LEMMA FreshPrefix ==
  ASSUME NEW h \in Seq(Nat), clock \in Nat
  PROVE  \E d \in 0 .. Len(h) :
           /\ fresh_hits(h) = [i \in 1 .. Len(h) - d |-> h[d + i]]
           /\ \A i \in 1 .. d : h[i] <= clock - Window
           /\ d < Len(h) => h[d + 1] > clock - Window
  <1> DEFINE m == Len(h)
             T == {n \in 0 .. m : n < m => ~expired(h[n + 1])}
             Drop(n) == /\ \A i \in 1 .. n : expired(h[i])
                        /\ n < m => ~expired(h[n + 1])
  <1>1. m \in Nat /\ Window \in Nat /\ \A i \in 1 .. m : h[i] \in Nat
    BY LenProperties, ElementOfSeq, RequestAssumption
  <1>2. T \in SUBSET Nat /\ m \in T
    BY <1>1
  <1> HIDE DEF m
  <1>3. PICK d \in T : \A y \in T : d <= y
    <2> HIDE DEF T
    <2> QED  BY <1>2, Least
  <1>4. d \in 0 .. m /\ (d < m => ~expired(h[d + 1]))
    OBVIOUS
  <1>5. ASSUME NEW i \in 1 .. d PROVE expired(h[i])
    <2>1. i - 1 \in 0 .. m /\ ~(d <= i - 1) /\ i - 1 < m /\ (i - 1) + 1 = i
      BY <1>1, <1>4
    <2>2. i - 1 \notin T
      BY <1>3, <2>1
    <2> QED  BY <2>1, <2>2
  <1>6. \E n \in 0 .. m : Drop(n)
    BY <1>4, <1>5
  <1> DEFINE c == CHOOSE n \in 0 .. m : Drop(n)
  <1>7. c \in 0 .. m /\ Drop(c)
    <2> HIDE DEF Drop
    <2> QED  BY <1>6
  <1>8. fresh_hits(h) = [i \in 1 .. m - c |-> h[c + i]]
    BY DEF fresh_hits, m
  <1> HIDE DEF c
  <1>9. \A i \in 1 .. c : h[i] <= clock - Window
    BY <1>7 DEF expired
  <1>10. c < m => h[c + 1] > clock - Window
    <2> SUFFICES ASSUME c < m PROVE h[c + 1] > clock - Window
      OBVIOUS
    <2>1. c + 1 \in 1 .. m
      BY <1>1, <1>7
    <2>2. h[c + 1] \in Nat /\ ~(h[c + 1] <= clock - Window)
      BY <1>1, <1>7, <2>1 DEF expired
    <2> QED  BY <1>1, <2>2
  <1> QED  BY <1>7, <1>8, <1>9, <1>10 DEF m

\* A bucket still counts its key when what has expired is dropped.
LEMMA FreshCounts ==
  ASSUME NEW L \in Seq(Entry), NEW K, NEW h \in Seq(Nat), clock \in Nat,
         Timely(L, clock), Counts(L, K, h, clock)
  PROVE  /\ fresh_hits(h) \in Seq(Nat) /\ Len(fresh_hits(h)) <= Len(h)
         /\ Counts(L, K, fresh_hits(h), clock)
         /\ \A i \in 1 .. Len(fresh_hits(h)) : fresh_hits(h)[i] > clock - Window
  <1> DEFINE m == Len(h)
  <1>1. PICK d \in 0 .. m : /\ fresh_hits(h) = [i \in 1 .. m - d |-> h[d + i]]
                            /\ \A i \in 1 .. d : h[i] <= clock - Window
                            /\ d < m => h[d + 1] > clock - Window
    BY FreshPrefix
  <1>2. PICK f : IsCount(f, L, K, h, clock)
    BY DEF Counts
  <1>3. m \in Nat /\ Window \in Nat /\ \A i \in 1 .. m : h[i] \in Nat
    BY LenProperties, ElementOfSeq, RequestAssumption
  <1>4. /\ \A i \in 1 .. m : f[i] \in Grants(L, K) /\ L[f[i]].at = h[i]
        /\ \A i, k \in 1 .. m : i < k => f[i] < f[k]
        /\ \A j \in Grants(L, K) : L[j].at > clock - Window => \E i \in 1 .. m : f[i] = j
    BY <1>2 DEF IsCount
  <1>5. \A j \in Grants(L, K) : j \in 1 .. Len(L) /\ j \in Int /\ L[j].at \in Nat
    BY GrantsAreGrants DEF Entry
  <1> DEFINE w == m - d
             g == [i \in 1 .. w |-> h[d + i]]
             f2 == [i \in 1 .. w |-> f[d + i]]
  <1>6. w \in Nat /\ w <= m /\ \A i \in 1 .. w : d + i \in 1 .. m
    BY <1>3
  <1>7. g \in [1 .. w -> Nat] /\ f2 \in [1 .. w -> Grants(L, K)]
    BY <1>3, <1>4, <1>6
  <1>8. \A i \in 1 .. w : g[i] = h[d + i] /\ f2[i] = f[d + i]
    OBVIOUS
  <1>9. fresh_hits(h) = g
    BY <1>1
  <1> HIDE DEF g, f2, m
  <1>10. g \in Seq(Nat) /\ Len(g) = w
    BY <1>6, <1>7, SeqMade
  <1>11. \A i, k \in 1 .. m : i <= k => h[i] <= h[k]
    <2> SUFFICES ASSUME NEW i \in 1 .. m, NEW k \in 1 .. m, i <= k PROVE h[i] <= h[k]
      OBVIOUS
    <2>0. i \in Int /\ k \in Int /\ h[i] \in Nat /\ h[k] \in Nat
      BY <1>3
    <2>1. CASE i = k
      BY <2>0, <2>1
    <2>2. CASE i < k
      <3>1. f[i] < f[k] /\ f[i] \in 1 .. Len(L) /\ f[k] \in 1 .. Len(L) /\ f[i] \in Int /\ f[k] \in Int
        BY <1>4, <1>5, <2>2
      <3>2. f[i] <= f[k]
        BY <3>1
      <3>3. L[f[i]].at <= L[f[k]].at
        BY <3>1, <3>2 DEF Timely
      <3> QED  BY <1>4, <3>3
    <2> QED  BY <2>0, <2>1, <2>2
  <1>12. ASSUME NEW i \in 1 .. w PROVE g[i] > clock - Window
    <2>1. d < m /\ d + 1 \in 1 .. m /\ d + i \in 1 .. m /\ d + 1 <= d + i
      BY <1>3
    <2>2. h[d + 1] > clock - Window /\ h[d + 1] <= h[d + i] /\ h[d + 1] \in Nat /\ h[d + i] \in Nat
      BY <1>1, <1>3, <1>11, <2>1
    <2> QED  BY <1>3, <1>8, <2>2
  <1>13. \A i, k \in 1 .. w : i < k => f2[i] < f2[k]
    <2> SUFFICES ASSUME NEW i \in 1 .. w, NEW k \in 1 .. w, i < k PROVE f2[i] < f2[k]
      OBVIOUS
    <2>1. d + i \in 1 .. m /\ d + k \in 1 .. m /\ d + i < d + k
      BY <1>3
    <2> QED  BY <1>4, <1>8, <2>1
  <1>14. \A i \in 1 .. w : L[f2[i]].at = g[i]
    BY <1>4, <1>6, <1>8
  <1>15. ASSUME NEW j \in Grants(L, K), L[j].at > clock - Window
         PROVE  \E i \in 1 .. w : f2[i] = j
    <2>1. PICK i \in 1 .. m : f[i] = j
      BY <1>4, <1>15
    <2>2. h[i] > clock - Window /\ h[i] \in Nat
      BY <1>3, <1>4, <1>15, <2>1
    <2>3. ~(i <= d)
      <3>1. i <= d => i \in 1 .. d
        BY <1>3
      <3>2. i <= d => h[i] <= clock - Window
        BY <1>1, <3>1
      <3> QED  BY <1>3, <2>2, <3>2
    <2>4. i - d \in 1 .. w /\ d + (i - d) = i
      BY <1>3, <2>3
    <2> QED  BY <1>8, <2>1, <2>4
  <1>16. IsCount(f2, L, K, g, clock)
    BY <1>7, <1>10, <1>13, <1>14, <1>15 DEF IsCount
  <1>17. Counts(L, K, g, clock)
    BY <1>16 DEF Counts
  <1>18. Len(g) <= Len(h)
    BY <1>6, <1>10 DEF m
  <1> QED  BY <1>9, <1>10, <1>12, <1>17, <1>18

\* The grants of a window that is still open are hits of the bucket, and the window that
\* begins with the first hit has them all.
LEMMA OpenWindows ==
  ASSUME NEW L \in Seq(Entry), NEW K, NEW h \in Seq(Nat), NEW t \in Nat,
         Timely(L, t), Counts(L, K, h, t), \A i \in 1 .. Len(h) : h[i] > t - Window
  PROVE  /\ \A i \in 1 .. Len(L) :
              L[i].key = K /\ Alive(L, i) /\ t < L[i].at + Window =>
                /\ IsFiniteSet(granted_in_window(L, K, i))
                /\ Cardinality(granted_in_window(L, K, i)) <= Len(h)
         /\ Len(h) > 0 =>
              \E s \in 1 .. Len(L) : /\ Cardinality(granted_in_window(L, K, s)) = Len(h)
                                     /\ t < L[s].at + Window
  <1> DEFINE m == Len(h)
             n == Len(L)
  <1>1. PICK f : IsCount(f, L, K, h, t)
    BY DEF Counts
  <1>a. /\ m \in Nat /\ n \in Nat /\ Window \in Nat /\ DOMAIN L = 1 .. n
        /\ \A i \in 1 .. m : h[i] \in Nat
    BY LenProperties, ElementOfSeq, RequestAssumption
  <1>b. \A j \in 1 .. n : L[j] \in Entry
    BY ElementOfSeq
  <1>2. /\ m \in Nat /\ n \in Nat /\ Window \in Nat /\ DOMAIN L = 1 .. n
        /\ \A i \in 1 .. m : h[i] \in Nat
        /\ \A j \in 1 .. n : L[j] \in Entry /\ L[j].at \in Nat
    BY <1>a, <1>b DEF Entry
  <1>3. /\ f \in [1 .. m -> Grants(L, K)]
        /\ \A i \in 1 .. m : f[i] \in Grants(L, K) /\ L[f[i]].at = h[i]
        /\ \A i, k \in 1 .. m : i < k => f[i] < f[k]
        /\ \A j \in Grants(L, K) : L[j].at > t - Window => \E i \in 1 .. m : f[i] = j
    BY <1>1 DEF IsCount
  <1>4. \A j \in Grants(L, K) : j \in Int /\ j \in 1 .. n /\ L[j].key = K /\ L[j].what = "granted"
                                  /\ Alive(L, j)
    BY GrantsAreGrants
  <1> HIDE DEF m, n
  <1> DEFINE C == {f[i] : i \in 1 .. m}
  <1>c. f \in [1 .. m -> C] /\ (\A x \in C : x \in Int) /\ \A y \in C : \E i \in 1 .. m : f[i] = y
    BY <1>3, <1>4
  <1>d. \A i \in 1 .. m : f[i] \in C
    OBVIOUS
  <1> HIDE DEF C
  <1>5. IsFiniteSet(C) /\ Cardinality(C) = m
    BY <1>2, <1>3, <1>c, CountOf
  <1>6. ASSUME NEW i \in 1 .. n, L[i].key = K, Alive(L, i), t < L[i].at + Window
        PROVE  granted_in_window(L, K, i) \subseteq C
    <2> SUFFICES ASSUME NEW j \in granted_in_window(L, K, i) PROVE j \in C
      OBVIOUS
    <2>1. j \in 1 .. n /\ j >= i /\ L[j].key = K /\ L[j].what = "granted"
      BY <1>2 DEF granted_in_window
    <2>2. i \in Int /\ j \in Int /\ i <= j
      BY <2>1, <1>2
    <2>3. Alive(L, j)
      <3>1. \A e \in j .. n : e \in i .. n
        BY <1>2, <2>2
      <3> QED  BY <1>6, <2>1, <3>1 DEF Alive, n
    <2>4. L[i].at <= L[j].at
      BY <2>1, <2>2 DEF Timely, n
    <2>5. L[j].at > t - Window
      BY <1>2, <1>6, <2>1, <2>4
    <2>6. j \in Grants(L, K)
      BY <2>1, <2>3 DEF Grants, n
    <2> QED  BY <1>3, <1>d, <2>5, <2>6
  <1>7. ASSUME m > 0
        PROVE  \E s \in 1 .. n : /\ Cardinality(granted_in_window(L, K, s)) = m
                                 /\ t < L[s].at + Window
    <2> DEFINE s == f[1]
    <2>1. 1 \in 1 .. m
      BY <1>2, <1>7
    <2>2. s \in Grants(L, K) /\ s \in 1 .. n /\ s \in Int /\ L[s].key = K /\ Alive(L, s)
          /\ L[s].at = h[1]
      BY <1>3, <1>4, <2>1
    <2>3. t < L[s].at + Window
      <3>1. h[1] > t - Window /\ h[1] \in Nat
        BY <1>2, <2>1 DEF m
      <3> QED  BY <1>2, <2>2, <3>1
    <2>4. granted_in_window(L, K, s) \subseteq C
      BY <1>6, <2>2, <2>3
    <2>5. ASSUME NEW i \in 1 .. m PROVE f[i] \in granted_in_window(L, K, s)
      <3>1. f[i] \in 1 .. n /\ f[i] \in Int /\ L[f[i]].key = K /\ L[f[i]].what = "granted"
        BY <1>3, <1>4
      <3>2. f[i] >= s
        <4>1. CASE i = 1
          BY <2>2, <4>1
        <4>2. CASE i # 1
          <5>1. 1 < i
            BY <4>2
          <5>2. s < f[i]
            BY <1>3, <2>1, <5>1
          <5> QED  BY <2>2, <3>1, <5>2
        <4> QED  BY <4>1, <4>2
      <3>3. L[f[i]].at <= t
        BY <3>1 DEF Timely, n
      <3>4. L[f[i]].at < L[s].at + Window
        BY <1>2, <2>2, <2>3, <3>1, <3>3
      <3>5. \A e \in s .. f[i] : e \in s .. n
        BY <1>2, <2>2, <3>1
      <3>6. \A e \in s .. f[i] : L[e].key = K => L[e].what # "evicted"
        BY <2>2, <3>5 DEF Alive, n
      <3> HIDE DEF s
      <3> QED  BY <1>2, <3>1, <3>2, <3>4, <3>6 DEF granted_in_window
    <2>6. granted_in_window(L, K, s) = C
      <3> HIDE DEF s
      <3> QED  BY <1>c, <2>4, <2>5
    <2> QED  BY <1>5, <2>2, <2>3, <2>6
  <1>8. ASSUME NEW i \in 1 .. n, L[i].key = K, Alive(L, i), t < L[i].at + Window
        PROVE  /\ IsFiniteSet(granted_in_window(L, K, i))
               /\ Cardinality(granted_in_window(L, K, i)) <= m
    BY <1>5, <1>6, <1>8, FS_Subset
  <1> QED  BY <1>7, <1>8 DEF m, n
\* An entry belongs to a window only when it is a grant of its key that comes in time, and
\* the key was not forgotten in between.
LEMMA WindowFollows ==
  ASSUME NEW L \in Seq(Entry), NEW e \in Entry, NEW L2, Follows(L2, L, e), NEW K,
         NEW i \in 1 .. Len(L)
  PROVE  /\ \A j \in 1 .. Len(L) :
              j \in granted_in_window(L2, K, i) <=> j \in granted_in_window(L, K, i)
         /\ granted_in_window(L, K, i) \subseteq 1 .. Len(L)
         /\ granted_in_window(L2, K, i) \subseteq 1 .. Len(L) + 1
         /\ Len(L) + 1 \in granted_in_window(L2, K, i) =>
              /\ e.key = K /\ e.what = "granted" /\ e.at < L[i].at + Window
              /\ L[i].key = K => Alive(L, i)
  <1> DEFINE n == Len(L)
  <1>1. /\ n \in Nat /\ DOMAIN L = 1 .. n /\ DOMAIN L2 = 1 .. n + 1
        /\ L2[n + 1] = e /\ \A j \in 1 .. n : L2[j] = L[j]
    BY LenProperties DEF Follows
  <1> HIDE DEF n
  <1>2. i \in 1 .. n /\ n + 1 \in 1 .. n + 1 /\ \A j \in 1 .. n : j \in 1 .. n + 1
    BY <1>1 DEF n
  <1>3. ASSUME NEW j \in 1 .. n
        PROVE  j \in granted_in_window(L2, K, i) <=> j \in granted_in_window(L, K, i)
    <2>1. \A k \in i .. j : L2[k] = L[k]
      BY <1>1, <1>2
    <2>2. L2[j] = L[j] /\ L2[i] = L[i] /\ j \in DOMAIN L /\ j \in DOMAIN L2
      BY <1>1, <1>2
    <2> QED  BY <2>1, <2>2 DEF granted_in_window
  <1>4. granted_in_window(L, K, i) \subseteq 1 .. n
    BY <1>1 DEF granted_in_window
  <1>5. granted_in_window(L2, K, i) \subseteq 1 .. n + 1
    BY <1>1 DEF granted_in_window
  <1>6. ASSUME n + 1 \in granted_in_window(L2, K, i)
        PROVE  /\ e.key = K /\ e.what = "granted" /\ e.at < L[i].at + Window
               /\ L[i].key = K => Alive(L, i)
    <2>1. /\ L2[n + 1].key = K /\ L2[n + 1].what = "granted" /\ L2[n + 1].at < L2[i].at + Window
          /\ \A k \in i .. n + 1 : L2[k].key = K => L2[k].what # "evicted"
      BY <1>6 DEF granted_in_window
    <2>2. \A k \in i .. n : k \in i .. n + 1 /\ L2[k] = L[k]
      BY <1>1, <1>2
    <2>3. \A k \in i .. n : L[k].key = K => L[k].what # "evicted"
      BY <2>1, <2>2
    <2>4. L2[i] = L[i]
      BY <1>1, <1>2
    <2> QED  BY <1>1, <2>1, <2>3, <2>4 DEF Alive, n
  <1> QED  BY <1>3, <1>4, <1>5, <1>6 DEF n

\* The windows that began before an entry keep the limit, when there is room for a grant.
LEMMA WindowsKept ==
  ASSUME NEW L \in Seq(Entry), NEW e \in Entry, NEW L2, Follows(L2, L, e),
         \A i \in 1 .. Len(L) : WindowAt(L, i),
         e.what = "granted" =>
           \A i \in 1 .. Len(L) : L[i].key = e.key /\ Alive(L, i) /\ e.at < L[i].at + Window =>
             /\ IsFiniteSet(granted_in_window(L, e.key, i))
             /\ Cardinality(granted_in_window(L, e.key, i)) < Limit[e.key]
  PROVE  \A i \in 1 .. Len(L) : WindowAt(L2, i)
  <1> SUFFICES ASSUME NEW i \in 1 .. Len(L) PROVE WindowAt(L2, i)
    OBVIOUS
  <1> DEFINE n == Len(L)
             K == L[i].key
  <1>1. n \in Nat /\ L2[i] = L[i] /\ i \in 1 .. n /\ L[i] \in Entry
    BY LenProperties, ElementOfSeq DEF Follows
  <1>2. ASSUME L[i].what = "granted"
        PROVE  Cardinality(granted_in_window(L2, K, i)) <= Limit[K]
    <2> DEFINE G == granted_in_window(L, K, i)
               G2 == granted_in_window(L2, K, i)
    <2>1. Cardinality(G) <= Limit[K]
      BY <1>2 DEF WindowAt
    <2>2. /\ \A j \in 1 .. n : j \in G2 <=> j \in G
          /\ G \subseteq 1 .. n /\ G2 \subseteq 1 .. n + 1
          /\ n + 1 \in G2 =>
               e.key = K /\ e.what = "granted" /\ e.at < L[i].at + Window /\ Alive(L, i)
      BY WindowFollows
    <2> HIDE DEF G, G2, n
    <2>3. \A j \in 1 .. n + 1 : j \in 1 .. n \/ j = n + 1
      BY <1>1
    <2>4. CASE n + 1 \notin G2
      <3>1. G2 = G
        <4>1. \A j \in G2 : j \in G
          BY <2>2, <2>3, <2>4
        <4>2. \A j \in G : j \in G2
          BY <2>2
        <4> QED  BY <4>1, <4>2
      <3> QED  BY <2>1, <3>1 DEF G2
    <2>5. CASE n + 1 \in G2
      <3>1. IsFiniteSet(G) /\ Cardinality(G) < Limit[K]
        BY <2>2, <2>5 DEF G, n
      <3>2. G2 = G \cup {n + 1}
        <4>1. \A j \in G2 : j \in G \/ j = n + 1
          BY <2>2, <2>3
        <4>2. \A j \in G : j \in G2
          BY <2>2
        <4> QED  BY <2>5, <4>1, <4>2
      <3>3. n + 1 \notin G
        <4>1. n + 1 \notin 1 .. n
          BY <1>1
        <4> QED  BY <2>2, <4>1
      <3>4. Cardinality(G2) = Cardinality(G) + 1 /\ Cardinality(G) \in Nat
        BY <3>1, <3>2, <3>3, FS_AddElement, FS_CardinalityType
      <3>5. Limit[K] \in Nat
        BY <1>1, LimitAssumption DEF Entry
      <3> QED  BY <3>1, <3>4, <3>5 DEF G2
    <2> QED  BY <2>4, <2>5
  <1>3. ASSUME L[i].what = "limited"
        PROVE  \E s \in 1 .. i :
                 /\ Cardinality(granted_in_window(L2, K, s) \cap 1 .. i) = Limit[K]
                 /\ L2[i].at < L2[s].at + Window
    <2>1. PICK s \in 1 .. i :
            /\ Cardinality(granted_in_window(L, K, s) \cap 1 .. i) = Limit[K]
            /\ L[i].at < L[s].at + Window
      BY <1>3 DEF WindowAt
    <2>2. s \in 1 .. n /\ L2[s] = L[s] /\ \A j \in 1 .. i : j \in 1 .. n
      BY <1>1 DEF Follows
    <2>3. \A j \in 1 .. n : j \in granted_in_window(L2, K, s) <=> j \in granted_in_window(L, K, s)
      BY <2>2, WindowFollows
    <2>4. granted_in_window(L2, K, s) \cap 1 .. i = granted_in_window(L, K, s) \cap 1 .. i
      BY <2>2, <2>3
    <2> QED  BY <1>1, <2>1, <2>2, <2>4
  <1> QED  BY <1>1, <1>2, <1>3 DEF WindowAt

\* A grant begins a window of its own; what is refused comes within a window that is full.
LEMMA WindowMade ==
  ASSUME NEW L \in Seq(Entry), NEW e \in Entry, NEW L2, Follows(L2, L, e),
         e.what = "limited" =>
           \E s \in 1 .. Len(L) : /\ Cardinality(granted_in_window(L, e.key, s)) = Limit[e.key]
                                  /\ e.at < L[s].at + Window
  PROVE  WindowAt(L2, Len(L) + 1)
  <1> DEFINE n == Len(L)
             K == e.key
  <1>1. n \in Nat /\ L2[n + 1] = e /\ DOMAIN L2 = 1 .. n + 1
    BY LenProperties DEF Follows
  <1>2. Limit[K] \in Nat \ {0}
    BY LimitAssumption DEF Entry
  <1>3. ASSUME e.what = "granted"
        PROVE  Cardinality(granted_in_window(L2, K, n + 1)) <= Limit[K]
    <2>1. \A j \in 1 .. n + 1 : j >= n + 1 => j = n + 1
      BY <1>1
    <2>2. granted_in_window(L2, K, n + 1) \in SUBSET {n + 1}
      BY <1>1, <2>1 DEF granted_in_window
    <2> DEFINE G2 == granted_in_window(L2, K, n + 1)
    <2>3. IsFiniteSet({n + 1}) /\ Cardinality({n + 1}) = 1
      BY FS_Singleton
    <2>4. IsFiniteSet(G2) /\ Cardinality(G2) <= Cardinality({n + 1})
      BY <2>2, <2>3, FS_Subset
    <2>5. Cardinality(G2) \in Nat
      BY <2>4, FS_CardinalityType
    <2> HIDE DEF G2
    <2> QED  BY <1>2, <2>3, <2>4, <2>5 DEF G2
  <1>4. ASSUME e.what = "limited"
        PROVE  \E s \in 1 .. n + 1 :
                 /\ Cardinality(granted_in_window(L2, K, s) \cap 1 .. n + 1) = Limit[K]
                 /\ e.at < L2[s].at + Window
    <2>1. PICK s \in 1 .. n : /\ Cardinality(granted_in_window(L, K, s)) = Limit[K]
                              /\ e.at < L[s].at + Window
      BY <1>4
    <2> DEFINE G == granted_in_window(L, K, s)
               G2 == granted_in_window(L2, K, s)
    <2>2. /\ \A j \in 1 .. n : j \in G2 <=> j \in G
          /\ G \subseteq 1 .. n /\ G2 \subseteq 1 .. n + 1
          /\ n + 1 \in G2 => e.what = "granted"
      BY WindowFollows
    <2>3. s \in 1 .. n + 1 /\ L2[s] = L[s] /\ \A j \in 1 .. n + 1 : j \in 1 .. n \/ j = n + 1
      BY <1>1 DEF Follows
    <2>4. n + 1 \notin G2
      BY <1>4, <2>2
    <2>5. G2 \cap 1 .. n + 1 = G
      <3> HIDE DEF G, G2, n
      <3>1. \A j \in G2 : j \in G
        BY <2>2, <2>3, <2>4
      <3>2. \A j \in G : j \in G2
        BY <2>2
      <3> QED  BY <2>2, <3>1, <3>2
    <2> QED  BY <2>1, <2>3, <2>5
  <1> QED  BY <1>1, <1>3, <1>4 DEF WindowAt

-----------------------------------------------------------------------------
(* Evictions. *)

\* What was used since an eviction does not change.
LEMMA EvictionsKept ==
  ASSUME NEW L \in Seq(Entry), NEW e \in Entry, NEW L2, Follows(L2, L, e),
         NEW i \in 1 .. Len(L), L[i].what = "evicted" => i < Len(L), EvictionAt(L, i)
  PROVE  EvictionAt(L2, i)
  <1> DEFINE n == Len(L)
  <1>1. n \in Nat /\ \A j \in 1 .. n : L2[j] = L[j]
    BY LenProperties DEF Follows
  <1>2. SUFFICES ASSUME L[i].what = "evicted" PROVE EvictionAt(L2, i)
    BY <1>1 DEF EvictionAt
  <1>3. PICK s \in 1 .. i : /\ L[s].key = L[i].key /\ L[s].what # "evicted"
                            /\ Cardinality(UsedSince(L, s, i)) >= MaxBuckets
                            /\ \A j \in (s + 1) .. (i - 1) : L[j].key # L[i].key
    BY <1>2 DEF EvictionAt
  <1>4. \A j \in (s + 1) .. (i + 1) : L2[j] = L[j]
    <2>1. i < n
      BY <1>2
    <2> QED  BY <1>1, <2>1
  <1>5. L2[s] = L[s] /\ L2[i] = L[i] /\ \A j \in (s + 1) .. (i - 1) : L2[j] = L[j]
    BY <1>1
  <1>6. UsedSince(L2, s, i) = UsedSince(L, s, i)
    BY <1>4, <1>5 DEF UsedSince
  <1> QED  BY <1>3, <1>5, <1>6 DEF EvictionAt

\* The first of a full table was used before the keys of all other places and before the key
\* that takes its place.
LEMMA EvictionEarned ==
  ASSUME NEW R \in Seq(Bucket), NEW L \in Seq(Entry), NEW u, IsRecency(u, R, L), Distinct(R),
         Len(R) >= MaxBuckets,
         NEW e \in Entry, e.what = "evicted", e.key = R[1].key, NEW L1, Follows(L1, L, e),
         NEW a \in Entry, NEW L2, Follows(L2, L1, a),
         \A p \in 1 .. Len(R) : R[p].key # a.key
  PROVE  EvictionAt(L2, Len(L) + 1)
  <1> DEFINE n == Len(L)
             m == Len(R)
             s == u[1]
             Seen == {L2[j].key : j \in (s + 1) .. (n + 2)}
             Used == UsedSince(L2, s, n + 1)
             g == [p \in 1 .. m |-> IF p = 1 THEN a.key ELSE R[p].key]
  <1>1. n \in Nat /\ m \in Nat /\ MaxBuckets \in Nat /\ 1 \in 1 .. m
    BY LenProperties, RequestAssumption
  <1>2. /\ \A p \in 1 .. m : u[p] \in 1 .. n /\ L[u[p]].key = R[p].key /\ L[u[p]].what # "evicted"
        /\ \A p, q \in 1 .. m : p < q => u[p] < u[q]
        /\ \A j \in 1 .. n : j > s => L[j].key # R[1].key
    BY <1>1 DEF IsRecency
  <1>3. /\ \A j \in 1 .. n : L2[j] = L[j]
        /\ L2[n + 1] = e /\ L2[n + 2] = a
    <2>1. Len(L1) = n + 1 /\ L1[n + 1] = e /\ \A j \in 1 .. n : L1[j] = L[j]
      BY DEF Follows
    <2>2. L2[n + 1 + 1] = a /\ \A j \in 1 .. n + 1 : L2[j] = L1[j]
      BY <2>1 DEF Follows
    <2>3. n + 1 \in 1 .. n + 1 /\ \A j \in 1 .. n : j \in 1 .. n + 1
      BY <1>1
    <2>4. n + 1 + 1 = n + 2
      BY <1>1
    <2> QED  BY <2>1, <2>2, <2>3, <2>4
  <1>4. s \in 1 .. n /\ L2[s] = L[s] /\ L[s].key = R[1].key /\ L[s].what # "evicted"
    BY <1>1, <1>2, <1>3
  <1>5. Used = Seen \ {R[1].key}
    <2>1. n + 1 + 1 = n + 2
      BY <1>1
    <2> QED  BY <1>3, <2>1 DEF UsedSince
  <1>6. IsFiniteSet(Used)
    <2> DEFINE f == [j \in (s + 1) .. (n + 2) |-> L2[j].key]
    <2>1. f \in Surjection((s + 1) .. (n + 2), Seen)
      BY DEF Surjection
    <2>2. IsFiniteSet((s + 1) .. (n + 2))
      <3>1. s + 1 \in Int /\ n + 2 \in Int
        BY <1>1, <1>4
      <3> QED  BY <3>1, FS_Interval
    <2> HIDE DEF f, Seen, Used
    <2>3. IsFiniteSet(Seen)
      BY <2>1, <2>2, FS_Surjection
    <2>4. Used \in SUBSET Seen
      BY <1>5
    <2> QED  BY <2>3, <2>4, FS_Subset
  <1>7. \A p \in 1 .. m : g[p] \in Used
    <2> SUFFICES ASSUME NEW p \in 1 .. m PROVE g[p] \in Used
      OBVIOUS
    <2>1. CASE p = 1
      <3>1. n + 2 \in (s + 1) .. (n + 2)
        BY <1>1, <1>4
      <3>2. a.key \in Seen
        BY <1>3, <3>1
      <3> QED  BY <1>1, <1>5, <2>1, <3>2
    <2>2. CASE p # 1
      <3>1. 1 < p
        BY <2>2
      <3>2. s < u[p] /\ u[p] \in 1 .. n
        BY <1>1, <1>2, <3>1
      <3>3. u[p] \in (s + 1) .. (n + 2)
        BY <1>1, <1>4, <3>2
      <3>4. L2[u[p]].key = R[p].key
        BY <1>2, <1>3, <3>2
      <3>5. R[p].key \in Seen
        BY <3>3, <3>4
      <3>6. R[p].key # R[1].key
        BY <1>1, <2>2 DEF Distinct
      <3> QED  BY <1>5, <2>2, <3>5, <3>6
    <2> QED  BY <2>1, <2>2
  <1>8. \A p, q \in 1 .. m : g[p] = g[q] => p = q
    BY DEF Distinct
  <1> HIDE DEF Used
  <1>9. g \in Injection(1 .. m, Used)
    BY <1>7, <1>8 DEF Injection, IsInjective
  <1> HIDE DEF g
  <1>10. Cardinality(1 .. m) <= Cardinality(Used)
    BY <1>6, <1>9, FS_Injection
  <1>11. Cardinality(1 .. m) = m
    <2>1. 1 \in Int /\ m \in Int
      BY <1>1
    <2>2. Cardinality(1 .. m) = IF 1 > m THEN 0 ELSE m - 1 + 1
      <3> HIDE DEF m
      <3> QED  BY <2>1, FS_Interval, Zenon
    <2> QED  BY <1>1, <2>2
  <1>12. Cardinality(Used) >= MaxBuckets
    <2>1. Cardinality(Used) \in Nat
      BY <1>6, FS_CardinalityType
    <2> QED  BY <1>1, <1>10, <1>11, <2>1
  <1>13. \A j \in (s + 1) .. (n + 1 - 1) : L2[j].key # R[1].key
    <2> SUFFICES ASSUME NEW j \in (s + 1) .. (n + 1 - 1) PROVE L2[j].key # R[1].key
      OBVIOUS
    <2>1. j \in 1 .. n /\ j > s
      BY <1>1, <1>4
    <2> QED  BY <1>2, <1>3, <2>1
  <1>14. s \in 1 .. n + 1
    BY <1>1, <1>4
  <1> QED  BY <1>3, <1>4, <1>12, <1>13, <1>14 DEF EvictionAt, Used
-----------------------------------------------------------------------------
(* The table. *)

\* The rest of a table without one place.
LEMMA RestOfTable ==
  ASSUME NEW R \in Seq(Bucket), NEW p \in 1 .. Len(R), Distinct(R)
  PROVE  /\ without(R, p) \in Seq(Bucket) /\ Len(without(R, p)) = Len(R) - 1
         /\ Distinct(without(R, p))
         /\ \A q \in 1 .. Len(without(R, p)) :
              /\ without(R, p)[q].key # R[p].key
              /\ \E k \in 1 .. Len(R) : without(R, p)[q] = R[k]
         /\ \A k \in 1 .. Len(R) : k # p =>
              \E q \in 1 .. Len(without(R, p)) : without(R, p)[q] = R[k]
  <1> DEFINE w == without(R, p)
             m == Len(R)
             back(q) == IF q < p THEN q ELSE q + 1
  <1>1. /\ w \in Seq(Bucket) /\ Len(w) = m - 1 /\ m \in Nat
        /\ \A q \in 1 .. m - 1 : w[q] = IF q < p THEN R[q] ELSE R[q + 1]
    BY WithoutOne, LenProperties
  <1> HIDE DEF w
  <1>2. \A q \in 1 .. m - 1 : back(q) \in 1 .. m /\ back(q) # p /\ w[q] = R[back(q)]
    BY <1>1
  <1>3. \A i, j \in 1 .. m - 1 : back(i) = back(j) => i = j
    BY <1>1
  <1>4. Distinct(w)
    <2> SUFFICES ASSUME NEW i \in 1 .. m - 1, NEW j \in 1 .. m - 1, w[i].key = w[j].key
                 PROVE  i = j
      BY <1>1 DEF Distinct
    <2>1. R[back(i)].key = R[back(j)].key
      BY <1>2
    <2>2. back(i) = back(j)
      BY <1>2, <2>1 DEF Distinct
    <2> QED  BY <1>3, <2>2
  <1>5. \A q \in 1 .. m - 1 : w[q].key # R[p].key /\ \E k \in 1 .. m : w[q] = R[k]
    BY <1>2 DEF Distinct
  <1>6. ASSUME NEW k \in 1 .. m, k # p PROVE \E q \in 1 .. m - 1 : w[q] = R[k]
    <2>1. CASE k < p
      <3>1. k \in 1 .. m - 1
        BY <1>1, <2>1
      <3> QED  BY <1>1, <2>1, <3>1
    <2>2. CASE k > p
      <3>1. k - 1 \in 1 .. m - 1 /\ ~(k - 1 < p) /\ (k - 1) + 1 = k
        BY <1>1, <2>2
      <3>2. w[k - 1] = R[k]
        BY <1>1, <3>1
      <3> QED  BY <3>1, <3>2
    <2> QED  BY <1>6, <2>1, <2>2
  <1> QED  BY <1>1, <1>4, <1>5, <1>6 DEF w

\* The rest of a table is in the order of last use.
LEMMA RestIsRecent ==
  ASSUME NEW R \in Seq(Bucket), NEW L \in Seq(Entry), NEW p \in 1 .. Len(R), Recent(R, L)
  PROVE  Recent(without(R, p), L)
  <1> DEFINE w == without(R, p)
             m == Len(R)
             n == Len(L)
             back(q) == IF q < p THEN q ELSE q + 1
  <1>1. /\ Len(w) = m - 1 /\ m \in Nat
        /\ \A q \in 1 .. m - 1 : w[q] = IF q < p THEN R[q] ELSE R[q + 1]
    BY WithoutOne, LenProperties
  <1> HIDE DEF w
  <1>2. \A q \in 1 .. m - 1 : back(q) \in 1 .. m /\ w[q] = R[back(q)]
    BY <1>1
  <1>3. \A i, j \in 1 .. m - 1 : i < j => back(i) < back(j)
    BY <1>1
  <1>4. PICK u : IsRecency(u, R, L)
    BY DEF Recent
  <1>5. /\ \A i \in 1 .. m : u[i] \in 1 .. n /\ L[u[i]].key = R[i].key /\ L[u[i]].what # "evicted"
        /\ \A i, j \in 1 .. m : i < j => u[i] < u[j]
        /\ \A i \in 1 .. m, j \in 1 .. n : j > u[i] => L[j].key # R[i].key
    BY <1>4 DEF IsRecency
  <1> DEFINE v == [q \in 1 .. m - 1 |-> u[back(q)]]
  <1>6. v \in [1 .. m - 1 -> 1 .. n] /\ \A q \in 1 .. m - 1 : v[q] = u[back(q)]
    BY <1>2, <1>5
  <1> HIDE DEF v, back
  <1>7. \A i, j \in 1 .. m - 1 : i < j => v[i] < v[j]
    BY <1>2, <1>3, <1>5, <1>6
  <1>8. \A q \in 1 .. m - 1 :
          /\ L[v[q]].key = w[q].key /\ L[v[q]].what # "evicted"
          /\ \A j \in 1 .. n : j > v[q] => L[j].key # w[q].key
    <2> SUFFICES ASSUME NEW q \in 1 .. m - 1, NEW k, k = back(q)
                 PROVE  /\ L[v[q]].key = w[q].key /\ L[v[q]].what # "evicted"
                        /\ \A j \in 1 .. n : j > v[q] => L[j].key # w[q].key
      OBVIOUS
    <2>1. k \in 1 .. m /\ w[q] = R[k] /\ v[q] = u[k]
      BY <1>2, <1>6
    <2> QED  BY <1>5, <2>1
  <1>9. IsRecency(v, w, L)
    BY <1>1, <1>6, <1>7, <1>8 DEF IsRecency
  <1> QED  BY <1>9 DEF Recent, w

\* An entry of another key changes no last use.
LEMMA RecentKept ==
  ASSUME NEW R \in Seq(Bucket), NEW L \in Seq(Entry), NEW e \in Entry, NEW L2, Follows(L2, L, e),
         Recent(R, L), \A p \in 1 .. Len(R) : R[p].key # e.key
  PROVE  Recent(R, L2)
  <1> DEFINE m == Len(R)
             n == Len(L)
  <1>1. PICK u : IsRecency(u, R, L)
    BY DEF Recent
  <1>2. n \in Nat /\ Len(L2) = n + 1 /\ L2[n + 1] = e /\ \A j \in 1 .. n : L2[j] = L[j]
    BY LenProperties DEF Follows
  <1>3. /\ u \in [1 .. m -> 1 .. n]
        /\ \A i \in 1 .. m : u[i] \in 1 .. n /\ L[u[i]].key = R[i].key /\ L[u[i]].what # "evicted"
        /\ \A i, j \in 1 .. m : i < j => u[i] < u[j]
        /\ \A i \in 1 .. m, j \in 1 .. n : j > u[i] => L[j].key # R[i].key
    BY <1>1 DEF IsRecency
  <1> HIDE DEF n
  <1>4. \A j \in 1 .. n + 1 : j \in 1 .. n \/ j = n + 1
    BY <1>2
  <1>5. u \in [1 .. m -> 1 .. n + 1]
    <2>1. \A j \in 1 .. n : j \in 1 .. n + 1
      BY <1>2
    <2> QED  BY <1>3, <2>1
  <1>6. \A i \in 1 .. m, j \in 1 .. n + 1 : j > u[i] => L2[j].key # R[i].key
    BY <1>2, <1>3, <1>4
  <1>7. \A i \in 1 .. m : L2[u[i]].key = R[i].key /\ L2[u[i]].what # "evicted"
    BY <1>2, <1>3
  <1>8. IsRecency(u, R, L2)
    BY <1>2, <1>3, <1>5, <1>6, <1>7 DEF IsRecency
  <1> QED  BY <1>8 DEF Recent

\* The key that is used is the most recent one.
LEMMA RecentUsed ==
  ASSUME NEW R \in Seq(Bucket), NEW L \in Seq(Entry), NEW e \in Entry, NEW L2, Follows(L2, L, e),
         e.what # "evicted", Recent(R, L), \A p \in 1 .. Len(R) : R[p].key # e.key,
         NEW b \in Bucket, b.key = e.key
  PROVE  Recent(Append(R, b), L2)
  <1> DEFINE m == Len(R)
             n == Len(L)
             R2 == Append(R, b)
  <1>1. PICK u : IsRecency(u, R, L2)
    BY RecentKept DEF Recent
  <1>2. /\ n \in Nat /\ Len(L2) = n + 1 /\ L2[n + 1] = e /\ m \in Nat
        /\ Len(R2) = m + 1 /\ R2[m + 1] = b /\ \A p \in 1 .. m : R2[p] = R[p]
    BY LenProperties, AppendProperties DEF Follows
  <1>3. /\ \A i \in 1 .. m : /\ u[i] \in 1 .. n + 1
                             /\ L2[u[i]].key = R[i].key /\ L2[u[i]].what # "evicted"
        /\ \A i, j \in 1 .. m : i < j => u[i] < u[j]
        /\ \A i \in 1 .. m, j \in 1 .. n + 1 : j > u[i] => L2[j].key # R[i].key
    BY <1>1, <1>2 DEF IsRecency
  <1> HIDE DEF n, m, R2
  <1>4. \A i \in 1 .. m : u[i] \in 1 .. n /\ u[i] < n + 1
    <2> SUFFICES ASSUME NEW i \in 1 .. m PROVE u[i] \in 1 .. n /\ u[i] < n + 1
      OBVIOUS
    <2>1. u[i] # n + 1
      BY <1>2, <1>3 DEF m
    <2> QED  BY <1>2, <1>3, <2>1
  <1> DEFINE v == [p \in 1 .. m + 1 |-> IF p = m + 1 THEN n + 1 ELSE u[p]]
  <1>5. \A p \in 1 .. m + 1 : p \in 1 .. m \/ p = m + 1
    BY <1>2
  <1>6. /\ v \in [1 .. m + 1 -> 1 .. n + 1]
        /\ v[m + 1] = n + 1 /\ \A p \in 1 .. m : v[p] = u[p]
    BY <1>2, <1>3, <1>5
  <1> HIDE DEF v
  <1>7. \A i, j \in 1 .. m + 1 : i < j => v[i] < v[j]
    <2> SUFFICES ASSUME NEW i \in 1 .. m + 1, NEW j \in 1 .. m + 1, i < j PROVE v[i] < v[j]
      OBVIOUS
    <2>1. i \in 1 .. m
      BY <1>2
    <2> QED  BY <1>3, <1>4, <1>5, <1>6, <2>1
  <1>8. \A i \in 1 .. m + 1 :
          /\ L2[v[i]].key = R2[i].key /\ L2[v[i]].what # "evicted"
          /\ \A j \in 1 .. n + 1 : j > v[i] => L2[j].key # R2[i].key
    <2> SUFFICES ASSUME NEW i \in 1 .. m + 1
                 PROVE  /\ L2[v[i]].key = R2[i].key /\ L2[v[i]].what # "evicted"
                        /\ \A j \in 1 .. n + 1 : j > v[i] => L2[j].key # R2[i].key
      OBVIOUS
    <2>1. CASE i \in 1 .. m
      BY <1>2, <1>3, <1>6, <2>1
    <2>2. CASE i = m + 1
      <3>1. \A j \in 1 .. n + 1 : ~(j > n + 1)
        BY <1>2
      <3> QED  BY <1>2, <1>6, <2>2, <3>1
    <2> QED  BY <1>5, <2>1, <2>2
  <1>9. IsRecency(v, R2, L2)
    BY <1>2, <1>6, <1>7, <1>8 DEF IsRecency
  <1> QED  BY <1>9 DEF Recent, R2
-----------------------------------------------------------------------------
(* _consume: first the table loses the bucket of the key, or the first when it is full; then
   the bucket comes to the end. *)

\* Between the two the key K has no place, and the table has room for it.
HalfInv(R, L, K, t) ==
  /\ R \in Seq(Bucket) /\ L \in Seq(Entry) /\ t \in Nat
  /\ Len(R) < MaxBuckets /\ Distinct(R) /\ \A p \in 1 .. Len(R) : R[p].key # K
  /\ Timely(L, t) /\ Filled(R, L, t) /\ Known(R, L, {K}) /\ Recent(R, L)
  /\ \A i \in 1 .. Len(L) : WindowAt(L, i)
  /\ \A e \in Entry : e.key = K =>
       \A i \in 1 .. Len(L) : EvictionAt(Append(L, e), i)

\* The evictions of a log that ends with no eviction are settled.
LEMMA EvictionsSettled ==
  ASSUME NEW L \in Seq(Entry), NEW e \in Entry, L # <<>> => L[Len(L)].what # "evicted",
         \A i \in 1 .. Len(L) : EvictionAt(L, i)
  PROVE  \A i \in 1 .. Len(L) : (L[i].what = "evicted" => i < Len(L)) /\ EvictionAt(Append(L, e), i)
  <1> SUFFICES ASSUME NEW i \in 1 .. Len(L)
               PROVE  (L[i].what = "evicted" => i < Len(L)) /\ EvictionAt(Append(L, e), i)
    OBVIOUS
  <1>1. Len(L) \in Nat /\ L # <<>>
    BY LenProperties, EmptySeq
  <1>2. L[i].what = "evicted" => i < Len(L)
    BY <1>1
  <1> QED  BY <1>2, AppendFollows, EvictionsKept

LEMMA HalfFound ==
  ASSUME NEW R, NEW L, NEW t, LimiterInv(R, L, t), NEW p \in 1 .. Len(R)
  PROVE  HalfInv(without(R, p), L, R[p].key, t)
  <1> DEFINE K == R[p].key
             w == without(R, p)
  <1>1. /\ R \in Seq(Bucket) /\ L \in Seq(Entry) /\ t \in Nat /\ Len(R) <= MaxBuckets
        /\ Distinct(R) /\ Timely(L, t) /\ Filled(R, L, t) /\ Known(R, L, {}) /\ Recent(R, L)
        /\ L # <<>> => L[Len(L)].what # "evicted"
        /\ \A i \in 1 .. Len(L) : WindowAt(L, i) /\ EvictionAt(L, i)
    BY DEF LimiterInv
  <1>2. /\ w \in Seq(Bucket) /\ Len(w) = Len(R) - 1 /\ Distinct(w)
        /\ \A q \in 1 .. Len(w) : w[q].key # K /\ \E k \in 1 .. Len(R) : w[q] = R[k]
        /\ \A k \in 1 .. Len(R) : k # p => \E q \in 1 .. Len(w) : w[q] = R[k]
    BY <1>1, RestOfTable
  <1>3. Recent(w, L)
    BY <1>1, RestIsRecent
  <1> HIDE DEF w
  <1>4. Len(w) < MaxBuckets
    BY <1>1, <1>2, LenProperties, RequestAssumption
  <1>5. Filled(w, L, t)
    <2> SUFFICES ASSUME NEW q \in 1 .. Len(w)
                 PROVE  Len(w[q].hits) <= Limit[w[q].key] /\ Counts(L, w[q].key, w[q].hits, t)
      BY DEF Filled
    <2>1. PICK k \in 1 .. Len(R) : w[q] = R[k]
      BY <1>2
    <2> QED  BY <1>1, <2>1 DEF Filled
  <1>6. Known(w, L, {K})
    <2> SUFFICES ASSUME NEW j \in 1 .. Len(L), L[j].what = "granted", Alive(L, j), L[j].key # K
                 PROVE  \E q \in 1 .. Len(w) : w[q].key = L[j].key
      BY DEF Known
    <2>1. PICK k \in 1 .. Len(R) : R[k].key = L[j].key
      BY <1>1 DEF Known
    <2>2. k # p
      BY <2>1
    <2>3. PICK q \in 1 .. Len(w) : w[q] = R[k]
      BY <1>2, <2>2
    <2> QED  BY <2>1, <2>3
  <1>7. ASSUME NEW e \in Entry PROVE \A i \in 1 .. Len(L) : EvictionAt(Append(L, e), i)
    BY <1>1, EvictionsSettled
  <1> QED  BY <1>1, <1>2, <1>3, <1>4, <1>5, <1>6, <1>7 DEF HalfInv, w

\* A key that has no bucket has no grants that count.
LEMMA NoBucketNoGrants ==
  ASSUME NEW R, NEW L \in Seq(Entry), Known(R, L, {}), NEW K, \A p \in 1 .. Len(R) : R[p].key # K
  PROVE  Grants(L, K) = {} /\ \A t : Counts(L, K, <<>>, t)
  <1>1. Grants(L, K) = {}
    BY DEF Grants, Known
  <1>2. Len(<<>>) = 0
    OBVIOUS
  <1>3. ASSUME NEW t PROVE Counts(L, K, <<>>, t)
    <2> DEFINE f == [i \in 1 .. 0 |-> 0]
    <2>1. 1 .. 0 = {} /\ f \in [1 .. 0 -> Grants(L, K)]
      OBVIOUS
    <2>2. IsCount(f, L, K, <<>>, t)
      BY <1>1, <1>2, <2>1, Zenon DEF IsCount
    <2> QED  BY <2>2 DEF Counts
  <1> QED  BY <1>1, <1>3

LEMMA HalfRoom ==
  ASSUME NEW R, NEW L, NEW t, LimiterInv(R, L, t), NEW K,
         \A p \in 1 .. Len(R) : R[p].key # K, Len(R) < MaxBuckets
  PROVE  HalfInv(R, L, K, t) /\ Counts(L, K, <<>>, t)
  <1>1. /\ R \in Seq(Bucket) /\ L \in Seq(Entry) /\ t \in Nat
        /\ Distinct(R) /\ Timely(L, t) /\ Filled(R, L, t) /\ Known(R, L, {}) /\ Recent(R, L)
        /\ L # <<>> => L[Len(L)].what # "evicted"
        /\ \A i \in 1 .. Len(L) : WindowAt(L, i) /\ EvictionAt(L, i)
    BY DEF LimiterInv
  <1>2. Known(R, L, {K})
    BY <1>1 DEF Known
  <1>3. ASSUME NEW e \in Entry PROVE \A i \in 1 .. Len(L) : EvictionAt(Append(L, e), i)
    BY <1>1, EvictionsSettled
  <1>4. HalfInv(R, L, K, t)
    BY <1>1, <1>2, <1>3 DEF HalfInv
  <1>5. Counts(L, K, <<>>, t)
    BY <1>1, NoBucketNoGrants
  <1> QED  BY <1>4, <1>5

\* A log with an entry of now is timely.
LEMMA TimelyFollows ==
  ASSUME NEW L \in Seq(Entry), NEW e \in Entry, NEW L2, Follows(L2, L, e), Timely(L, e.at)
  PROVE  Timely(L2, e.at)
  <1> DEFINE n == Len(L)
  <1>1. n \in Nat /\ Len(L2) = n + 1 /\ L2[n + 1] = e /\ \A j \in 1 .. n : L2[j] = L[j]
    BY LenProperties DEF Follows
  <1>2. e.at \in Nat
    BY DEF Entry
  <1>3. /\ \A i \in 1 .. n : L[i].at <= e.at
        /\ \A i, j \in 1 .. n : i <= j => L[i].at <= L[j].at
    BY DEF Timely
  <1> HIDE DEF n
  <1>4. \A j \in 1 .. n + 1 : j \in 1 .. n \/ j = n + 1
    BY <1>1
  <1>5. \A i \in 1 .. n + 1 : L2[i].at <= e.at
    BY <1>1, <1>2, <1>3, <1>4
  <1>6. ASSUME NEW i \in 1 .. n + 1, NEW j \in 1 .. n + 1, i <= j PROVE L2[i].at <= L2[j].at
    <2>1. CASE j = n + 1
      BY <1>1, <1>5, <2>1
    <2>2. CASE j \in 1 .. n
      <3>1. i \in 1 .. n
        BY <1>1, <1>6, <2>2
      <3> QED  BY <1>1, <1>3, <1>6, <2>2, <3>1
    <2> QED  BY <1>4, <2>1, <2>2
  <1> QED  BY <1>1, <1>5, <1>6 DEF Timely

\* The eviction of the first bucket of a full table.
LEMMA HalfEvicted ==
  ASSUME NEW R, NEW L, NEW t, LimiterInv(R, L, t), NEW K,
         \A p \in 1 .. Len(R) : R[p].key # K, Len(R) >= MaxBuckets,
         NEW e \in Entry, e.key = R[1].key, e.what = "evicted", e.at = t
  PROVE  /\ HalfInv(without(R, 1), Append(L, e), K, t)
         /\ Counts(Append(L, e), K, <<>>, t)
  <1> DEFINE w == without(R, 1)
             L1 == Append(L, e)
             n == Len(L)
  <1>1. /\ R \in Seq(Bucket) /\ L \in Seq(Entry) /\ t \in Nat /\ Len(R) <= MaxBuckets
        /\ Distinct(R) /\ Timely(L, t) /\ Filled(R, L, t) /\ Known(R, L, {}) /\ Recent(R, L)
        /\ L # <<>> => L[n].what # "evicted"
        /\ \A i \in 1 .. n : WindowAt(L, i) /\ EvictionAt(L, i)
    BY DEF LimiterInv
  <1>2. Len(R) \in Nat /\ 1 \in 1 .. Len(R) /\ n \in Nat
    BY <1>1, LenProperties, RequestAssumption
  <1>3. Follows(L1, L, e)
    BY <1>1, AppendFollows
  <1>4. /\ w \in Seq(Bucket) /\ Len(w) = Len(R) - 1 /\ Distinct(w)
        /\ \A q \in 1 .. Len(w) : w[q].key # e.key /\ \E k \in 1 .. Len(R) : w[q] = R[k]
        /\ \A k \in 1 .. Len(R) : k # 1 => \E q \in 1 .. Len(w) : w[q] = R[k]
    <2>1. R \in Seq(Bucket) /\ Distinct(R) /\ 1 \in 1 .. Len(R)
      BY <1>1, <1>2
    <2>2. /\ w \in Seq(Bucket) /\ Len(w) = Len(R) - 1 /\ Distinct(w)
          /\ \A q \in 1 .. Len(w) : w[q].key # R[1].key /\ \E k \in 1 .. Len(R) : w[q] = R[k]
          /\ \A k \in 1 .. Len(R) : k # 1 => \E q \in 1 .. Len(w) : w[q] = R[k]
      BY <2>1, RestOfTable, Zenon
    <2> HIDE DEF w
    <2> QED  BY <2>2
  <1>5. Recent(w, L)
    BY <1>1, <1>2, RestIsRecent
  <1>6. L1 \in Seq(Entry) /\ Len(L1) = n + 1 /\ L1[n + 1] = e /\ \A j \in 1 .. n : L1[j] = L[j]
    BY <1>3 DEF Follows
  <1>7. \A j \in 1 .. n + 1 : j \in 1 .. n \/ j = n + 1
    BY <1>2
  <1> HIDE DEF w, L1, n
  <1>8. Recent(w, L1)
    BY <1>1, <1>3, <1>4, <1>5, RecentKept
  <1>9. Timely(L1, t)
    BY <1>1, <1>3, TimelyFollows
  <1>10. Len(w) < MaxBuckets /\ \A q \in 1 .. Len(w) : w[q].key # K
    <2>1. Len(w) < MaxBuckets
      BY <1>1, <1>2, <1>4, RequestAssumption
    <2>2. \A q \in 1 .. Len(w) : w[q].key # K
      BY <1>4
    <2> QED  BY <2>1, <2>2
  <1>11. Filled(w, L1, t)
    <2> SUFFICES ASSUME NEW q \in 1 .. Len(w)
                 PROVE  Len(w[q].hits) <= Limit[w[q].key] /\ Counts(L1, w[q].key, w[q].hits, t)
      BY DEF Filled
    <2>1. PICK k \in 1 .. Len(R) : w[q] = R[k]
      BY <1>4
    <2>2. w[q].key # e.key
      BY <1>4
    <2>3. Len(w[q].hits) <= Limit[w[q].key] /\ Counts(L, w[q].key, w[q].hits, t)
      BY <1>1, <2>1 DEF Filled
    <2> QED  BY <1>1, <1>3, <2>2, <2>3, CountsFollow
  <1>12. Known(w, L1, {K})
    <2> SUFFICES ASSUME NEW j \in 1 .. n + 1, L1[j].what = "granted", Alive(L1, j)
                 PROVE  \E q \in 1 .. Len(w) : w[q].key = L1[j].key
      BY <1>6 DEF Known
    <2>1. j \in 1 .. n /\ L1[j] = L[j]
      BY <1>6, <1>7
    <2>2. Alive(L, j) /\ e.key # L[j].key
      BY <1>1, <1>3, <2>1, AliveFollows DEF n
    <2>3. PICK k \in 1 .. Len(R) : R[k].key = L[j].key
      BY <1>1, <2>1, <2>2 DEF Known, n
    <2>4. k # 1
      BY <2>2, <2>3
    <2>5. PICK q \in 1 .. Len(w) : w[q] = R[k]
      BY <1>4, <2>4
    <2> QED  BY <2>1, <2>3, <2>5
  <1>13. \A i \in 1 .. n + 1 : WindowAt(L1, i)
    <2>1. \A i \in 1 .. n : WindowAt(L1, i)
      BY <1>1, <1>3, WindowsKept DEF n
    <2>2. WindowAt(L1, n + 1)
      BY <1>6 DEF WindowAt
    <2> QED  BY <1>7, <2>1, <2>2
  <1>14. ASSUME NEW a \in Entry, a.key = K, NEW i \in 1 .. n + 1 PROVE EvictionAt(Append(L1, a), i)
    <2>1. Follows(Append(L1, a), L1, a)
      BY <1>6, AppendFollows
    <2>2. CASE i \in 1 .. n
      <3>1. (L[i].what = "evicted" => i < n) /\ EvictionAt(L1, i)
        BY <1>1, <2>2, EvictionsSettled DEF n, L1
      <3>2. i \in 1 .. Len(L1) /\ (L1[i].what = "evicted" => i < Len(L1))
        BY <1>2, <1>6, <2>2, <3>1
      <3> QED  BY <1>6, <2>1, <3>1, <3>2, EvictionsKept
    <2>3. CASE i = n + 1
      <3>1. PICK u : IsRecency(u, R, L)
        BY <1>1 DEF Recent
      <3>2. EvictionAt(Append(L1, a), n + 1)
        BY <1>1, <1>3, <1>14, <2>1, <3>1, EvictionEarned DEF n
      <3> QED  BY <2>3, <3>2
    <2> QED  BY <1>7, <2>2, <2>3
  <1>15. HalfInv(w, L1, K, t)
    BY <1>1, <1>4, <1>6, <1>8, <1>9, <1>10, <1>11, <1>12, <1>13, <1>14 DEF HalfInv
  <1>16. Counts(L1, K, <<>>, t)
    <2>1. Counts(L, K, <<>>, t)
      BY <1>1, NoBucketNoGrants
    <2>2. K # e.key
      BY <1>2
    <2> QED  BY <1>1, <1>3, <2>1, <2>2, CountsFollow
  <1> QED  BY <1>15, <1>16 DEF w, L1
\* The bucket of K comes to the end, with a hit more when there is room.
LEMMA HalfUsed ==
  ASSUME NEW R, NEW L, NEW t, NEW K \in Key, HalfInv(R, L, K, t),
         NEW h \in Seq(Nat), Counts(L, K, h, t), Len(h) <= Limit[K],
         \A i \in 1 .. Len(h) : h[i] > t - Window,
         NEW e \in Entry, e.key = K, e.at = t,
         e.what = IF Len(h) < Limit[K] THEN "granted" ELSE "limited",
         NEW b \in Bucket, b.key = K,
         b.hits = IF Len(h) < Limit[K] THEN Append(h, t) ELSE h
  PROVE  LimiterInv(Append(R, b), Append(L, e), t)
  <1> DEFINE m == Len(R)
             n == Len(L)
             R2 == Append(R, b)
             L2 == Append(L, e)
  <1>1. /\ R \in Seq(Bucket) /\ L \in Seq(Entry) /\ t \in Nat
        /\ m < MaxBuckets /\ Distinct(R) /\ \A p \in 1 .. m : R[p].key # K
        /\ Timely(L, t) /\ Filled(R, L, t) /\ Known(R, L, {K}) /\ Recent(R, L)
        /\ \A i \in 1 .. n : WindowAt(L, i) /\ EvictionAt(L2, i)
    BY DEF HalfInv
  <1>2. m \in Nat /\ n \in Nat /\ Len(h) \in Nat /\ Limit[K] \in Nat \ {0} /\ MaxBuckets \in Nat
    BY <1>1, LenProperties, RequestAssumption, LimitAssumption
  <1>3. Follows(L2, L, e)
    BY <1>1, AppendFollows
  <1>4. L2 \in Seq(Entry) /\ Len(L2) = n + 1 /\ L2[n + 1] = e /\ \A j \in 1 .. n : L2[j] = L[j]
    BY <1>3 DEF Follows
  <1>5. R2 \in Seq(Bucket) /\ Len(R2) = m + 1 /\ R2[m + 1] = b /\ \A p \in 1 .. m : R2[p] = R[p]
    BY <1>1, AppendProperties
  <1>7. e.what # "evicted"
    OBVIOUS
  <1>8. Recent(R2, L2)
    BY <1>1, <1>3, <1>7, RecentUsed
  <1> HIDE DEF m, n, R2, L2
  <1>6. /\ \A j \in 1 .. n + 1 : j \in 1 .. n \/ j = n + 1
        /\ \A p \in 1 .. m + 1 : p \in 1 .. m \/ p = m + 1
        /\ m + 1 \in 1 .. m + 1
    BY <1>2
  <1>9. Len(R2) <= MaxBuckets
    BY <1>1, <1>2, <1>5
  <1>10. Distinct(R2)
    <2> SUFFICES ASSUME NEW p \in 1 .. m + 1, NEW q \in 1 .. m + 1, R2[p].key = R2[q].key
                 PROVE  p = q
      BY <1>5 DEF Distinct
    <2>1. CASE p \in 1 .. m /\ q \in 1 .. m
      BY <1>1, <1>5, <2>1 DEF Distinct, m
    <2>2. CASE p = m + 1 /\ q \in 1 .. m
      BY <1>1, <1>5, <2>2
    <2>3. CASE p \in 1 .. m /\ q = m + 1
      BY <1>1, <1>5, <2>3
    <2> QED  BY <1>6, <2>1, <2>2, <2>3
  <1>11. Timely(L2, t)
    BY <1>1, <1>3, TimelyFollows
  <1>12. Filled(R2, L2, t)
    <2>1. ASSUME NEW p \in 1 .. m
          PROVE  Len(R2[p].hits) <= Limit[R2[p].key] /\ Counts(L2, R2[p].key, R2[p].hits, t)
      <3>1. R2[p] = R[p] /\ R[p].key # e.key
        BY <1>1, <1>5
      <3>2. Len(R[p].hits) <= Limit[R[p].key] /\ Counts(L, R[p].key, R[p].hits, t)
        BY <1>1 DEF Filled, m
      <3> QED  BY <1>1, <1>3, <3>1, <3>2, CountsFollow
    <2>2. CASE Len(h) < Limit[K]
      <3>1. Counts(L2, K, Append(h, t), t)
        <4>1. e.what = "granted" /\ Counts(L, e.key, h, e.at)
          BY <2>2
        <4>2. Counts(L2, e.key, Append(h, e.at), e.at)
          BY <1>1, <1>3, <4>1, CountsGranted
        <4> QED  BY <4>2
      <3>2. Len(Append(h, t)) = Len(h) + 1
        BY <1>1, AppendProperties
      <3>3. Len(Append(h, t)) <= Limit[K]
        BY <1>2, <2>2, <3>2
      <3>4. b.hits = Append(h, t)
        BY <2>2
      <3>5. Len(b.hits) <= Limit[b.key] /\ Counts(L2, b.key, b.hits, t)
        BY <3>1, <3>3, <3>4
      <3> QED  BY <1>5, <1>6, <2>1, <3>5 DEF Filled
    <2>3. CASE ~(Len(h) < Limit[K])
      <3>1. e.what = "limited" /\ b.hits = h
        BY <2>3
      <3>2. Counts(L2, K, h, t)
        BY <1>1, <1>3, <3>1, CountsFollow
      <3>3. Len(b.hits) <= Limit[b.key] /\ Counts(L2, b.key, b.hits, t)
        BY <3>1, <3>2
      <3> QED  BY <1>5, <1>6, <2>1, <3>3 DEF Filled
    <2> QED  BY <2>2, <2>3
  <1>13. Known(R2, L2, {})
    <2> SUFFICES ASSUME NEW j \in 1 .. n + 1, L2[j].what = "granted", Alive(L2, j)
                 PROVE  \E p \in 1 .. m + 1 : R2[p].key = L2[j].key
      BY <1>4, <1>5 DEF Known
    <2>1. CASE L2[j].key = K
      BY <1>5, <1>6, <2>1
    <2>2. CASE L2[j].key # K
      <3>1. j \in 1 .. n /\ L2[j] = L[j]
        BY <1>4, <1>6, <2>2
      <3>2. Alive(L, j)
        BY <1>1, <1>3, <3>1, AliveFollows DEF n
      <3>3. PICK p \in 1 .. m : R[p].key = L[j].key
        BY <1>1, <2>2, <3>1, <3>2 DEF Known, n, m
      <3>4. p \in 1 .. m + 1 /\ R2[p].key = L2[j].key
        BY <1>2, <1>5, <3>1, <3>3
      <3> QED  BY <3>4
    <2> QED  BY <2>1, <2>2
  <1>14. /\ \A i \in 1 .. n :
              L[i].key = K /\ Alive(L, i) /\ t < L[i].at + Window =>
                /\ IsFiniteSet(granted_in_window(L, K, i))
                /\ Cardinality(granted_in_window(L, K, i)) <= Len(h)
         /\ Len(h) > 0 =>
              \E s \in 1 .. n : /\ Cardinality(granted_in_window(L, K, s)) = Len(h)
                                /\ t < L[s].at + Window
    <2>1. L \in Seq(Entry) /\ t \in Nat /\ Timely(L, t)
      BY <1>1
    <2>2. /\ \A i \in 1 .. Len(L) :
               L[i].key = K /\ Alive(L, i) /\ t < L[i].at + Window =>
                 /\ IsFiniteSet(granted_in_window(L, K, i))
                 /\ Cardinality(granted_in_window(L, K, i)) <= Len(h)
          /\ Len(h) > 0 =>
               \E s \in 1 .. Len(L) : /\ Cardinality(granted_in_window(L, K, s)) = Len(h)
                                      /\ t < L[s].at + Window
      BY <2>1, OpenWindows, Zenon
    <2> QED  BY <2>2 DEF n
  <1>15. \A i \in 1 .. n : WindowAt(L2, i)
    <2>1. ASSUME e.what = "granted", NEW i \in 1 .. n, L[i].key = e.key, Alive(L, i),
                 e.at < L[i].at + Window
          PROVE  /\ IsFiniteSet(granted_in_window(L, e.key, i))
                 /\ Cardinality(granted_in_window(L, e.key, i)) < Limit[e.key]
      <3>1. Len(h) < Limit[K]
        BY <2>1
      <3>2. /\ IsFiniteSet(granted_in_window(L, K, i))
            /\ Cardinality(granted_in_window(L, K, i)) <= Len(h)
        BY <1>14, <2>1
      <3>3. Cardinality(granted_in_window(L, K, i)) \in Nat
        BY <3>2, FS_CardinalityType
      <3> QED  BY <1>2, <3>1, <3>2, <3>3
    <2> QED  BY <1>1, <1>3, <2>1, WindowsKept DEF n
  <1>16. WindowAt(L2, n + 1)
    <2>1. ASSUME e.what = "limited"
          PROVE  \E s \in 1 .. n : /\ Cardinality(granted_in_window(L, e.key, s)) = Limit[e.key]
                                   /\ e.at < L[s].at + Window
      <3>1. Len(h) = Limit[K] /\ Len(h) > 0
        BY <1>2, <2>1
      <3> QED  BY <1>14, <3>1
    <2> QED  BY <1>1, <1>3, <2>1, WindowMade DEF n
  <1>17. \A i \in 1 .. n + 1 : WindowAt(L2, i) /\ EvictionAt(L2, i)
    <2>1. EvictionAt(L2, n + 1)
      BY <1>4, <1>7 DEF EvictionAt
    <2> QED  BY <1>1, <1>6, <1>15, <1>16, <2>1
  <1>18. L2[Len(L2)].what # "evicted"
    BY <1>4, <1>7
  <1>19. LimiterInv(R2, L2, t)
    BY <1>1, <1>4, <1>5, <1>8, <1>9, <1>10, <1>11, <1>12, <1>13, <1>17, <1>18 DEF LimiterInv
  <1> QED  BY <1>19 DEF R2, L2

\* One call of _consume.
LEMMA ConsumeStep ==
  ASSUME NEW state, LimiterInv(state.table, state.log, clock), NEW key \in Key
  PROVE  LimiterInv(_consume(state, key).table, _consume(state, key).log, clock)
  <1> DEFINE R == state.table
             L == state.log
             h == hits_of(R, key)
             w == IF Len(h) < Limit[key] THEN "granted" ELSE "limited"
             e == entry(key, w)
             b == [key |-> key, hits |-> IF Len(h) < Limit[key] THEN Append(h, clock) ELSE h]
             after == _consume(state, key)
  <1>1. /\ R \in Seq(Bucket) /\ L \in Seq(Entry) /\ clock \in Nat
        /\ Len(R) <= MaxBuckets /\ Distinct(R) /\ Timely(L, clock) /\ Filled(R, L, clock)
    BY DEF LimiterInv
  <1>2. after.table = Append(others(R, key), b) /\ after.log = L \o evicted(R, key) \o <<e>>
    BY DEF _consume, moved
  <1>3. DOMAIN R = 1 .. Len(R) /\ Len(R) \in Nat /\ MaxBuckets \in Nat \ {0}
        /\ Limit[key] \in Nat \ {0}
    BY <1>1, LenProperties, RequestAssumption, LimitAssumption
  <1>4. e \in Entry /\ e.key = key /\ e.at = clock /\ e.what = w
    BY <1>1 DEF entry, Entry
  <1> HIDE DEF R, L, h, after, e
  <1>5. ASSUME h \in Seq(Nat), Len(h) <= Limit[key],
               \A i \in 1 .. Len(h) : h[i] > clock - Window,
               NEW R1, NEW L1, HalfInv(R1, L1, key, clock), Counts(L1, key, h, clock),
               after.table = Append(R1, b), after.log = Append(L1, e)
        PROVE  LimiterInv(after.table, after.log, clock)
    <2>1. b \in Bucket
      <3>1. Append(h, clock) \in Seq(Nat)
        BY <1>1, <1>5, AppendProperties
      <3> QED  BY <1>5, <3>1 DEF Bucket
    <2>2. b.key = key /\ b.hits = IF Len(h) < Limit[key] THEN Append(h, clock) ELSE h
      OBVIOUS
    <2> HIDE DEF b
    <2>3. LimiterInv(Append(R1, b), Append(L1, e), clock)
      BY <1>4, <1>5, <2>1, <2>2, HalfUsed
    <2> QED  BY <1>5, <2>3
  <1> HIDE DEF b, w
  <1>6. CASE \E p \in 1 .. Len(R) : R[p].key = key
    <2>1. PICK p \in 1 .. Len(R) : R[p].key = key
      BY <1>6
    <2>2. place_of(R, key) = {p}
      BY <1>1, <1>3, <2>1 DEF place_of, Distinct
    <2>3. the_place_of(R, key) = p
      BY <2>2 DEF the_place_of
    <2>4. h = fresh_hits(R[p].hits) /\ others(R, key) = without(R, p) /\ evicted(R, key) = <<>>
      BY <2>2, <2>3 DEF h, hits_of, others, evicted
    <2>5. R[p] \in Bucket
      BY <1>1, ElementOfSeq
    <2>6. /\ R[p].hits \in Seq(Nat) /\ Len(R[p].hits) <= Limit[key]
          /\ Counts(L, key, R[p].hits, clock)
      BY <1>1, <2>1, <2>5 DEF Bucket, Filled
    <2>7. /\ h \in Seq(Nat) /\ Len(h) <= Len(R[p].hits) /\ Counts(L, key, h, clock)
          /\ \A i \in 1 .. Len(h) : h[i] > clock - Window
      BY <1>1, <2>4, <2>6, FreshCounts
    <2>8. Len(h) <= Limit[key]
      <3>1. Len(h) \in Nat /\ Len(R[p].hits) \in Nat
        BY <2>6, <2>7, LenProperties
      <3> QED  BY <1>3, <2>6, <2>7, <3>1
    <2>9. HalfInv(without(R, p), L, key, clock)
      <3>1. LimiterInv(R, L, clock)
        BY DEF R, L
      <3> QED  BY <2>1, <3>1, HalfFound
    <2>10. L \o <<>> \o <<e>> = Append(L, e)
      BY <1>1, <1>4, ConcatEmptySeq, AppendIsConcat
    <2> QED  BY <1>2, <1>5, <2>4, <2>7, <2>8, <2>9, <2>10 DEF after
  <1>7. CASE \A p \in 1 .. Len(R) : R[p].key # key
    <2>1. place_of(R, key) = {}
      BY <1>3, <1>7 DEF place_of
    <2>2. h = <<>>
      BY <2>1 DEF h, hits_of
    <2>3. Len(<<>>) = 0 /\ <<>> \in Seq(Nat)
      OBVIOUS
    <2>4. h \in Seq(Nat) /\ Len(h) <= Limit[key] /\ \A i \in 1 .. Len(h) : h[i] > clock - Window
      BY <1>3, <2>2, <2>3
    <2>5. LimiterInv(R, L, clock)
      BY DEF R, L
    <2>6. CASE Len(R) < MaxBuckets
      <3>1. others(R, key) = R /\ evicted(R, key) = <<>>
        BY <1>3, <2>1, <2>6 DEF others, evicted
      <3>2. HalfInv(R, L, key, clock) /\ Counts(L, key, h, clock)
        BY <1>7, <2>2, <2>5, <2>6, HalfRoom
      <3>3. L \o <<>> \o <<e>> = Append(L, e)
        BY <1>1, <1>4, ConcatEmptySeq, AppendIsConcat
      <3> QED  BY <1>2, <1>5, <2>4, <3>1, <3>2, <3>3 DEF after
    <2>7. CASE Len(R) >= MaxBuckets
      <3> DEFINE o == entry(R[1].key, "evicted")
      <3>1. others(R, key) = without(R, 1) /\ evicted(R, key) = <<o>>
        BY <2>1, <2>7 DEF others, evicted
      <3>2. o \in Entry /\ o.key = R[1].key /\ o.what = "evicted" /\ o.at = clock
        <4>1. 1 \in 1 .. Len(R)
          BY <1>3, <2>7
        <4>2. R[1] \in Bucket
          BY <1>1, <4>1, ElementOfSeq
        <4> QED  BY <1>1, <4>2 DEF entry, Entry, Bucket
      <3> HIDE DEF o
      <3>3. HalfInv(without(R, 1), Append(L, o), key, clock) /\ Counts(Append(L, o), key, h, clock)
        BY <1>7, <2>2, <2>5, <2>7, <3>2, HalfEvicted
      <3>4. L \o <<o>> \o <<e>> = Append(Append(L, o), e)
        <4>1. L \o <<o>> = Append(L, o) /\ Append(L, o) \in Seq(Entry)
          BY <1>1, <3>2, AppendIsConcat, AppendProperties
        <4> QED  BY <1>4, <4>1, AppendIsConcat
      <3> QED  BY <1>2, <1>5, <2>4, <3>1, <3>3, <3>4 DEF after
    <2> QED  BY <1>3, <2>6, <2>7
  <1> QED  BY <1>6, <1>7 DEF after
-----------------------------------------------------------------------------
(* The limiter in the steps of a request and of the clock. *)

RequestInv == RuntimeInv /\ LimiterInv(buckets, journal, clock) /\ clock \in 0 .. Horizon

\* The limiter starts with no bucket.
LEMMA LimiterInit == RequestInit => LimiterInv(buckets, journal, clock)
  <1> SUFFICES ASSUME RequestInit PROVE LimiterInv(buckets, journal, clock)
    OBVIOUS
  <1>1. buckets = <<>> /\ journal = <<>> /\ clock = 0
    BY DEF RequestInit
  <1>2. Len(<<>>) = 0 /\ 1 .. 0 = {}
    OBVIOUS
  <1>3. <<>> \in Seq(Bucket) /\ <<>> \in Seq(Entry) /\ 0 \in Nat /\ 0 <= MaxBuckets
    BY RequestAssumption
  <1>4. Distinct(<<>>) /\ Timely(<<>>, 0) /\ Filled(<<>>, <<>>, 0) /\ Known(<<>>, <<>>, {})
    BY <1>2 DEF Distinct, Timely, Filled, Known
  <1>5. Recent(<<>>, <<>>)
    <2> DEFINE u == [p \in 1 .. 0 |-> 0]
    <2>1. u \in [1 .. 0 -> 1 .. 0]
      BY <1>2
    <2>2. IsRecency(u, <<>>, <<>>)
      BY <1>2, <2>1, Zenon DEF IsRecency
    <2> QED  BY <2>2 DEF Recent
  <1>6. \A i \in 1 .. Len(<<>>) : WindowAt(<<>>, i) /\ EvictionAt(<<>>, i)
    BY <1>2
  <1> QED  BY <1>1, <1>2, <1>3, <1>4, <1>5, <1>6, Zenon DEF LimiterInv

\* Time only closes windows.
LEMMA LimiterWaits ==
  ASSUME NEW R, NEW L, NEW t, LimiterInv(R, L, t)
  PROVE  LimiterInv(R, L, t + 1)
  <1>1. t \in Nat /\ Window \in Nat /\ L \in Seq(Entry) /\ Timely(L, t) /\ Filled(R, L, t)
    BY RequestAssumption DEF LimiterInv
  <1>2. \A j \in 1 .. Len(L) : L[j].at \in Nat
    <2>1. \A j \in 1 .. Len(L) : L[j] \in Entry
      BY <1>1, ElementOfSeq
    <2> QED  BY <2>1 DEF Entry
  <1>3. Timely(L, t + 1)
    BY <1>1, <1>2 DEF Timely
  <1>4. ASSUME NEW K, NEW h, Counts(L, K, h, t) PROVE Counts(L, K, h, t + 1)
    <2>1. PICK f : IsCount(f, L, K, h, t)
      BY <1>4 DEF Counts
    <2>2. ASSUME NEW j \in Grants(L, K), L[j].at > (t + 1) - Window
          PROVE  \E i \in 1 .. Len(h) : f[i] = j
      <3>1. L[j].at \in Nat
        BY <1>2 DEF Grants
      <3>2. L[j].at > t - Window
        BY <1>1, <2>2, <3>1
      <3> QED  BY <2>1, <3>2 DEF IsCount
    <2>3. IsCount(f, L, K, h, t + 1)
      BY <2>1, <2>2 DEF IsCount
    <2> QED  BY <2>3 DEF Counts
  <1>5. Filled(R, L, t + 1)
    BY <1>1, <1>4 DEF Filled
  <1> QED  BY <1>1, <1>3, <1>5 DEF LimiterInv

\* The buckets of a request, one after the other.
LEMMA LimiterArrives ==
  ASSUME LimiterInv(buckets, journal, clock), NEW chain \in Chain
  PROVE  LimiterInv(consume_chain(chain).table, consume_chain(chain).log, clock)
  <1> DEFINE start == [table |-> buckets, log |-> journal]
             first == _consume(start, chain[1])
  <1>1. Len(chain) \in {1, 2} /\ DOMAIN chain = 1 .. Len(chain)
    BY RequestAssumption
  <1>2. chain[1] \in Key /\ (Len(chain) = 2 => chain[2] \in Key)
    <2>1. \A i \in DOMAIN chain : chain[i] \in Key
      BY DEF Key
    <2>2. 1 \in DOMAIN chain /\ (Len(chain) = 2 => 2 \in DOMAIN chain)
      BY <1>1
    <2> QED  BY <2>1, <2>2
  <1>3. LimiterInv(start.table, start.log, clock)
    OBVIOUS
  <1> HIDE DEF start
  <1>4. LimiterInv(first.table, first.log, clock)
    BY <1>2, <1>3, ConsumeStep
  <1>5. consume_chain(chain) =
          IF first.granted /\ Len(chain) = 2 THEN _consume(first, chain[2]) ELSE first
    BY DEF consume_chain, start
  <1> HIDE DEF first
  <1>6. Len(chain) = 2 =>
          LimiterInv(_consume(first, chain[2]).table, _consume(first, chain[2]).log, clock)
    BY <1>2, <1>4, ConsumeStep
  <1> QED  BY <1>4, <1>5, <1>6

\* Every step keeps the limiter.
LEMMA RequestStep == RequestInv /\ [RequestNext]_requestVars => RequestInv'
  <1> SUFFICES ASSUME RequestInv, [RequestNext]_requestVars PROVE RequestInv'
    OBVIOUS
  <1>1. RuntimeInv' /\ clock \in 0 .. Horizon /\ LimiterInv(buckets, journal, clock)
    BY RuntimeStep DEF RequestInv
  <1>2. Horizon \in Nat
    BY RequestAssumption
  <1> SUFFICES LimiterInv(buckets', journal', clock') /\ clock' \in 0 .. Horizon
    BY <1>1 DEF RequestInv
  <1>3. ASSUME NEW r \in Request, NEW chain \in Chain, arrive(r, chain)
        PROVE  LimiterInv(buckets', journal', clock') /\ clock' \in 0 .. Horizon
    <2>1. /\ buckets' = consume_chain(chain).table /\ journal' = consume_chain(chain).log
          /\ clock' = clock
      BY <1>3 DEF arrive
    <2>2. LimiterInv(consume_chain(chain).table, consume_chain(chain).log, clock)
      BY <1>1, LimiterArrives
    <2> QED  BY <1>1, <2>1, <2>2
  <1>4. CASE time_passes
    <2>1. /\ buckets' = buckets /\ journal' = journal /\ clock' = clock + 1
          /\ clock' \in 0 .. Horizon
      BY <1>1, <1>2, <1>4 DEF time_passes
    <2>2. LimiterInv(buckets, journal, clock + 1)
      BY <1>1, LimiterWaits
    <2> QED  BY <2>1, <2>2
  <1>5. CASE UNCHANGED <<clock, buckets, journal>>
    BY <1>1, <1>5
  <1>6. ASSUME NEW r \in Request, begin(r) \/ end(r) \/ leave(r)
        PROVE  UNCHANGED <<clock, buckets, journal>>
    BY <1>6 DEF begin, end, leave
  <1>7. ASSUME NEW pool \in 1 .. MaxStops, drain(pool)
        PROVE  UNCHANGED <<clock, buckets, journal>>
    BY <1>7 DEF drain
  <1>8. stop \/ UNCHANGED requestVars => UNCHANGED <<clock, buckets, journal>>
    BY DEF stop, requestVars
  <1> QED  BY <1>3, <1>4, <1>5, <1>6, <1>7, <1>8 DEF RequestNext

LEMMA RequestInvHolds == RequestSpec => []RequestInv
  <1>1. RequestInit => RequestInv
    <2>1. RequestInit => clock = 0 /\ Horizon \in Nat
      BY RequestAssumption DEF RequestInit
    <2> QED  BY <2>1, RuntimeInit, LimiterInit DEF RequestInv
  <1> QED  BY <1>1, RequestStep, PTL DEF RequestSpec

\* The types of the way of a request: there are never more buckets than the table has places,
\* and never more permits than the pool.
THEOREM RequestTypeOKHolds == RequestSpec => []RequestTypeOK
  <1>1. RequestInv => RequestTypeOK
    <2> SUFFICES ASSUME RequestInv PROVE RequestTypeOK
      OBVIOUS
    <2>1. /\ RuntimeTypeOK /\ permits + Cardinality(charged) = MaxWorkers + MaxQueue
          /\ LimiterInv(buckets, journal, clock) /\ clock \in 0 .. Horizon
      BY DEF RequestInv, RuntimeInv
    <2>2. /\ permits \in Nat /\ stops \in 0 .. MaxStops /\ executor \in {0, stops + 1}
          /\ ops \in [Request -> [state: OpState, pool: 0 .. MaxStops + 1, awaited: BOOLEAN]]
      BY <2>1 DEF RuntimeTypeOK
    <2>3. /\ MaxWorkers \in Nat /\ MaxQueue \in Nat /\ MaxStops \in Nat
      BY RequestAssumption
    <2>4. Cardinality(charged) \in Nat
      <3>1. IsFiniteSet(Request)
        BY RequestAssumption, FS_Interval DEF Request
      <3>2. charged \in SUBSET Request
        BY DEF charged
      <3> QED  BY <3>1, <3>2, FS_Subset, FS_CardinalityType
    <2>5. permits \in 0 .. MaxWorkers + MaxQueue
      BY <2>1, <2>2, <2>3, <2>4
    <2>6. executor \in 0 .. MaxStops + 1
      BY <2>2, <2>3
    <2>7. /\ buckets \in Seq([key: Key, hits: Seq(Nat)]) /\ Len(buckets) <= MaxBuckets
          /\ journal \in Seq([key: Key, at: Nat, what: {"granted", "limited", "evicted"}])
      BY <2>1 DEF LimiterInv, Bucket, Entry
    <2> QED  BY <2>1, <2>2, <2>5, <2>6, <2>7 DEF RequestTypeOK
  <1> QED  BY <1>1, RequestInvHolds, PTL

\* _consume and the lock around it: no window of a key, wherever it begins, has more grants
\* than the limit, and who is refused is refused because such a window is full.
THEOREM WindowExactHolds == RequestSpec => []WindowExact
  <1>1. RequestInv => WindowExact
    <2> SUFFICES ASSUME RequestInv PROVE WindowExact
      OBVIOUS
    <2>1. journal \in Seq(Entry) /\ \A i \in 1 .. Len(journal) : WindowAt(journal, i)
      BY DEF RequestInv, LimiterInv
    <2>2. DOMAIN journal = 1 .. Len(journal)
      BY <2>1, LenProperties
    <2> QED  BY <2>1, <2>2, Zenon DEF WindowExact, WindowAt
  <1> QED  BY <1>1, RequestInvHolds, PTL

\* popitem(last=False) and move_to_end: the bucket that goes is the one that was not used for
\* the longest time, after as many other keys as the table has places.
THEOREM EvictionNeedsManyKeysHolds == RequestSpec => []EvictionNeedsManyKeys
  <1>1. RequestInv => EvictionNeedsManyKeys
    <2> SUFFICES ASSUME RequestInv PROVE EvictionNeedsManyKeys
      OBVIOUS
    <2>1. journal \in Seq(Entry) /\ \A i \in 1 .. Len(journal) : EvictionAt(journal, i)
      BY DEF RequestInv, LimiterInv
    <2>2. DOMAIN journal = 1 .. Len(journal)
      BY <2>1, LenProperties
    <2> QED  BY <2>1, <2>2, Zenon DEF EvictionNeedsManyKeys, EvictionAt, UsedSince
  <1> QED  BY <1>1, RequestInvHolds, PTL
=============================================================================
