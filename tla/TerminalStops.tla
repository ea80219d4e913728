--------------------------- MODULE TerminalStops ---------------------------
(***************************************************************************)
(* What ends the enrollments of a firm when its opportunity closes, goes   *)
(* manual or a suppression becomes final (terminalStops.ts).               *)
(*                                                                         *)
(* A stop event is written by the transaction that decides it, together    *)
(* with the set of enrollments it owes; a drain job reads the events past  *)
(* one cursor, in batches, and then the live enrollments that finalized    *)
(* suppressions cover, which have no cursor.  The scheduler pass queues a  *)
(* drain under a key made of the heads of both streams.                    *)
(*                                                                         *)
(* One workspace and one firm: a stop is about every enrollment live at    *)
(* it, or about those of one opportunity or of some origins.  It is a few  *)
(* steps, since another transaction may come between them, and shows at    *)
(* its commit.  An enrollment and a drain hold the send gate from their    *)
(* first statement to their commit and are a step each: nothing they read  *)
(* can change under them.                                                  *)
(***************************************************************************)
EXTENDS Integers, FiniteSets

CONSTANTS
  EventCount,    \* stop events, numbered in the order of their ids
  AtSource,      \* the events whose own transaction also stops (applyManualModeStop)
  EnrollmentCount,
  Scope,         \* of each event: the enrollments of its origin kinds or its opportunity
  StopCount,     \* suppressions of the firm for e-mail, numbered as recorded
  Workers,       \* runner slots that take sequence.terminal_stop
  DrainLimit,    \* events read by one drain
  MaxAttempts,
  MaxFaults,     \* bound on failed attempts of drains
  None

Events == 1..EventCount
Enrollments == 1..EnrollmentCount   \* in the order they are made
Markers == 1..StopCount

ASSUME ConstantsAssumption ==
  /\ EventCount \in Nat /\ EnrollmentCount \in Nat /\ StopCount \in Nat
  /\ AtSource \subseteq Events
  /\ Scope \in [Events -> SUBSET Enrollments]
  /\ DrainLimit \in Nat \ {0} /\ MaxAttempts \in Nat \ {0} /\ MaxFaults \in Nat
  /\ None \notin Nat

VARIABLES
  gate,    \* the stop whose transaction holds the workspace's send gate, or None
  clock,   \* clock_timestamp(), which moves with every stop that is stamped
  ev,      \* the stop events and the transactions that write them
  enr,     \* the enrollments, with the instant their row was written
  marker,  \* the finalization of each suppression; `owed`, a ghost, is what was
           \* live at it
  cursor,  \* sequence_event_cursors: the last event consumed
  job,     \* the sequence.terminal_stop rows, by key
  found,   \* the heads the open scheduler pass has read
  wk,      \* the key of the job each runner slot has claimed, or None
  faults

vars == <<gate, clock, ev, enr, marker, cursor, job, found, wk, faults>>

Heads == (Events \cup {None}) \X (Markers \cup {None})

Instants == 0..EventCount

NoEvent == [pc |-> "none", at |-> 0, owed |-> {}]

Init ==
  /\ gate = None /\ clock = 0
  /\ ev = [e \in Events |-> NoEvent]
  /\ enr = [n \in Enrollments |-> [state |-> "none", born |-> 0]]
  /\ marker = [x \in Markers |-> [state |-> "none", owed |-> {}]]
  /\ cursor = None
  /\ job = [k \in Heads |-> [state |-> "absent", attempts |-> 0]]
  /\ found = None
  /\ wk = [w \in Workers |-> None]
  /\ faults = 0

-----------------------------------------------------------------------------
(* Stop events.                                                            *)

Live == {n \in Enrollments : enr[n].state = "live"}
Committed == {e \in Events : ev[e].pc = "committed"}

\* (occurred_at, id), the order of the outbox.
Before(e, f) == ev[e].at < ev[f].at \/ (ev[e].at = ev[f].at /\ e < f)

Unread == {e \in Committed : cursor = None \/ Before(cursor, e)}

GateFree == gate = None

\* The transaction of a command starts; now() stays at this instant.
BeginStop(e) ==
  /\ ev[e].pc = "none"
  /\ ev' = [ev EXCEPT ![e] = [pc |-> "begun", at |-> clock, owed |-> {}]]
  /\ UNCHANGED <<gate, clock, enr, marker, cursor, job, found, wk, faults>>

\* A plausible slip: the column's default, the start of the transaction.
StampAtBegin(e) == ev[e].at

\* The stamp a stop event gets: clock_timestamp() under the gate.
Stamp(e) == clock + 1

\* The command takes the gate, changes the opportunity and emits the event, with the live
\* enrollments it is about.
EmitStop(e) ==
  /\ ev[e].pc = "begun"
  /\ GateFree
  /\ gate' = e
  /\ clock' = clock + 1
  /\ ev' = [ev EXCEPT ![e] = [pc |-> "open", at |-> Stamp(e), owed |-> Live \cap Scope[e]]]
  /\ UNCHANGED <<enr, marker, cursor, job, found, wk, faults>>

Ended(stops) ==
  [n \in Enrollments |-> IF n \in stops /\ enr[n].state = "live"
                         THEN [enr[n] EXCEPT !.state = "ended"] ELSE enr[n]]

\* applyManualModeStop is firm-wide.
CommitStop(e) ==
  /\ ev[e].pc = "open"
  /\ gate' = None
  /\ ev' = [ev EXCEPT ![e].pc = "committed"]
  /\ enr' = IF e \in AtSource THEN Ended(Live) ELSE enr
  /\ UNCHANGED <<clock, marker, cursor, job, found, wk, faults>>

-----------------------------------------------------------------------------
(* Enrollments and suppressions.                                           *)

\* enrollContact, under the gate.
Enroll(n) ==
  /\ enr[n].state = "none"
  /\ n - 1 \in Enrollments => enr[n - 1].state # "none"
  /\ GateFree
  /\ enr' = [enr EXCEPT ![n] = [state |-> "live", born |-> clock]]
  /\ UNCHANGED <<gate, clock, ev, marker, cursor, job, found, wk, faults>>

\* recordSuppression, under the gate.
RecordSuppression(x) ==
  /\ marker[x].state = "none"
  /\ x - 1 \in Markers => marker[x - 1].state # "none"
  /\ GateFree
  /\ marker' = [marker EXCEPT ![x].state = "recorded"]
  /\ UNCHANGED <<gate, clock, ev, enr, cursor, job, found, wk, faults>>

\* claimFinalization: the terminal marker. The job's transaction has no gate.
FinalizeSuppression(x) ==
  /\ marker[x].state = "recorded"
  /\ marker' = [marker EXCEPT ![x] = [state |-> "finalized", owed |-> Live]]
  /\ UNCHANGED <<gate, clock, ev, enr, cursor, job, found, wk, faults>>

\* A correction, or an administrator's supersession.
LiftSuppression(x) ==
  /\ marker[x].state \in {"recorded", "finalized"}
  /\ marker' = [marker EXCEPT ![x].state = "lifted"]
  /\ UNCHANGED <<gate, clock, ev, enr, cursor, job, found, wk, faults>>

InForce == {x \in Markers : marker[x].state \in {"recorded", "finalized"}}

\* effective_suppressions shows the first one of a key, DISTINCT ON.
Effective == {x \in InForce : \A y \in InForce : x <= y}

\* OUTSTANDING_SUPPRESSION_STOPS: its marker, and what it covers.
Final == {x \in Effective : marker[x].state = "finalized"}

Covered == IF Final = {} THEN {} ELSE Live

-----------------------------------------------------------------------------
(* The scheduler pass: readTerminalStopWork, then the insert.              *)

OutboxHead ==
  IF Unread = {} THEN None ELSE CHOOSE e \in Unread : \A f \in Unread \ {e} : Before(e, f)

MarkerHead == IF Covered = {} THEN None ELSE CHOOSE x \in Final : TRUE

Owed(heads) == heads # <<None, None>>

\* A plausible slip: a key of one stream alone.
KeyOfMarker(heads) == <<None, heads[2]>>

\* jobIdempotencyKey.terminalStop.
Key(heads) == heads

\* enqueueJob: ON CONFLICT DO NOTHING against rows that are never deleted.
Queueable(heads) == job[Key(heads)].state = "absent"

\* A pass that finds a key already there inserts nothing.
ReadWork ==
  /\ found = None
  /\ Owed(<<OutboxHead, MarkerHead>>)
  /\ Queueable(<<OutboxHead, MarkerHead>>)
  /\ found' = <<OutboxHead, MarkerHead>>
  /\ UNCHANGED <<gate, clock, ev, enr, marker, cursor, job, wk, faults>>

\* The stop, the drain or the enrollment that moves a head may come in between.
QueueDrain ==
  /\ found # None
  /\ job' = [job EXCEPT ![Key(found)].state = "queued"]
  /\ found' = None
  /\ UNCHANGED <<gate, clock, ev, enr, marker, cursor, wk, faults>>

-----------------------------------------------------------------------------
(* The drain, one transaction with the completion of its job.              *)

ClaimDrain(w, k) ==
  /\ wk[w] = None
  /\ job[k].state = "queued"
  /\ job' = [job EXCEPT ![k] = [state |-> "running", attempts |-> @.attempts + 1]]
  /\ wk' = [wk EXCEPT ![w] = k]
  /\ UNCHANGED <<gate, clock, ev, enr, marker, cursor, found, faults>>

\* LIMIT over the keyset order.
Batch == {e \in Unread : Cardinality({f \in Unread : Before(f, e)}) < DrainLimit}

LastOf(batch) == CHOOSE e \in batch : \A f \in batch \ {e} : Before(f, e)

\* A plausible slip: the live enrollments it is about when the drain runs.
OwesNow(e) == Live \cap Scope[e]

\* What an event ends: the enrollments it recorded when it was emitted.
Owes(e) == ev[e].owed

\* consumeTerminalStops, then consumeSuppressionStops (whose LIMIT is left
\* out), then completeJob, under the gate.
Drain(w) ==
  /\ wk[w] # None
  /\ GateFree
  /\ enr' = Ended((UNION {Owes(e) : e \in Batch}) \cup Covered)
  /\ cursor' = IF Batch = {} THEN cursor ELSE LastOf(Batch)
  /\ job' = [job EXCEPT ![wk[w]].state = "done"]
  /\ wk' = [wk EXCEPT ![w] = None]
  /\ UNCHANGED <<gate, clock, ev, marker, found, faults>>

\* A plausible slip: one attempt more than allowed.
SpentLate(k) == job[k].attempts > MaxAttempts

Spent(k) == job[k].attempts >= MaxAttempts

\* The attempt throws, is cancelled or loses its lease: everything it did is
\* rolled back, and the row is retried or dead.
FailDrain(w) ==
  /\ wk[w] # None
  /\ faults < MaxFaults
  /\ job' = [job EXCEPT ![wk[w]].state = IF Spent(wk[w]) THEN "dead" ELSE "queued"]
  /\ wk' = [wk EXCEPT ![w] = None]
  /\ faults' = faults + 1
  /\ UNCHANGED <<gate, clock, ev, enr, marker, cursor, found>>

-----------------------------------------------------------------------------

Next ==
  \/ \E e \in Events : BeginStop(e) \/ EmitStop(e) \/ CommitStop(e)
  \/ \E n \in Enrollments : Enroll(n)
  \/ \E x \in Markers : RecordSuppression(x) \/ FinalizeSuppression(x) \/ LiftSuppression(x)
  \/ ReadWork \/ QueueDrain
  \/ \E w \in Workers : \/ \E k \in Heads : ClaimDrain(w, k)
                        \/ Drain(w) \/ FailDrain(w)

Spec == Init /\ [][Next]_vars

\* Open transactions end; the pass runs every minute; slots poll for jobs.
\* Nobody has to begin a stop, to enroll, to suppress or to lift.
Fairness ==
  /\ \A e \in Events : WF_vars(CommitStop(e))
  /\ WF_vars(ReadWork) /\ WF_vars(QueueDrain)
  /\ \A w \in Workers : /\ WF_vars(\E k \in Heads : ClaimDrain(w, k))
                        /\ WF_vars(Drain(w))

FairSpec == Spec /\ Fairness

-----------------------------------------------------------------------------
(* Properties.                                                             *)

\* Every table has its type; in particular a slot works on a row that is `running`, the
\* cursor stands on a committed event, and no drain is tried more than MaxAttempts times.
TypeOK ==
  /\ gate \in {None} \cup {e \in Events : ev[e].pc = "open"}
  /\ clock \in Instants
  /\ ev \in [Events -> [pc : {"none", "begun", "open", "committed"},
                        at : Instants, owed : SUBSET Enrollments]]
  /\ enr \in [Enrollments -> [state : {"none", "live", "ended"}, born : Instants]]
  /\ marker \in [Markers -> [state : {"none", "recorded", "finalized", "lifted"}, owed : SUBSET Enrollments]]
  /\ cursor \in Committed \cup {None}
  /\ job \in [Heads -> [state : {"absent", "queued", "running", "done", "dead"},
                        attempts : 0..MaxAttempts]]
  /\ found \in Heads \cup {None}
  /\ wk \in [Workers -> {k \in Heads : job[k].state = "running"} \cup {None}]
  /\ faults \in 0..MaxFaults

\* Once the cursor has passed a stop event, no enrollment it owes is live, nor one it is
\* about that was written before its instant: no event is skipped because it committed
\* late, and no enrollment escaped the set because it committed in between.
ConsumedStopsAll ==
  \A e \in Committed \ Unread : \A n \in Live :
    n \notin ev[e].owed /\ (n \in Scope[e] => enr[n].born >= ev[e].at)

\* A drain ends only what a stop is about: an enrollment of the scope of an event this
\* drain reads, written before that event, or one a suppression that is effective now
\* covers. What was enrolled after the stop, deliberately, goes on.
OnlyEarlierStopped ==
  [][\A w \in Workers : Drain(w) =>
       \A n \in Live : enr'[n].state = "ended" =>
         Final # {} \/ \E e \in Batch : n \in Scope[e] /\ enr[n].born < ev[e].at]_vars

Dead == \E k \in Heads : job[k].state = "dead"

\* What a committed stop event owes is ended, and so is what was live when the
\* suppression in force became final, unless somebody lifts it first; or an operator
\* sees a dead job. Neither stream's drain is lost to the key of the other
\* (terminalStopSource).
EveryStopApplied ==
  \A n \in Enrollments :
    /\ (\E e \in Committed : n \in ev[e].owed) ~> (enr[n].state = "ended" \/ Dead)
    /\ \A x \in Markers :
         (x \in Final /\ n \in marker[x].owed)
           ~> (enr[n].state = "ended" \/ x \notin Final \/ Dead)
=============================================================================
