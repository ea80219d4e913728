------------------------------ MODULE Sequence ------------------------------
(***************************************************************************)
(* One enrollment of a sequence (packages/domain/sequences): its step      *)
(* executions, the sequence.action jobs that look at them (wake.ts), the   *)
(* transaction that runs a due step and the dispatch after its commit      *)
(* (executions.ts), and the call log, the stop and the resume that come in *)
(* between.                                                                *)
(*                                                                         *)
(* A transaction that locks the enrollment is one action. What             *)
(* dispatchPreparedStep does runs in autocommit: each statement is one.    *)
(***************************************************************************)
EXTENDS Naturals

CONSTANTS
  LastStep,    \* the steps of the frozen version are 1..LastStep
  Channel,     \* of each step: "email" or "call"
  Workers,     \* the slots that run sequence.action
  MaxAttempts, \* of a job
  MaxFaults,   \* bound on the workers that die and the leases that run out under them
  MaxWaits,    \* bound on how often a hold or a refusal comes
  None         \* SQL NULL

Steps == 1..LastStep

ASSUME SequenceAssumption ==
  /\ LastStep \in Nat \ {0}
  /\ Channel \in [Steps -> {"email", "call"}]
  /\ MaxAttempts \in Nat \ {0} /\ MaxFaults \in Nat /\ MaxWaits \in Nat

VARIABLES
  ended,    \* None while the enrollment is live
  step,     \* step_executions, None while there is no row
  fence,    \* the outbound message of each step
  blocked,  \* an open hold of somebody else applies to the enrollment
  allowed,  \* nothing else refuses: route, template, coverage, window, cap
  job,      \* the last sequence.action job of each step
  at,       \* where each worker stands
  faults,   \* how many faults there were
  waits     \* how often a hold or a refusal came

bounds == <<faults, waits>>
vars == <<ended, step, fence, blocked, allowed, job, at, bounds>>

\* ripe: due_at and not_before have passed; of a dispatched row, the recovery grace.
\* moved: no job was materialized for this version (updated_at) of the row.
Rows == [state : {"pending", "held", "dispatched", "completed", "cancelled"},
         result : {None, "sent", "skipped", "logged"},
         ripe : BOOLEAN, moved : BOOLEAN]

\* What readOutboundOutcome tells, and whether the message left.
Fences == [state : {"absent", "prepared", "held", "dispatching", "reconciling",
                    "sent", "unknown_terminal"},
           answer : {None, "delivered", "skipped"}, left : BOOLEAN]

Jobs == [state : {"none", "queued", "running", "over", "dead"},
         holder : Workers \cup {None}, attempts : 0..MaxAttempts]

\* NULL is no value.
ASSUME NullAssumption == None \notin Workers \cup Rows \cup {"delivered", "skipped"}

\* The stages of a worker: the step's transaction; dispatchPreparedStep before, in and
\* after the dispatch; the statements of its two ends.
Places == [pc : {"idle", "running", "handed", "asking", "calling", "reading", "holding",
                 "rescheduling", "completing", "marking", "advancing", "closing"},
           step : Steps \cup {None}]

Idle == [pc |-> "idle", step |-> None]

NewRow == [state |-> "pending", result |-> None, ripe |-> FALSE, moved |-> TRUE]

\* enrollContact: the enrollment and its first execution are one statement.
Init ==
  /\ ended = None
  /\ step = [s \in Steps |-> IF s = 1 THEN NewRow ELSE None]
  /\ fence = [s \in Steps |-> [state |-> "absent", answer |-> None, left |-> FALSE]]
  /\ blocked = FALSE /\ allowed = TRUE
  /\ job = [s \in Steps |-> [state |-> "none", holder |-> None, attempts |-> 0]]
  /\ at = [w \in Workers |-> Idle]
  /\ faults = 0 /\ waits = 0

-----------------------------------------------------------------------------
(* The rows.                                                               *)

Live == ended = None

Waiting == {"pending", "held"}

Has(s, states) == step[s] # None /\ step[s].state \in states

Unfinished(s) == Has(s, {"pending", "held", "dispatched"})

\* Every writer of a row sets updated_at.
Written(row, state) == [row EXCEPT !.state = state, !.moved = TRUE]

Finished(row, result) == [Written(row, "completed") EXCEPT !.result = result]

\* createSuccessor: the next step of the version, unless its row is there already. `dated`:
\* its meeting, its frozen cadence or its version gives it a due date.
Successor(s, dated) == dated /\ s < LastStep /\ step[s + 1] = None

\* completeStepExecution, in one transaction.
Complete(s, result) ==
  \E dated \in BOOLEAN :
    /\ step' = [t \in Steps |->
                  IF t = s THEN Finished(step[s], result)
                  ELSE IF t = s + 1 /\ Successor(s, dated) THEN NewRow ELSE step[t]]
    /\ ended' = IF Successor(s, dated) THEN ended ELSE "completed"

\* stopEnrollments: pending and held steps only.
Stopped(rows) ==
  [t \in Steps |-> IF rows[t] # None /\ rows[t].state \in Waiting
                   THEN Written(rows[t], "cancelled") ELSE rows[t]]

-----------------------------------------------------------------------------
(* The jobs.                                                               *)

\* A plausible slip: a key per execution, as it once was.
OwedOnce(s) == job[s].state = "none"

\* The key is the version of the row; no two live jobs for one execution.
Owed(s) == step[s].moved /\ job[s].state \notin {"queued", "running"}

\* A plausible slip: the step's last job is armed again, as a mailbox's sync is.
Rearmed(j) == [j EXCEPT !.state = "queued"]

\* A row of its own, with its own attempts.
NewJob(j) == [state |-> "queued", holder |-> None, attempts |-> 0]

\* Due, held by no hold any more, or handed to a worker that went quiet.
Woken(s) == Unfinished(s) /\ step[s].ripe /\ (step[s].state = "held" => ~blocked)

\* listStepWakes, and the insert of the job.
Wake(s) ==
  /\ Live /\ Woken(s) /\ Owed(s)
  /\ step' = [step EXCEPT ![s].moved = FALSE]
  /\ job' = [job EXCEPT ![s] = NewJob(@)]
  /\ UNCHANGED <<ended, fence, blocked, allowed, at, bounds>>

Claim(w, s) ==
  /\ at[w] = Idle
  /\ job[s].state = "queued"
  /\ job' = [job EXCEPT ![s] = [state |-> "running", holder |-> w, attempts |-> @.attempts + 1]]
  /\ at' = [at EXCEPT ![w] = [pc |-> "running", step |-> s]]
  /\ UNCHANGED <<ended, step, fence, blocked, allowed, bounds>>

\* Another attempt, or none is left.
Again(j) == [j EXCEPT !.holder = None,
                      !.state = IF j.attempts < MaxAttempts THEN "queued" ELSE "dead"]

\* The process dies or the handler throws; its job is another slot's in the end.
Die(w) ==
  /\ at[w] # Idle
  /\ faults < MaxFaults
  /\ faults' = faults + 1
  /\ at' = [at EXCEPT ![w] = Idle]
  /\ UNCHANGED <<ended, step, fence, blocked, allowed, job, waits>>

\* The lease of a worker that died; of one that is slow and goes on.
Expire(s) ==
  /\ job[s].state = "running"
  /\ at[job[s].holder].step # s
  /\ job' = [job EXCEPT ![s] = Again(@)]
  /\ UNCHANGED <<ended, step, fence, blocked, allowed, at, bounds>>

LoseLease(s) ==
  /\ job[s].state = "running"
  /\ at[job[s].holder].step = s
  /\ faults < MaxFaults /\ faults' = faults + 1
  /\ job' = [job EXCEPT ![s] = Again(@)]
  /\ UNCHANGED <<ended, step, fence, blocked, allowed, at, waits>>

\* The handler returns; completeJob is refused to a slot that lost its lease.
Finish(w) ==
  LET s == at[w].step IN
  /\ at' = [at EXCEPT ![w] = Idle]
  /\ job' = IF job[s].state = "running" /\ job[s].holder = w
            THEN [job EXCEPT ![s].state = "over", ![s].holder = None]
            ELSE job

Goto(w, pc) == at' = [at EXCEPT ![w].pc = pc] /\ UNCHANGED job

-----------------------------------------------------------------------------
(* runDueStepExecution: one transaction, the gate and the enrollment locked. *)

Running(w) == at[w].pc = "running"

\* The enrollment ended, or the step is finished.
NothingToDo(w) ==
  /\ Running(w)
  /\ ~(Live /\ Unfinished(at[w].step))
  /\ Finish(w)
  /\ UNCHANGED <<ended, step, fence, blocked, allowed, bounds>>

Run(w) == Running(w) /\ Live /\ Unfinished(at[w].step)

InDoubt(f) == f.state \in {"dispatching", "reconciling"}
Unanswered(f) == f.state = "unknown_terminal" /\ f.answer = None
WentOut(f) == f.state = "sent" \/ (f.state = "unknown_terminal" /\ f.answer = "delivered")
Unasked(f) == f.state \in {"absent", "prepared", "held"}

\* settleFromFence, of a message that was sent or that the admin says was.
SettleSent(w) ==
  /\ Run(w)
  /\ WentOut(fence[at[w].step])
  /\ Complete(at[w].step, "sent")
  /\ Finish(w)
  /\ UNCHANGED <<fence, blocked, allowed, bounds>>

\* The admin's `skipped` stops the enrollment.
SettleSkipped(w) ==
  LET s == at[w].step IN
  /\ Run(w)
  /\ fence[s].answer = "skipped"
  /\ step' = Stopped([step EXCEPT ![s] = Finished(@, "skipped")])
  /\ ended' = "stopped"
  /\ Finish(w)
  /\ UNCHANGED <<fence, blocked, allowed, bounds>>

\* A plausible slip: a hold is written over whatever the step has become.
HoldsAnyRow(s) == TRUE

\* The WHERE of holdExecution.
Holds(s) == Unfinished(s)

\* A step an open hold blocks keeps its not_before; any other waits its interval.
HeldRow(s) ==
  [Written(step[s], "held") EXCEPT !.ripe = blocked /\ (@ \/ step[s].state = "dispatched")]

Hold(s) == step' = IF Holds(s) THEN [step EXCEPT ![s] = HeldRow(s)] ELSE step

HoldInDoubt(w) ==
  /\ Run(w)
  /\ InDoubt(fence[at[w].step]) \/ Unanswered(fence[at[w].step])
  /\ Hold(at[w].step)
  /\ Finish(w)
  /\ UNCHANGED <<ended, fence, blocked, allowed, bounds>>

Due(w) == step[at[w].step].state = "dispatched" \/ step[at[w].step].ripe

NotDue(w) ==
  /\ Run(w) /\ Unasked(fence[at[w].step])
  /\ ~Due(w)
  /\ Finish(w)
  /\ UNCHANGED <<ended, step, fence, blocked, allowed, bounds>>

RunDue(w) == Run(w) /\ Unasked(fence[at[w].step]) /\ Due(w)

\* resumeHeldStep found every hold released, or had none to look for.
Resumed(s) == step[s].state = "held" => ~blocked

\* Still held, or not eligible.
HoldStep(w) ==
  LET s == at[w].step IN
  /\ RunDue(w)
  /\ \/ ~Resumed(s)
     \/ fence[s].state = "absent" /\ (blocked \/ ~allowed)
  /\ Hold(s)
  /\ Finish(w)
  /\ UNCHANGED <<ended, fence, blocked, allowed, bounds>>

\* A template variable has no value: the one hold this lane opens itself.
HoldMissingVariables(w) ==
  LET s == at[w].step IN
  /\ RunDue(w) /\ Channel[s] = "email"
  /\ fence[s].state = "absent" /\ ~blocked /\ allowed
  /\ waits < MaxWaits /\ waits' = waits + 1
  /\ blocked' = TRUE
  /\ step' = [step EXCEPT ![s] = [Written(@, "held") EXCEPT !.ripe = TRUE]]
  /\ Finish(w)
  /\ UNCHANGED <<ended, fence, allowed, faults>>

\* handBackToSend: a fence that was never asked is dispatched again.
HandBack(w) ==
  LET s == at[w].step IN
  /\ RunDue(w) /\ Resumed(s)
  /\ fence[s].state \in {"prepared", "held"}
  /\ step' = [step EXCEPT ![s] = [Written(@, "dispatched") EXCEPT !.ripe = FALSE]]
  /\ Goto(w, "handed")
  /\ UNCHANGED <<ended, fence, blocked, allowed, bounds>>

Eligible(w) ==
  /\ RunDue(w) /\ Resumed(at[w].step)
  /\ fence[at[w].step].state = "absent" /\ ~blocked /\ allowed

\* The call is a person's to make. Only a stale hold is cleared.
AwaitManual(w) ==
  LET s == at[w].step IN
  /\ Eligible(w) /\ Channel[s] = "call"
  /\ step' = IF step[s].state = "held" THEN [step EXCEPT ![s] = Written(@, "pending")] ELSE step
  /\ Finish(w)
  /\ UNCHANGED <<ended, fence, blocked, allowed, bounds>>

\* The fence and the dispatched row commit together.
PrepareEmail(w) ==
  LET s == at[w].step IN
  /\ Eligible(w) /\ Channel[s] = "email"
  /\ fence' = [fence EXCEPT ![s].state = "prepared"]
  /\ step' = [step EXCEPT ![s] = [Written(@, "dispatched") EXCEPT !.ripe = FALSE]]
  /\ Goto(w, "handed")
  /\ UNCHANGED <<ended, blocked, allowed, bounds>>

\* What holds a step makes it wait, releases it, or comes with the release: the holds
\* are gone and the step moves on by the time they stood, past now.
Moved(s) == [Written(step[s], "pending") EXCEPT !.ripe = FALSE]

ResumeLater(w) ==
  LET s == at[w].step IN
  /\ RunDue(w) /\ step[s].state = "held" /\ ~blocked
  /\ waits < MaxWaits /\ waits' = waits + 1
  /\ step' = [step EXCEPT ![s] = Moved(s)]
  /\ Finish(w)
  /\ UNCHANGED <<ended, fence, blocked, allowed, faults>>

\* The due instant lies outside a sending window and moves to the next.
PlaceInWindow(w) ==
  LET s == at[w].step IN
  /\ Eligible(w) /\ Channel[s] = "email"
  /\ waits < MaxWaits /\ waits' = waits + 1
  /\ step' = [step EXCEPT ![s] = Moved(s)]
  /\ Finish(w)
  /\ UNCHANGED <<ended, fence, blocked, allowed, faults>>

RunDueStep(w) ==
  \/ NothingToDo(w) \/ SettleSent(w) \/ SettleSkipped(w) \/ HoldInDoubt(w)
  \/ NotDue(w) \/ HoldStep(w) \/ HoldMissingVariables(w) \/ ResumeLater(w)
  \/ HandBack(w) \/ AwaitManual(w) \/ PlaceInWindow(w) \/ PrepareEmail(w)

-----------------------------------------------------------------------------
(* dispatchPreparedStep, after the commit.                                 *)

\* Somebody else moved the step meanwhile.
NoLongerDispatched(w) ==
  /\ at[w].pc = "handed"
  /\ ~Has(at[w].step, {"dispatched"})
  /\ Finish(w)
  /\ UNCHANGED <<ended, step, fence, blocked, allowed, bounds>>

StartDispatch(w) ==
  /\ at[w].pc = "handed"
  /\ Has(at[w].step, {"dispatched"})
  /\ Goto(w, "asking")
  /\ UNCHANGED <<ended, step, fence, blocked, allowed, bounds>>

Claimable(f) == f.state \in {"prepared", "held"}

\* The gate, and the claim under it.
ClaimFence(w) ==
  LET s == at[w].step IN
  /\ at[w].pc = "asking"
  /\ Claimable(fence[s]) /\ Live /\ ~blocked /\ allowed
  /\ fence' = [fence EXCEPT ![s].state = "dispatching"]
  /\ Goto(w, "calling")
  /\ UNCHANGED <<ended, step, blocked, allowed, bounds>>

\* Held, or for a while only not ready; a refusal that ends by itself names its end.
RefuseFence(w) ==
  LET s == at[w].step IN
  /\ at[w].pc = "asking"
  /\ Claimable(fence[s]) /\ ~(Live /\ ~blocked /\ allowed)
  /\ \E state \in {"prepared", "held"} : fence' = [fence EXCEPT ![s].state = state]
  /\ \/ Goto(w, "holding")
     \/ ~allowed /\ Goto(w, "rescheduling")
  /\ UNCHANGED <<ended, step, blocked, allowed, bounds>>

\* Another worker asks Gmail, or has: this one reads what became of it.
LoseFence(w) ==
  /\ at[w].pc = "asking"
  /\ ~Claimable(fence[at[w].step])
  /\ \E pc \in {"reading", "holding"} : Goto(w, pc)
  /\ UNCHANGED <<ended, step, fence, blocked, allowed, bounds>>

\* Gmail accepts. The sweep may have settled the fence first.
CallAccepted(w) ==
  LET s == at[w].step IN
  /\ at[w].pc = "calling"
  /\ fence' = [fence EXCEPT ![s].left = TRUE,
                            ![s].state = IF InDoubt(fence[s]) THEN "sent" ELSE @]
  /\ Goto(w, IF InDoubt(fence[s]) THEN "reading" ELSE "holding")
  /\ UNCHANGED <<ended, step, blocked, allowed, bounds>>

\* It refuses or says nothing; the message may have left all the same.
CallInDoubt(w) ==
  LET s == at[w].step IN
  /\ at[w].pc = "calling"
  /\ \E left \in BOOLEAN :
       fence' = [fence EXCEPT ![s].left = left,
                              ![s].state = IF @ = "dispatching" THEN "reconciling" ELSE @]
  /\ \E pc \in {"reading", "holding", "rescheduling"} : Goto(w, pc)
  /\ UNCHANGED <<ended, step, blocked, allowed, bounds>>

\* A plausible slip: what is asked of Gmail is taken for sent.
SentOrInDoubt(f) == f.state = "sent" \/ InDoubt(f)

\* What dispatchPreparedStep completes a step for.
Sent(f) == f.state = "sent"

ReadFence(w) ==
  /\ at[w].pc = "reading"
  /\ Goto(w, IF Sent(fence[at[w].step]) THEN "completing" ELSE "holding")
  /\ UNCHANGED <<ended, step, fence, blocked, allowed, bounds>>

HoldDispatched(w) ==
  /\ at[w].pc = "holding"
  /\ Hold(at[w].step)
  /\ Finish(w)
  /\ UNCHANGED <<ended, fence, blocked, allowed, bounds>>

\* One transaction again: the step can run again at retryAt.
Reschedule(w) ==
  LET s == at[w].step IN
  /\ at[w].pc = "rescheduling"
  /\ step' = IF Live /\ Has(s, {"dispatched"}) THEN [step EXCEPT ![s] = Moved(s)] ELSE step
  /\ Finish(w)
  /\ UNCHANGED <<ended, fence, blocked, allowed, bounds>>

\* completeStepExecution without a transaction. Its reads, whose locks end with them;
CheckCompletable(w) ==
  /\ at[w].pc = "completing"
  /\ IF Live /\ Unfinished(at[w].step) THEN Goto(w, "marking") ELSE Finish(w)
  /\ UNCHANGED <<ended, step, fence, blocked, allowed, bounds>>

\* the update, which looks at no state, though a cancelled row's CHECK fails the job;
MarkCompleted(w) ==
  /\ at[w].pc = "marking" /\ ~Has(at[w].step, {"cancelled"})
  /\ step' = [step EXCEPT ![at[w].step] = Finished(@, "sent")]
  /\ Goto(w, "advancing")
  /\ UNCHANGED <<ended, fence, blocked, allowed, bounds>>

MarkRefused(w) ==
  LET s == at[w].step IN
  /\ at[w].pc = "marking" /\ Has(s, {"cancelled"})
  /\ at' = [at EXCEPT ![w] = Idle]
  /\ job' = IF job[s].holder = w THEN [job EXCEPT ![s] = Again(@)] ELSE job
  /\ UNCHANGED <<ended, step, fence, blocked, allowed, bounds>>

\* the successor, unless another worker was first;
Advance(w) ==
  LET s == at[w].step IN
  /\ at[w].pc = "advancing"
  /\ \E dated \in BOOLEAN :
       IF Successor(s, dated)
       THEN step' = [step EXCEPT ![s + 1] = NewRow] /\ Finish(w)
       ELSE Goto(w, "closing") /\ UNCHANGED step
  /\ UNCHANGED <<ended, fence, blocked, allowed, bounds>>

\* and the end, when no successor came of it.
Close(w) ==
  /\ at[w].pc = "closing"
  /\ ended' = IF Live THEN "completed" ELSE ended
  /\ Finish(w)
  /\ UNCHANGED <<step, fence, blocked, allowed, bounds>>

Dispatch(w) ==
  \/ NoLongerDispatched(w) \/ StartDispatch(w)
  \/ ClaimFence(w) \/ RefuseFence(w) \/ LoseFence(w)
  \/ CallAccepted(w) \/ CallInDoubt(w) \/ ReadFence(w)
  \/ HoldDispatched(w) \/ Reschedule(w)
  \/ CheckCompletable(w) \/ MarkCompleted(w) \/ MarkRefused(w) \/ Advance(w) \/ Close(w)

-----------------------------------------------------------------------------
(* Everybody else.                                                         *)

\* The sweep adopts what its sender left, and gives the verdict.
Adopt(s) ==
  /\ fence[s].state = "dispatching"
  /\ fence' = [fence EXCEPT ![s].state = "reconciling"]
  /\ UNCHANGED <<ended, step, blocked, allowed, job, at, bounds>>

Settle(s) ==
  /\ fence[s].state = "reconciling"
  /\ \/ fence[s].left /\ fence' = [fence EXCEPT ![s].state = "sent"]
     \/ fence' = [fence EXCEPT ![s].state = "unknown_terminal"]
  /\ UNCHANGED <<ended, step, blocked, allowed, job, at, bounds>>

\* The admin says what became of it.
Answer(s) ==
  /\ Unanswered(fence[s])
  /\ \E answer \in {"delivered", "skipped"} : fence' = [fence EXCEPT ![s].answer = answer]
  /\ UNCHANGED <<ended, step, blocked, allowed, job, at, bounds>>

\* A hold opens, or a route, a template, a cap, a window goes; and the way back.
Obstruct ==
  /\ waits < MaxWaits /\ waits' = waits + 1
  /\ \/ ~blocked /\ blocked' = TRUE /\ UNCHANGED allowed
     \/ allowed /\ allowed' = FALSE /\ UNCHANGED blocked
  /\ UNCHANGED <<ended, step, fence, job, at, faults>>

Clear ==
  /\ \/ blocked /\ blocked' = FALSE /\ UNCHANGED allowed
     \/ ~allowed /\ allowed' = TRUE /\ UNCHANGED blocked
  /\ UNCHANGED <<ended, step, fence, job, at, bounds>>

\* stopEnrollments: a reply, a suppression, an admin.
Stop ==
  /\ Live
  /\ ended' = "stopped"
  /\ step' = Stopped(step)
  /\ UNCHANGED <<fence, blocked, allowed, job, at, bounds>>

\* The Resume of a pause: what is held is pending again, and may move on in time.
Resume ==
  /\ Live /\ ~blocked
  /\ waits < MaxWaits /\ waits' = waits + 1
  /\ \E s \in Steps :
       /\ Has(s, {"held"})
       /\ \E row \in {Moved(s), Written(step[s], "pending")} : step' = [step EXCEPT ![s] = row]
  /\ UNCHANGED <<ended, fence, blocked, allowed, job, at, faults>>

\* applyCallToStep: the call is made and goes on, is answered, or is tried again.
LogCall(s) ==
  /\ Channel[s] = "call" /\ Live /\ Has(s, Waiting)
  /\ Complete(s, "logged")
  /\ UNCHANGED <<fence, blocked, allowed, job, at, bounds>>

LogEngaged(s) ==
  /\ Channel[s] = "call" /\ Live /\ Has(s, Waiting)
  /\ step' = Stopped([step EXCEPT ![s] = Finished(@, "logged")])
  /\ ended' = "stopped"
  /\ UNCHANGED <<fence, blocked, allowed, job, at, bounds>>

RetryCall(s) ==
  /\ Channel[s] = "call" /\ Live /\ Has(s, Waiting)
  /\ waits < MaxWaits /\ waits' = waits + 1
  /\ step' = [step EXCEPT ![s] = [Written(@, @.state) EXCEPT !.ripe = FALSE]]
  /\ UNCHANGED <<ended, fence, blocked, allowed, job, at, faults>>

DueComes(s) ==
  /\ Unfinished(s) /\ ~step[s].ripe
  /\ step' = [step EXCEPT ![s].ripe = TRUE]
  /\ UNCHANGED <<ended, fence, blocked, allowed, job, at, bounds>>

-----------------------------------------------------------------------------

Next ==
  \/ \E w \in Workers :
       RunDueStep(w) \/ Dispatch(w) \/ Die(w) \/ \E s \in Steps : Claim(w, s)
  \/ \E s \in Steps :
       \/ Wake(s) \/ Expire(s) \/ LoseLease(s)
       \/ Adopt(s) \/ Settle(s) \/ Answer(s)
       \/ LogCall(s) \/ LogEngaged(s) \/ RetryCall(s) \/ DueComes(s)
  \/ Obstruct \/ Clear \/ Stop \/ Resume

Spec == Init /\ [][Next]_vars

\* The clock, the scheduler, the runner and a worker that lives go on. Nobody has to
\* clear a hold, settle a fence, answer or call.
FairSpec ==
  /\ Spec
  /\ \A w \in Workers : WF_vars(RunDueStep(w) \/ Dispatch(w))
  /\ \A s \in Steps :
       /\ WF_vars(DueComes(s)) /\ WF_vars(Wake(s)) /\ WF_vars(Expire(s))
       /\ WF_vars(\E w \in Workers : Claim(w, s))

-----------------------------------------------------------------------------
(* Properties.                                                             *)

\* Every variable has its type (the CHECKs of migration 0012).
TypeOK ==
  /\ ended \in {None, "completed", "stopped"}
  /\ step \in [Steps -> Rows \cup {None}]
  /\ fence \in [Steps -> Fences]
  /\ blocked \in BOOLEAN /\ allowed \in BOOLEAN
  /\ job \in [Steps -> Jobs]
  /\ at \in [Workers -> Places]
  /\ faults \in 0..MaxFaults /\ waits \in 0..MaxWaits

\* "No successor runs on a maybe": the step before a step is completed, and an email
\* among them only by a verdict that says the message went out (settleFromFence,
\* dispatchPreparedStep, holdExecution's WHERE).
NoSuccessorOnAMaybe ==
  \A s \in Steps \ {1} :
    step[s] # None =>
      /\ Has(s - 1, {"completed"})
      /\ Channel[s - 1] = "email" => step[s - 1].result = "sent" /\ WentOut(fence[s - 1])

Unobstructed == allowed /\ ~blocked

Over(s) == ended # None \/ job[s].state = "dead"

\* No email is forgotten: once nothing stands in its way for good, Gmail is asked for
\* every step that is there, whatever worker died holding it and whatever key its last
\* job had (listStepWakes and its four reasons to look at a step again).
\* And a message that is sent completes its step, however late anybody learns of it:
\* after a sweep settled it, or the worker that sent it died (settleFromFence).
NoStepForgotten ==
  \A s \in Steps :
    /\ <>[]Unobstructed =>
         ((Channel[s] = "email" /\ step[s] # None) ~> (~Unasked(fence[s]) \/ Over(s)))
    /\ <>[]~blocked => (Sent(fence[s]) ~> (Has(s, {"completed"}) \/ Over(s)))

Completing(w) == at[w].pc \in {"advancing", "closing"}

\* completeStepExecution: "Complete a step and create its successor, in one
\* transaction": an enrollment that lives has a step to do, or a worker makes it one.
NeverStranded ==
  Live => (\E s \in Steps : Unfinished(s)) \/ (\E w \in Workers : Completing(w))

=============================================================================
