------------------------------ MODULE JobQueue ------------------------------
(***************************************************************************)
(* The PostgreSQL job queue (packages/domain/jobs/jobStore.ts), the runner *)
(* that works it (apps/worker/src/runner/jobRunner.ts) and the scheduler   *)
(* pass that fills it (apps/worker/src/scheduler/schedulerPass.ts).        *)
(*                                                                         *)
(* One statement, or one transaction, of the code is one action here.      *)
(* Between two of them any other process may act, and a process may stop   *)
(* for good or pause past its lease.                                       *)
(*                                                                         *)
(* Time is kept as far as the statements can tell: a row is due or not     *)
(* (run_at and not_before against now()), a lease is live or expired.      *)
(***************************************************************************)
EXTENDS Naturals, Sequences

CONSTANTS
  Jobs,             \* one element per (workspace_id, kind, idempotency_key)
  Workers,          \* runner slots, each a single-threaded loop
  Owners,           \* the values of lease_owner
  OwnerOf,          \* the name a slot claims under; two processes may share one
  Protection,       \* JOB_KIND_PROTECTION of the job's kind
  MaxAttempts,      \* max_attempts
  ChunkCountLimit,  \* CHUNK_COUNT_LIMIT
  MaxRequeues,      \* bound: no admin requeue once a job has had this many
  None              \* SQL NULL

Protections == {"business_uniqueness", "fencing_token", "outbound_fence"}

ASSUME ConstantsAssumption ==
  /\ OwnerOf \in [Workers -> Owners]
  /\ Protection \in [Jobs -> Protections]
  /\ MaxAttempts \in Nat \ {0}
  /\ ChunkCountLimit \in Nat \ {0}
  /\ MaxRequeues \in Nat
  /\ None \notin Owners
  /\ None \notin Jobs

VARIABLES
  job,      \* the rows of the jobs table
  wk,       \* what each runner slot holds in memory
  applied   \* the units of work the handlers' transactions committed, in order

vars == <<job, wk, applied>>

States == {"absent", "queued", "running", "retryable", "dead", "done"}
Runnable == {"queued", "retryable"}

\* A row. `due`: run_at and not_before have passed. `expired`: lease_expires_at
\* has passed. `cursor`: payload.progress, as the number of units it stands for.
\* `chunks`: payload.chunking.chunks, 0 when there is no bookkeeping.
Rows == [state : States, owner : Owners \cup {None}, token : Nat,
         attempt : 0..MaxAttempts, due : BOOLEAN, expired : BOOLEAN,
         cursor : Nat, chunks : Nat, requeued : Nat, archived : BOOLEAN]

\* Where a slot stands between two statements:
\*   claimed    at the top of the chunk loop of runClaimedJob
\*   handling   inside the handler
\*   returned   an outbound_fence handler returned; completeJob is next
\*   failing    failJob is next      burying   killJob is next
\*   yielding   requeueForNextChunk is next
Stages == {"idle", "claimed", "handling", "returned", "failing", "burying", "yielding"}

Claims == [pc : Stages, job : Jobs \cup {None}, token : Nat,
           attempt : 0..MaxAttempts, cursor : Nat, chunks : Nat]

Idle == [pc |-> "idle", job |-> None, token |-> 0, attempt |-> 0,
         cursor |-> 0, chunks |-> 0]

AbsentRow == [state |-> "absent", owner |-> None, token |-> 0, attempt |-> 0,
              due |-> FALSE, expired |-> FALSE, cursor |-> 0, chunks |-> 0,
              requeued |-> 0, archived |-> FALSE]

Init ==
  /\ job = [j \in Jobs |-> AbsentRow]
  /\ wk = [w \in Workers |-> Idle]
  /\ applied = [j \in Jobs |-> <<>>]

-----------------------------------------------------------------------------
(* Predicates of the fenced statements.                                    *)

\* state = 'running' AND lease_owner = $3 AND fencing_token = $4
Holds(w) ==
  LET j == wk[w].job IN
  /\ job[j].state = "running"
  /\ job[j].owner = OwnerOf[w]
  /\ job[j].token = wk[w].token

\* A plausible slip: the progress write keeps only the row's state.
TokenCurrentUnfenced(w) == job[wk[w].job].state = "running"

\* writeProgress asks for the token and not for the owner.
TokenCurrent(w) ==
  LET j == wk[w].job IN
  /\ job[j].state = "running"
  /\ job[j].token = wk[w].token

\* holdsLease took the row FOR UPDATE and the handler's transaction is open.
Locked(j) ==
  \E w \in Workers : /\ wk[w].pc = "handling"
                     /\ wk[w].job = j
                     /\ Protection[j] = "fencing_token"

-----------------------------------------------------------------------------
(* What the statements write.                                              *)

\* enqueueJob's INSERT; run_at and not_before may lie ahead.
NewRow(dueNow) == [AbsentRow EXCEPT !.state = "queued", !.due = dueNow]

\* A plausible slip: the claim does not advance the fencing token.
LeasedSameToken(row, owner) ==
  [row EXCEPT !.state = "running", !.owner = owner, !.expired = FALSE,
              !.attempt = row.attempt + 1]

\* claimJobs' UPDATE.
Leased(row, owner) ==
  [row EXCEPT !.state = "running", !.owner = owner, !.expired = FALSE,
              !.attempt = row.attempt + 1, !.token = row.token + 1]

\* What every statement that ends a claim does to the lease columns.
Unleased(row, state) ==
  [row EXCEPT !.state = state, !.owner = None, !.expired = FALSE]

\* A plausible slip: the last attempt is retried too, and claimJobs ignores it.
AfterFailureOffByOne(row, attempt) ==
  IF attempt > MaxAttempts THEN Unleased(row, "dead")
  ELSE [Unleased(row, "retryable") EXCEPT !.due = FALSE]

\* failJob: dead once the attempts are spent, else retryable after the backoff.
AfterFailure(row, attempt) ==
  IF attempt >= MaxAttempts THEN Unleased(row, "dead")
  ELSE [Unleased(row, "retryable") EXCEPT !.due = FALSE]

\* reclaimExpiredLeases: like a failure, but token and run_at stay.
AfterExpiry(row) ==
  Unleased(row, IF row.attempt >= MaxAttempts THEN "dead" ELSE "retryable")

\* writeProgress: the handler's cursor, and the runner's own bookkeeping.
Progressed(row, cursor) ==
  [row EXCEPT !.cursor = cursor, !.chunks = row.chunks + 1]

\* requeueForNextChunk: the attempt comes back, greatest(attempt_count - 1, 0).
Yielded(row) ==
  [Unleased(row, "queued") EXCEPT
     !.due = TRUE, !.attempt = IF row.attempt > 0 THEN row.attempt - 1 ELSE 0]

\* A plausible slip: the requeue clears the whole payload, the cursor with it.
RequeuedFromScratch(row) ==
  [Unleased(row, "queued") EXCEPT
     !.due = TRUE, !.attempt = 0, !.chunks = 0, !.cursor = 0,
     !.requeued = row.requeued + 1]

\* requeueDeadJob: attempts and chunk budget start again; cursor and token stay.
Requeued(row) ==
  [Unleased(row, "queued") EXCEPT
     !.due = TRUE, !.attempt = 0, !.chunks = 0, !.requeued = row.requeued + 1]

\* archiveCompletedPayloads: the row and its key stay, the payload goes.
Archived(row) == [row EXCEPT !.archived = TRUE, !.cursor = 0, !.chunks = 0]

\* RETURNING: what a claim hands the runner.
Taken(j, row) ==
  [pc |-> "claimed", job |-> j, token |-> row.token, attempt |-> row.attempt,
   cursor |-> row.cursor, chunks |-> row.chunks]

Leave(w) == wk' = [wk EXCEPT ![w] = Idle]
Goto(w, pc) == wk' = [wk EXCEPT ![w].pc = pc]

\* A statement fenced by the claim: the row becomes `row` or zero rows match.
Fenced(w, row) ==
  job' = IF Holds(w) THEN [job EXCEPT ![wk[w].job] = row] ELSE job

-----------------------------------------------------------------------------
(* The queue's own statements.                                             *)

\* enqueueJob for every specification the sources found, in the pass's one
\* transaction. ON CONFLICT DO NOTHING: a row that exists is left as it is.
SchedulerPass(S, dueNow) ==
  /\ \E j \in S : job[j].state = "absent"
  /\ job' = [j \in Jobs |->
               IF j \in S /\ job[j].state = "absent"
               THEN NewRow(dueNow) ELSE job[j]]
  /\ UNCHANGED <<wk, applied>>

\* run_at and not_before pass.
BecomeDue(j) ==
  /\ job[j].state \in Runnable
  /\ ~job[j].due
  /\ job' = [job EXCEPT ![j].due = TRUE]
  /\ UNCHANGED <<wk, applied>>

\* lease_expires_at passes. The owner does not notice.
LeaseExpires(j) ==
  /\ job[j].state = "running"
  /\ ~job[j].expired
  /\ job' = [job EXCEPT ![j].expired = TRUE]
  /\ UNCHANGED <<wk, applied>>

\* claimJobs: select and lease in one statement; the payload comes with it.
Claim(w, j) ==
  /\ wk[w].pc = "idle"
  /\ job[j].state \in Runnable
  /\ job[j].due
  /\ job[j].attempt < MaxAttempts
  /\ job' = [job EXCEPT ![j] = Leased(job[j], OwnerOf[w])]
  /\ wk' = [wk EXCEPT ![w] = Taken(j, job'[j])]
  /\ UNCHANGED applied

\* reclaimExpiredLeases: FOR UPDATE SKIP LOCKED passes over a locked row.
Reclaim(j) ==
  /\ job[j].state = "running"
  /\ job[j].expired
  /\ ~Locked(j)
  /\ job' = [job EXCEPT ![j] = AfterExpiry(job[j])]
  /\ UNCHANGED <<wk, applied>>

Archive(j) ==
  /\ job[j].state = "done"
  /\ ~job[j].archived
  /\ job' = [job EXCEPT ![j] = Archived(job[j])]
  /\ UNCHANGED <<wk, applied>>

RequeueDead(j) ==
  /\ job[j].state = "dead"
  /\ \A i \in Jobs : job[i].requeued < MaxRequeues
  /\ job' = [job EXCEPT ![j] = Requeued(job[j])]
  /\ UNCHANGED <<wk, applied>>

-----------------------------------------------------------------------------
(* The runner.                                                             *)

\* No handler is registered for the kind, or the bookkeeping the claim carried
\* is over one of the two chunk budgets. The wall-clock one may run out any time
\* after the first chunk.
RefuseAttempt(w) ==
  /\ wk[w].pc = "claimed"
  /\ Goto(w, "failing")
  /\ UNCHANGED <<job, applied>>

\* The handler is entered, in a transaction unless its effect is outside the
\* database. Only fencing_token asks first whether the lease is still held.
BeginAttempt(w) ==
  /\ wk[w].pc = "claimed"
  /\ wk[w].chunks < ChunkCountLimit
  /\ IF Protection[wk[w].job] = "fencing_token" /\ ~Holds(w)
     THEN Leave(w)
     ELSE Goto(w, "handling")
  /\ UNCHANGED <<job, applied>>

CommitUnit(w) ==
  applied' = [applied EXCEPT ![wk[w].job] = Append(@, wk[w].cursor + 1)]

Transactional(w) == Protection[wk[w].job] # "outbound_fence"

\* The handler returned a chunk: its work and writeProgress commit together, or
\* the lease was lost and both roll back. Afterwards the loop goes on or, near
\* the lease's deadline, yields; or the COMMIT's answer never arrives.
ReturnsChunk(w, after) ==
  /\ wk[w].pc = "handling"
  /\ Transactional(w)
  /\ IF TokenCurrent(w)
     THEN LET j == wk[w].job IN
          /\ job' = [job EXCEPT ![j] = Progressed(job[j], wk[w].cursor + 1)]
          /\ wk' = [wk EXCEPT ![w] =
                       [wk[w] EXCEPT !.pc = after, !.cursor = wk[w].cursor + 1,
                                     !.chunks = job[j].chunks + 1]]
          /\ CommitUnit(w)
     ELSE Leave(w) /\ UNCHANGED <<job, applied>>

\* The handler finished: its work and completeJob commit together, or roll back.
ReturnsDone(w, after) ==
  /\ wk[w].pc = "handling"
  /\ Transactional(w)
  /\ IF Holds(w)
     THEN /\ job' = [job EXCEPT ![wk[w].job] = Unleased(job[wk[w].job], "done")]
          /\ IF after = "idle" THEN Leave(w) ELSE Goto(w, after)
          /\ CommitUnit(w)
     ELSE Leave(w) /\ UNCHANGED <<job, applied>>

\* The handler threw and its transaction is rolled back: a ModelBudgetRefusal
\* buries the job, anything else fails it. Both are later statements.
Throws(w, after) ==
  /\ wk[w].pc = "handling"
  /\ Goto(w, after)
  /\ UNCHANGED <<job, applied>>

\* An outbound_fence handler returned: `done` is completed next, a chunk buries.
ReturnsOutside(w, after) ==
  /\ wk[w].pc = "handling"
  /\ ~Transactional(w)
  /\ Goto(w, after)
  /\ UNCHANGED <<job, applied>>

CompleteJob(w) ==
  /\ wk[w].pc = "returned"
  /\ Fenced(w, Unleased(job[wk[w].job], "done"))
  /\ Leave(w)
  /\ UNCHANGED applied

FailJob(w) ==
  /\ wk[w].pc = "failing"
  /\ Fenced(w, AfterFailure(job[wk[w].job], wk[w].attempt))
  /\ Leave(w)
  /\ UNCHANGED applied

KillJob(w) ==
  /\ wk[w].pc = "burying"
  /\ Fenced(w, Unleased(job[wk[w].job], "dead"))
  /\ Leave(w)
  /\ UNCHANGED applied

RequeueForNextChunk(w) ==
  /\ wk[w].pc = "yielding"
  /\ Fenced(w, Yielded(job[wk[w].job]))
  /\ Leave(w)
  /\ UNCHANGED applied

\* The process dies; an open transaction rolls back and its locks go.
Crash(w) ==
  /\ wk[w].pc # "idle"
  /\ Leave(w)
  /\ UNCHANGED <<job, applied>>

Step(w) ==
  \/ RefuseAttempt(w) \/ BeginAttempt(w)
  \/ \E after \in {"claimed", "yielding", "failing"} : ReturnsChunk(w, after)
  \/ \E after \in {"idle", "failing"} : ReturnsDone(w, after)
  \/ \E after \in {"failing", "burying"} : Throws(w, after)
  \/ \E after \in {"returned", "burying"} : ReturnsOutside(w, after)
  \/ CompleteJob(w) \/ FailJob(w) \/ KillJob(w) \/ RequeueForNextChunk(w)

Next ==
  \/ \E S \in SUBSET Jobs, dueNow \in BOOLEAN : SchedulerPass(S, dueNow)
  \/ \E j \in Jobs : \/ BecomeDue(j) \/ LeaseExpires(j)
                     \/ Reclaim(j) \/ Archive(j) \/ RequeueDead(j)
                     \/ \E w \in Workers : Claim(w, j)
  \/ \E w \in Workers : Step(w) \/ Crash(w)

Spec == Init /\ [][Next]_vars

\* What the scheduling of the code justifies: time passes, a slot that holds a
\* job goes on with it, every pass of a slot reclaims expired leases first, and
\* claims go by run_at, so a job that stays claimable is claimed in the end.
Fairness ==
  /\ \A w \in Workers : WF_vars(Step(w))
  /\ \A j \in Jobs : /\ WF_vars(BecomeDue(j))
                     /\ WF_vars(LeaseExpires(j))
                     /\ WF_vars(Reclaim(j))
                     /\ SF_vars(\E w \in Workers : Claim(w, j))

FairSpec == Spec /\ Fairness

-----------------------------------------------------------------------------
(* Properties.                                                             *)

\* Every row and every claim has its type; in particular attempt_count never
\* passes max_attempts, which jobs_attempts_sane would refuse at run time.
TypeOK ==
  /\ job \in [Jobs -> Rows]
  /\ wk \in [Workers -> Claims]
  /\ applied \in [Jobs -> Seq(Nat)]

\* The slot works on the row's current claim.
Current(w, j) ==
  /\ wk[w].pc # "idle"
  /\ wk[w].job = j
  /\ job[j].state = "running"
  /\ job[j].token = wk[w].token

\* However often a lease is lost and two runners work the same chunked job at
\* once, the committed units are 1, 2, 3, ... with none repeated or skipped, and
\* payload.progress says exactly how far they got (writeProgress and completeJob
\* commit with the handler's work; a requeue keeps the cursor).
UnitsCommittedOnce ==
  \A j \in Jobs :
    /\ \A i \in 1..Len(applied[j]) : applied[j][i] = i
    /\ ~job[j].archived =>
         Len(applied[j]) = job[j].cursor +
           (IF job[j].state = "done" /\ Protection[j] # "outbound_fence" THEN 1 ELSE 0)

\* At most one runner holds a claim the fenced statements of jobStore.ts accept,
\* although any number may believe they do.
OneLiveClaim ==
  \A j \in Jobs : \A v, w \in Workers :
    Current(v, j) /\ Current(w, j) => v = w

\* A fencing_token handler only ever runs while its own lease is in force: the
\* row lock of holdsLease keeps the reaper of every other slot away from it.
FencedHandlerOwnsLease ==
  \A w \in Workers :
    wk[w].pc = "handling" /\ Protection[wk[w].job] = "fencing_token" => Holds(w)

\* No row waits in the queue that claimJobs would never pick up: failJob and
\* reclaimExpiredLeases send a row with no attempts left to `dead`, where an
\* operator sees it, and never to `retryable`.
NoStrandedJob ==
  \A j \in Jobs : job[j].state \in Runnable => job[j].attempt < MaxAttempts

\* A claim ends by a statement of the runner that holds it, or after its lease
\* expired: a paused runner that wakes up ends nobody else's claim.
OnlyHolderEndsClaim ==
  [][\A j \in Jobs :
       job[j].state = "running" /\ job'[j].state # "running" =>
         \/ job[j].expired
         \/ \E w \in Workers : Current(w, j) /\ wk'[w] # wk[w]]_vars

StatusOf(row) ==
  IF row.state \in {"absent", "dead", "done"} THEN row.state ELSE "open"

Ledger == INSTANCE JobLedger WITH
  status <- [j \in Jobs |-> StatusOf(job[j])],
  committed <- applied

\* The queue and its runners implement the ledger of units.
RefinesLedger == Ledger!Spec

-----------------------------------------------------------------------------
(* Why the safety properties hold: the inductive invariant.                *)

\* A claim was handed out by its row, and the row's token only grew since.
ClaimsComeFromRows ==
  \A w \in Workers : wk[w].pc # "idle" =>
    /\ wk[w].job \in Jobs
    /\ job[wk[w].job].state # "absent"
    /\ wk[w].token <= job[wk[w].job].token

\* No two claims of one job carry one token.
TokensDiffer ==
  \A v, w \in Workers :
    v # w /\ wk[v].pc # "idle" /\ wk[w].pc # "idle" /\ wk[v].job = wk[w].job =>
      wk[v].token # wk[w].token

\* What the holder of the current claim remembers is what the row says.
HolderAgrees ==
  \A w \in Workers : wk[w].pc # "idle" /\ TokenCurrent(w) =>
    /\ job[wk[w].job].owner = OwnerOf[w]
    /\ job[wk[w].job].cursor = wk[w].cursor
    /\ job[wk[w].job].attempt = wk[w].attempt

\* A row nobody inserted yet has no history.
AbsentIsFresh == \A j \in Jobs : job[j].state = "absent" => job[j] = AbsentRow

ArchivedIsDone == \A j \in Jobs : job[j].archived => job[j].state = "done"

\* Only a handler whose effect is outside the database completes afterwards.
ReturnedIsOutside ==
  \A w \in Workers : wk[w].pc = "returned" => ~Transactional(w)

IInv ==
  /\ TypeOK
  /\ ClaimsComeFromRows
  /\ TokensDiffer
  /\ HolderAgrees
  /\ AbsentIsFresh
  /\ ArchivedIsDone
  /\ ReturnedIsOutside
  /\ NoStrandedJob
  /\ FencedHandlerOwnsLease
  /\ UnitsCommittedOnce

-----------------------------------------------------------------------------
\* Every job that was materialized is completed or buried in the end, whatever
\* crashes, lost leases, failures and endless chunking its attempts meet.
EveryJobSettles ==
  \A j \in Jobs : (job[j].state \notin {"absent"}) ~> (job[j].state \in {"done", "dead"})
=============================================================================
