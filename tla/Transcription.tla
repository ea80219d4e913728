---------------------------- MODULE Transcription ----------------------------
(***************************************************************************)
(* The paid transcription of one recorded call                             *)
(* (packages/domain/calls/transcription.ts), the `call.transcribe` jobs    *)
(* that drive it (apps/worker/src/handlers/callTranscribe.ts), and the     *)
(* reservation rows its money is recorded in (research/reservations.ts).   *)
(*                                                                         *)
(* A chunk of a job is one transaction under the session's advisory lock.  *)
(* It is one action, except the chunk that asks the provider: the lock is  *)
(* held across its reads and its request, and its writes appear with the   *)
(* commit. Every chunk commits only while its claim holds the job.         *)
(* A claim that gives its turn back near the end of its lease             *)
(* (requeueForNextChunk) is to the call a lost lease, and is left out.     *)
(***************************************************************************)
EXTENDS Naturals, Sequences, FiniteSets

CONSTANTS
  Workers,     \* runner slots that claim call.transcribe
  Serves,      \* the deployments a slot's process may have
  Providers,
  Async,       \* the providers whose request starts a job (TranscriptionProvider.jobs)
  MaxClaims,   \* CALL_TRANSCRIBE_JOB_MAX_ATTEMPTS
  MaxPaid,     \* TRANSCRIPTION_MAX_ATTEMPTS
  MaxRows,     \* TRANSCRIPTION_MAX_ROWS
  MaxJobs,     \* bound: jobs of the call, looks and resumptions included
  MaxChanges,  \* bound: changes of the setting
  None         \* no provider: a collect-only process

\* readTranscriptionComposition: `collects` where the call-audio bucket is configured.
Deployments == [provider : Providers \cup {None}, collects : BOOLEAN]

ASSUME ConstantsAssumption ==
  /\ Serves \in [Workers -> SUBSET Deployments]
  /\ \A w \in Workers : \A d \in Serves[w] : d.provider \in Async \cup {None} => d.collects
  /\ Async \subseteq Providers
  /\ None \notin Providers
  /\ {MaxClaims, MaxPaid, MaxRows, MaxJobs} \subseteq Nat \ {0}
  /\ MaxChanges \in Nat

Attempts == 1..MaxRows
Jobs == 1..MaxJobs

VARIABLES
  row,         \* provider_reservations of the call, with their transcription_provider_jobs
  job,         \* the call's rows of the jobs table
  at,          \* what each slot holds in memory
  session,     \* the call session exists
  transcript,  \* call_transcripts has the call's row
  setting,     \* call_transcription: on, and changed after every finished job
  standing,    \* at the provider: what became of an attempt's request
  asked,       \* history: the providers an attempt's paid requests went to
  count        \* history: changes of the setting, resumptions

vars == <<row, job, at, session, transcript, setting, standing, asked, count>>

\* `waived`: settled at 0 cents. `remote` is the state of the provider job's row. Ages are
\* not kept: a row may be past the sweep's half hour, a job due a look or past its
\* deadline, at any time.
RowStates == {"absent", "reserved", "calling", "settled", "waived", "estimated", "released"}
RemoteStates == {"none", "submitting", "started", "collected", "estimated", "failed"}
Rows == [state : RowStates, provider : Providers \cup {None}, remote : RemoteStates]

\* `begun`: payload.progress holds a cursor, kept while the job may still run.
\* `older`: its claim is in a chunk whose transaction, and so the updated_at it writes, began
\* before the setting was last saved as on.
JobRows == [state : {"absent", "queued", "running", "dead", "done"},
            token : 0..MaxClaims, begun : BOOLEAN, older : BOOLEAN]

\* `step` is what the claim knows of the cursor: none, another claim's, or its own.
Steps == {"fresh", "foreign", "reserved", "calling", "submit", "retry"}

\*   top                  between two chunks
\*   fetching, requesting in the chunk that asks: before the final settings read; after
\*   answered             the provider's answer is in hand, the commit is next
Places == [pc : {"idle", "top", "fetching", "requesting", "answered"},
           job : Jobs \cup {0}, token : 0..MaxClaims,
           serves : Providers \cup {None}, collects : BOOLEAN, step : Steps, attempt : Attempts \cup {0},
           answer : {"none", "ok", "refused", "unknown"}]

Idle == [pc |-> "idle", job |-> 0, token |-> 0, serves |-> None, collects |-> FALSE,
         step |-> "fresh", attempt |-> 0, answer |-> "none"]

AbsentRow == [state |-> "absent", provider |-> None, remote |-> "none"]

Init ==
  /\ row = [a \in Attempts |-> AbsentRow]
  /\ job = [k \in Jobs |-> [state |-> "absent", token |-> 0, begun |-> FALSE, older |-> FALSE]]
  /\ at = [w \in Workers |-> Idle]
  /\ session = TRUE
  /\ transcript = FALSE
  /\ setting = [on |-> TRUE, fresh |-> FALSE]
  /\ standing = [a \in Attempts |-> "none"]
  /\ asked = [a \in Attempts |-> <<>>]
  /\ count = [changes |-> 0, resumed |-> 0]

-----------------------------------------------------------------------------
(* Reads.                                                                  *)

\* pg_advisory_xact_lock of the session is held by a slot in the chunk that asks.
Asking(w) == at[w].pc \in {"fetching", "requesting", "answered"}

LockFree == \A w \in Workers : ~Asking(w)

\* The fence of completeJob and writeProgress.
Current(w) == job[at[w].job].state = "running" /\ job[at[w].job].token = at[w].token

Existing == {a \in Attempts : row[a].state # "absent"}

Open(a) == row[a].state \in {"reserved", "calling"}

\* reservationsBeingCollected.
BeingCollected == {a \in Attempts : row[a].remote \in {"submitting", "started"}}

\* providerJobFailed.
ProviderJobFailed == \E a \in Attempts : row[a].remote = "failed"

\* A plausible slip: only what the provider reported counts as paid.
PaidReported(S) == {a \in S : row[a].state = "settled"}

\* paidAttempts: every row but a released one.
Paid(S) == {a \in S : row[a].state # "released"}

\* S: the rows paidAttempts is asked of.
UnderCaps(S) == Cardinality(Paid(S)) < MaxPaid /\ Cardinality(Existing) < MaxRows

-----------------------------------------------------------------------------
(* Writes.                                                                 *)

\* A plausible slip: the sweep releases whatever is open.
ClosedAsReleased(r) ==
  IF r.state \in {"reserved", "calling"} THEN [r EXCEPT !.state = "released"] ELSE r

\* finaliseOpenAttempts, for one row.
Closed(r) ==
  CASE r.state = "reserved" -> [r EXCEPT !.state = "released"]
    [] r.state = "calling" -> [r EXCEPT !.state = "estimated"]
    [] OTHER -> r

FinaliseOpen(S) == row' = [a \in Attempts |-> IF a \in S THEN Closed(row[a]) ELSE row[a]]

\* settleAttempt: the WHERE leaves a closed row alone.
Settled(r, state) == IF r.state \in {"reserved", "calling"}
                     THEN [r EXCEPT !.state = state] ELSE r

\* markProviderJob.
Marked(r, state) == [r EXCEPT !.remote = state]

\* The attempt released by the claim that marked it; its job, if prepared, is over.
NotCalled(r) == IF r.remote = "none" THEN Settled(r, "released")
                ELSE Marked(Settled(r, "released"), "estimated")

\* giveUpProviderJob.
GivenUp(r) == Marked(IF r.state = "calling" THEN Settled(r, "estimated") ELSE r, "failed")

NewRow(state, provider) == [AbsentRow EXCEPT !.state = state, !.provider = provider]

\* The chunk commits and the job goes on, under its own cursor.
Continue(w, step, a) ==
  /\ at' = [at EXCEPT ![w].pc = "top", ![w].step = step, ![w].attempt = a, ![w].answer = "none"]
  /\ job' = [job EXCEPT ![at[w].job].begun = TRUE, ![at[w].job].older = FALSE]
  /\ UNCHANGED setting

\* The chunk commits with the job's completion: jobs.updated_at is the start of the chunk.
Finish(w) ==
  /\ at' = [at EXCEPT ![w] = Idle]
  /\ job' = [job EXCEPT ![at[w].job].state = "done", ![at[w].job].begun = FALSE,
                         ![at[w].job].older = FALSE]
  /\ setting' = [setting EXCEPT !.fresh = @ /\ job[at[w].job].older]

-----------------------------------------------------------------------------
(* The jobs.                                                               *)

\* enqueueCallTranscription, in the final recording callback; a repeat adds nothing.
EnqueueCallTranscription ==
  /\ job[1].state = "absent"
  /\ session /\ setting.on
  /\ job' = [job EXCEPT ![1].state = "queued"]
  /\ UNCHANGED <<row, at, session, transcript, setting, standing, asked, count>>

Claim(w, k, d) ==
  /\ at[w].pc = "idle"
  /\ job[k].state = "queued"
  /\ d \in Serves[w]
  /\ job' = [job EXCEPT ![k].state = "running", ![k].token = @ + 1]
  /\ at' = [at EXCEPT ![w] = [Idle EXCEPT !.pc = "top", !.job = k, !.token = job[k].token + 1,
                                !.serves = d.provider, !.collects = d.collects,
                                !.step = IF job[k].begun THEN "foreign" ELSE "fresh"]]
  /\ UNCHANGED <<row, session, transcript, setting, standing, asked, count>>

\* A plausible slip: the job's attempts are not counted.
AfterLeaseEndless(k) == "queued"

AfterLease(k) == IF job[k].token < MaxClaims THEN "queued" ELSE "dead"

\* The lease expires and is reclaimed, or the handler throws. The slot may be dead, or only
\* slow; between two chunks that is the same, for it can commit nothing more. In the chunk
\* that asks it goes on, under a claim that is over.
LeaseLost(k) ==
  /\ job[k].state = "running"
  /\ job' = [job EXCEPT ![k].state = AfterLease(k), ![k].older = FALSE]
  /\ at' = [w \in Workers |-> IF at[w].pc = "top" /\ at[w].job = k THEN Idle ELSE at[w]]
  /\ UNCHANGED <<row, session, transcript, setting, standing, asked, count>>

\* The chunk that asks rolls back: the process dies, its connection is lost, or its claim
\* turns out to be over.
Abandon(w) ==
  /\ Asking(w)
  /\ at' = [at EXCEPT ![w] = Idle]
  /\ UNCHANGED <<row, job, session, transcript, setting, standing, asked, count>>

Starts(w) == at[w].serves # None

OwnCursor(w) == at[w].step \notin {"fresh", "foreign"}

\* The handler's condition for collecting first.
LooksFirst(w) == (~OwnCursor(w) \/ ~Starts(w)) /\ at[w].collects

\* A chunk's transaction begins and, if its claim still holds, commits.
Chunk(w) == at[w].pc = "top" /\ LockFree /\ Current(w)

-----------------------------------------------------------------------------
(* collectCallTranscription: one look at the recorded provider job.        *)

\* What GetTranscriptionJob and the output object may answer.
Seen(a) ==
  {"unknown"} \cup
  CASE standing[a] \in {"none", "flying"} -> {"not_found"}
    [] standing[a] = "running" -> {"running"}
    [] standing[a] = "failed" -> {"failed"}
    [] standing[a] = "completed" -> {"completed", "unreadable"}

\* The highest attempt with a job still open.
LookedAt(w, a) ==
  /\ Chunk(w)
  /\ LooksFirst(w)
  /\ a \in BeingCollected
  /\ \A b \in BeingCollected : b <= a

\* running or unknown: another claim looks later, unless the deadline is over.
LookPending(w, a, expired) ==
  /\ LookedAt(w, a)
  /\ Seen(a) \cap {"running", "unknown"} # {}
  /\ row' = IF expired THEN [row EXCEPT ![a] = GivenUp(@)] ELSE row
  /\ Finish(w)
  /\ UNCHANGED <<session, transcript, standing, asked, count>>

\* not_found or unreadable: estimated, and one retry within the caps.
LookAmbiguous(w, a) ==
  /\ LookedAt(w, a)
  /\ Seen(a) \cap {"not_found", "unreadable"} # {}
  /\ row' = [row EXCEPT ![a] = Marked(Settled(@, "estimated"), "estimated")]
  /\ IF UnderCaps(Existing) THEN Continue(w, "retry", 1) ELSE Finish(w)
  /\ UNCHANGED <<session, transcript, standing, asked, count>>

LookFailed(w, a) ==
  /\ LookedAt(w, a)
  /\ "failed" \in Seen(a)
  /\ row' = [row EXCEPT ![a] = Marked(Settled(@, "waived"), "failed")]
  /\ Finish(w)
  /\ UNCHANGED <<session, transcript, standing, asked, count>>

\* storeAndSettle, or an estimate if the call has a transcript by now.
LookCompleted(w, a) ==
  /\ LookedAt(w, a)
  /\ "completed" \in Seen(a)
  /\ row' = [row EXCEPT ![a] =
       Marked(Settled(@, IF transcript THEN "estimated" ELSE "settled"), "collected")]
  /\ transcript' = TRUE
  /\ Finish(w)
  /\ UNCHANGED <<session, standing, asked, count>>

\* A collect-only process finds nothing to collect.
NothingToStart(w) ==
  /\ Chunk(w)
  /\ ~Starts(w)
  /\ BeingCollected = {}
  /\ Finish(w)
  /\ UNCHANGED <<row, session, transcript, standing, asked, count>>

-----------------------------------------------------------------------------
(* beginCallTranscription and ensureTranscriptionCalling.                  *)

Buying(w) == Chunk(w) /\ Starts(w) /\ (LooksFirst(w) => BeingCollected = {})

\* clearAttempt: `fits` is the daily and the monthly ceiling, under the budget lock.
ClearAttempt(fits) == setting.on /\ session /\ fits

\* Chunk 1. Attempts of a lost cursor are left to chunk 2.
BeginCallTranscription(w, fits) ==
  /\ Buying(w)
  /\ at[w].step = "fresh"
  /\ IF transcript \/ (Existing = {} /\ ~ClearAttempt(fits))
     THEN Finish(w) /\ UNCHANGED row
     ELSE /\ Continue(w, "reserved", 1)
          /\ row' = IF Existing = {}
                    THEN [row EXCEPT ![1] = NewRow("reserved", at[w].serves)] ELSE row
  /\ UNCHANGED <<session, transcript, standing, asked, count>>

\* Chunk 2's early returns.
Ensuring(w) == Buying(w) /\ at[w].step \in {"foreign", "reserved", "retry"}

Closing == ~session \/ transcript \/ ProviderJobFailed \/ ~setting.on

LeaveToCollect(w) ==
  /\ Ensuring(w)
  /\ session /\ ~transcript
  /\ BeingCollected # {}
  /\ Finish(w)
  /\ UNCHANGED <<row, session, transcript, standing, asked, count>>

CloseAttempts(w) ==
  /\ Ensuring(w)
  /\ Closing
  /\ (session /\ ~transcript) => BeingCollected = {}
  /\ FinaliseOpen(Attempts)
  /\ Finish(w)
  /\ UNCHANGED <<session, transcript, standing, asked, count>>

\* Reserved for another provider: nothing was sent, and this one never calls it.
Mismatched(w) == {a \in Existing : row[a].state = "reserved" /\ row[a].provider # at[w].serves}

ReservedHere(w) == {a \in Existing : row[a].state = "reserved" /\ row[a].provider = at[w].serves}

\* markCalling.
MarkCalling(w, a) ==
  /\ Ensuring(w)
  /\ ~Closing /\ BeingCollected = {}
  /\ a \in ReservedHere(w)
  /\ row' = [b \in Attempts |->
               IF b = a THEN [row[b] EXCEPT !.state = "calling"]
               ELSE IF b \in Mismatched(w) THEN Closed(row[b]) ELSE row[b]]
  /\ Continue(w, "calling", a)
  /\ UNCHANGED <<session, transcript, standing, asked, count>>

\* A plausible slip: a `calling` row of another claim is taken for this one's.
ResolvedNot(w) == Mismatched(w)

\* What chunk 2 closes before it buys: the rows another claim left.
Resolved(w) == Mismatched(w) \cup {a \in Existing : row[a].state = "calling"}

\* No reservation to call: another claim's `calling` is estimated, and the next attempt
\* is reserved and marked, within the caps and the ceilings.
BuyAttempt(w, fits) ==
  LET next == Cardinality(Existing) + 1 IN
  /\ Ensuring(w)
  /\ ~Closing /\ BeingCollected = {}
  /\ ReservedHere(w) = {}
  /\ IF UnderCaps(Existing \ Mismatched(w)) /\ ClearAttempt(fits)
     THEN /\ row' = [a \in Attempts |->
                       IF a = next THEN NewRow("calling", at[w].serves)
                       ELSE IF a \in Resolved(w) THEN Closed(row[a]) ELSE row[a]]
          /\ Continue(w, "calling", next)
     ELSE FinaliseOpen(Resolved(w)) /\ Finish(w)
  /\ UNCHANGED <<session, transcript, standing, asked, count>>

-----------------------------------------------------------------------------
(* finishCallTranscription.                                                *)

IsAsync(w) == at[w].serves \in Async

Finishing(w) == Chunk(w) /\ Starts(w) /\ at[w].step \in {"calling", "submit"}

\* Still this claim's to call: `calling`, its job not beyond `submitting`.
Callable(w) == /\ row[at[w].attempt].state = "calling"
               /\ IsAsync(w) => row[at[w].attempt].remote \in {"none", "submitting"}

NotCalling(w) ==
  /\ Finishing(w)
  /\ ~Callable(w)
  /\ Finish(w)
  /\ UNCHANGED <<row, session, transcript, standing, asked, count>>

\* stillAuthorized, and what else is asked before anything is sent.
Authorized == setting.on /\ session /\ ~transcript

Withhold(w) ==
  /\ row' = [row EXCEPT ![at[w].attempt] = NotCalled(@)]
  /\ Finish(w)
  /\ UNCHANGED <<session, transcript, standing, asked, count>>

Refrain(w) == Finishing(w) /\ Callable(w) /\ ~Authorized /\ Withhold(w)

\* The asynchronous provider's first chunk: the job's names, before anything is sent.
Prepare(w) ==
  /\ Finishing(w)
  /\ Callable(w) /\ Authorized
  /\ IsAsync(w) /\ row[at[w].attempt].remote = "none"
  /\ row' = [row EXCEPT ![at[w].attempt].remote = "submitting"]
  /\ Continue(w, "submit", at[w].attempt)
  /\ UNCHANGED <<session, transcript, standing, asked, count>>

\* The chunk that asks: its transaction and the session's lock are held from here.
OpenSend(w) ==
  /\ Finishing(w)
  /\ Callable(w) /\ Authorized
  /\ IsAsync(w) => row[at[w].attempt].remote = "submitting"
  /\ at' = [at EXCEPT ![w].pc = "fetching"]
  /\ UNCHANGED <<row, job, session, transcript, setting, standing, asked, count>>

\* The recording cannot be read, or the final settings read says off.
RefrainLate(w) ==
  /\ at[w].pc = "fetching"
  /\ Current(w)
  /\ Withhold(w)

\* The upload failed: the adapter answers `refused` and asks nothing.
UploadFails(w) ==
  /\ at[w].pc = "fetching"
  /\ at' = [at EXCEPT ![w].pc = "answered", ![w].answer = "refused"]
  /\ UNCHANGED <<row, job, session, transcript, setting, standing, asked, count>>

FinalCheck(w) ==
  /\ at[w].pc = "fetching"
  /\ setting.on
  /\ at' = [at EXCEPT ![w].pc = "requesting"]
  /\ UNCHANGED <<row, job, session, transcript, setting, standing, asked, count>>

Accepted(a) == IF row[a].provider \in Async THEN "running" ELSE "completed"

\* The one paid request. It is refused, accepted, or on its way when the client stops
\* waiting; an acceptance may be answered by a timeout as well.
AskProvider(w, answer) ==
  LET a == at[w].attempt IN
  /\ at[w].pc = "requesting"
  /\ at' = [at EXCEPT ![w].pc = "answered", ![w].answer = answer]
  /\ asked' = [asked EXCEPT ![a] = Append(@, at[w].serves)]
  /\ standing' = CASE answer = "refused" -> standing
                   [] answer = "ok" -> [standing EXCEPT ![a] = Accepted(a)]
                   [] answer = "unknown" -> [standing EXCEPT ![a] = "flying"]
  /\ UNCHANGED <<row, job, session, transcript, setting, count>>

\* The chunk's commit.
Recording(w) == at[w].pc = "answered" /\ Current(w)

RecordRefused(w) ==
  /\ Recording(w)
  /\ at[w].answer = "refused"
  /\ row' = [row EXCEPT ![at[w].attempt] =
       IF IsAsync(w) THEN Marked(Settled(@, "waived"), "failed") ELSE Settled(@, "waived")]
  /\ Finish(w)
  /\ UNCHANGED <<session, transcript, standing, asked, count>>

\* Started, or perhaps: the job's own status will say.
RecordStarted(w) ==
  /\ Recording(w)
  /\ IsAsync(w) /\ at[w].answer # "refused"
  /\ row' = [row EXCEPT ![at[w].attempt] = Marked(@, "started")]
  /\ Finish(w)
  /\ UNCHANGED <<session, transcript, standing, asked, count>>

RecordTranscript(w) ==
  /\ Recording(w)
  /\ ~IsAsync(w) /\ at[w].answer = "ok"
  /\ row' = [row EXCEPT ![at[w].attempt] = Settled(@, "settled")]
  /\ transcript' = TRUE
  /\ Finish(w)
  /\ UNCHANGED <<session, standing, asked, count>>

\* Estimated first, then the bounded retry.
RecordAmbiguous(w) ==
  /\ Recording(w)
  /\ ~IsAsync(w) /\ at[w].answer = "unknown"
  /\ row' = [row EXCEPT ![at[w].attempt] = Settled(@, "estimated")]
  /\ IF UnderCaps(Existing) THEN Continue(w, "retry", at[w].attempt) ELSE Finish(w)
  /\ UNCHANGED <<session, transcript, standing, asked, count>>

-----------------------------------------------------------------------------
(* The scheduler, the sweep, the deletion workflow, the admin.             *)

NextKey(k) == job[k].state = "absent" /\ \A i \in Jobs : i < k => job[i].state # "absent"

\* scheduleTranscriptionLooks: one job per look, under a key of its own. The row is due
\* again after each backoff, so a look may be emitted at any time.
ScheduleLook(a, k) ==
  /\ k > 1 /\ NextKey(k)
  /\ a \in BeingCollected
  /\ job' = [job EXCEPT ![k].state = "queued"]
  /\ UNCHANGED <<row, at, session, transcript, setting, standing, asked, count>>

\* A plausible slip: a job that was never started is not given up.
UnfinishedOnceStarted == {a \in Attempts : row[a].remote = "started"}

Unfinished == {a \in Attempts : row[a].remote \in {"submitting", "started"}}

\* giveUpExpiredProviderJobs, for a job past its deadline; its locks are only tried.
GiveUpExpired(a) ==
  /\ LockFree
  /\ a \in Unfinished
  /\ row' = [row EXCEPT ![a] = GivenUp(@)]
  /\ UNCHANGED <<job, at, session, transcript, setting, standing, asked, count>>

\* What sweepTranscriptionReservations closes, read under the lock it tried.
Sweepable == {a \in Attempts : Open(a)} \ BeingCollected

\* The attempts in S are half an hour old.
SweepTranscriptionReservations(S) ==
  /\ LockFree
  /\ S # {}
  /\ FinaliseOpen(S)
  /\ UNCHANGED <<job, at, session, transcript, setting, standing, asked, count>>

\* The setting is on and was written after the updated_at of every job that finished.
Owed == setting.on /\ setting.fresh

\* listHeldTranscriptions, and the job it owes under the next revision key.
ResumeHeld(k) ==
  /\ k > 1 /\ NextKey(k)
  /\ Owed /\ session /\ ~transcript
  /\ \A i \in Jobs : job[i].state \in {"absent", "done"}
  /\ BeingCollected = {} /\ ~ProviderJobFailed
  /\ \A a \in Attempts : ~Open(a)
  /\ Cardinality(Paid(Existing)) < MaxPaid
  /\ job' = [job EXCEPT ![k].state = "queued"]
  /\ count' = [count EXCEPT !.resumed = @ + 1]
  /\ UNCHANGED <<row, at, session, transcript, setting, standing, asked>>

\* lockSessionsForDeletion waits for a claim that is calling; then the call's open
\* attempts are finalised, its jobs closed, its transcript and itself removed.
DeleteSession ==
  /\ session
  /\ LockFree
  /\ session' = FALSE
  /\ transcript' = FALSE
  /\ row' = [a \in Attempts |->
               IF a \in BeingCollected THEN Marked(Closed(row[a]), "estimated") ELSE Closed(row[a])]
  /\ UNCHANGED <<job, at, setting, standing, asked, count>>

\* The jobs whose claim has a slot, and those of them known to be in a chunk's transaction.
HeldJobs == {at[w].job : w \in {v \in Workers : at[v].pc # "idle" /\ Current(v)}}
AskingJobs == {at[w].job : w \in {v \in Workers : Asking(v) /\ Current(v)}}

\* An admin saves the setting. It is later than the jobs that finished before it, and than
\* the start of the chunks in `begun`, which ask or have only begun; any
\* chunk that begins after it and finishes its job makes it earlier again.
ChangeSetting(on, begun) ==
  /\ count.changes < MaxChanges
  /\ AskingJobs \subseteq begun
  /\ setting' = [on |-> on, fresh |-> on]
  /\ job' = [k \in Jobs |-> [job[k] EXCEPT !.older = on /\ k \in begun]]
  /\ count' = [count EXCEPT !.changes = @ + 1]
  /\ UNCHANGED <<row, at, session, transcript, standing, asked>>

-----------------------------------------------------------------------------
(* The provider.                                                           *)

\* A request on its way reaches the provider after all.
Land(a) ==
  /\ standing[a] = "flying"
  /\ standing' = [standing EXCEPT ![a] = Accepted(a)]
  /\ UNCHANGED <<row, job, at, session, transcript, setting, asked, count>>

ProviderEnds(a, outcome) ==
  /\ standing[a] = "running"
  /\ standing' = [standing EXCEPT ![a] = outcome]
  /\ UNCHANGED <<row, job, at, session, transcript, setting, asked, count>>

-----------------------------------------------------------------------------
Look(w) ==
  \E a \in Attempts : \/ \E expired \in BOOLEAN : LookPending(w, a, expired)
                      \/ LookAmbiguous(w, a) \/ LookFailed(w, a)
                      \/ LookCompleted(w, a)

Handle(w) ==
  \/ Look(w) \/ NothingToStart(w)
  \/ \E fits \in BOOLEAN : BeginCallTranscription(w, fits) \/ BuyAttempt(w, fits)
  \/ LeaveToCollect(w) \/ CloseAttempts(w)
  \/ \E a \in Attempts : MarkCalling(w, a)
  \/ NotCalling(w) \/ Refrain(w) \/ Prepare(w) \/ OpenSend(w)

Send(w) ==
  \/ RefrainLate(w) \/ UploadFails(w) \/ FinalCheck(w)
  \/ \E answer \in {"ok", "refused", "unknown"} : AskProvider(w, answer)
  \/ RecordRefused(w) \/ RecordStarted(w) \/ RecordTranscript(w) \/ RecordAmbiguous(w)

Scheduler ==
  \/ \E k \in Jobs : ResumeHeld(k) \/ \E a \in Attempts : ScheduleLook(a, k)
  \/ \E a \in Attempts : GiveUpExpired(a)
  \/ \E S \in SUBSET Sweepable : SweepTranscriptionReservations(S)

Environment ==
  \/ EnqueueCallTranscription \/ DeleteSession
  \/ \E k \in Jobs : LeaseLost(k)
  \/ \E on \in BOOLEAN : \E begun \in SUBSET HeldJobs : ChangeSetting(on, begun)
  \/ \E a \in Attempts : \/ Land(a)
                         \/ \E outcome \in {"completed", "failed"} : ProviderEnds(a, outcome)

Next ==
  \/ \E w \in Workers : \/ \E k \in Jobs : \E d \in Serves[w] : Claim(w, k, d)
                        \/ Handle(w) \/ Send(w) \/ Abandon(w)
  \/ Scheduler \/ Environment

Spec == Init /\ [][Next]_vars

\* What the scheduling justifies: rows grow old, and the scheduler pass gives up or sweeps
\* what it can again and again; the slot in the chunk that asks, of which the lock admits
\* one, goes on or dies, for each of its waits has a timeout. Nothing is assumed of jobs,
\* looks, the provider or the admin.
Fairness ==
  /\ SF_vars(\/ \E a \in Attempts : GiveUpExpired(a)
             \/ SweepTranscriptionReservations(Sweepable))
  /\ WF_vars(\E w \in Workers : Send(w) \/ Abandon(w))

FairSpec == Spec /\ Fairness

-----------------------------------------------------------------------------
(* Properties.                                                             *)

\* Every row, job and slot has its type; in particular no job loses more leases
\* than CALL_TRANSCRIBE_JOB_MAX_ATTEMPTS allows before it is dead.
TypeOK ==
  /\ row \in [Attempts -> Rows]
  /\ job \in [Jobs -> JobRows]
  /\ at \in [Workers -> Places]
  /\ {session, transcript} \subseteq BOOLEAN
  /\ setting \in [on : BOOLEAN, fresh : BOOLEAN]
  /\ standing \in [Attempts -> {"none", "flying", "running", "completed", "failed"}]
  /\ asked \in [Attempts -> Seq(Providers)]
  /\ count \in [changes : 0..MaxChanges, resumed : Nat]

\* A request that left, and that the provider accepted or may still accept, is on the
\* books: its attempt is never released and never settled at nothing, whoever closes it
\* (settleAttempt: `calling` is released by nobody but the claim that declined to call).
BilledIsCharged ==
  \A a \in Attempts :
    standing[a] \in {"flying", "running", "completed"} =>
      row[a].state \in {"calling", "settled", "estimated"}

\* The provider is asked at most once for an attempt, only the one it was priced for, and
\* for at most TRANSCRIPTION_MAX_ATTEMPTS attempts of a call, whatever crashed in between,
\* however many jobs of the call ran and whichever deployment claimed them. A held call
\* is resumed at most once for each change of the setting, although every pass of the
\* scheduler asks (listHeldTranscriptions).
PaidAtMostTwice ==
  /\ \A a \in Attempts : asked[a] # <<>> => asked[a] = <<row[a].provider>>
  /\ Cardinality({a \in Attempts : asked[a] # <<>>}) <= MaxPaid
  /\ count.resumed <= count.changes

\* At most one attempt of a call is open, and none once the call has its transcript or a
\* provider job of it FAILED or was given up, after which nobody reserves or asks again
\* ("A terminal outcome is terminal", ensureTranscriptionCalling); and a provider job
\* still to be collected owns an attempt still `calling`, which neither the sweep nor
\* another claim may close (finaliseOpenAttempts).
OneOpenAttempt ==
  /\ Cardinality({a \in Attempts : Open(a)}) <= 1
  /\ transcript \/ (\E a \in Attempts : row[a].remote = "failed") =>
       \A a \in Attempts : ~Open(a)
  /\ \A a \in BeingCollected : row[a].state = "calling"

\* Every attempt that was reserved is closed in the end: no cents stay authorized for a
\* claim that died, a look that never ran or a provider that never answers.
EveryAttemptCloses == []<>(\A a \in Attempts : ~Open(a))

=============================================================================
