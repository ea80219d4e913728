------------------------------ MODULE MailSync ------------------------------
(***************************************************************************)
(* The mail lane of one mailbox: the grant that connects it (mail/         *)
(* oauth.ts), mail.sync (sync.ts), mail.recover (recover.ts), the row they *)
(* share and its fences (mailboxes.ts), and the sources that queue the two *)
(* jobs (coalesce.ts, scheduler/mailSources.ts).                           *)
(*                                                                         *)
(* Time is counted in messages: the one that arrives n-th has the history  *)
(* id n and the date n, and both clocks read now. A job is one READ        *)
(* COMMITTED transaction, seen by others when it commits: its reads of the *)
(* database and its calls to Gmail are actions of their own, its writes    *)
(* one action. Whatever ends a run early rolls it back.                    *)
(***************************************************************************)
EXTENDS Integers, Sequences, FiniteSets

CONSTANTS
  Accounts,      \* the Google accounts the owner may grant
  MaxMessages,   \* bound on the messages that arrive
  MaxGrants,     \* bound on the grants that complete
  MaxExpiries,   \* bound on the times Gmail forgets history
  MaxFaults,     \* bound on crashes, failed reads and refused tokens
  Overlap,       \* RECOVERY_OVERLAP_SECONDS, in messages
  BaselineSpan,  \* config.baselineDays, in messages
  None           \* SQL NULL

ASSUME ConstantsAssumption ==
  /\ {MaxMessages, MaxGrants, MaxExpiries, MaxFaults, Overlap, BaselineSpan} \subseteq Nat
  /\ None \notin Accounts \cup (0..MaxMessages)

VARIABLES
  arrivals,   \* the account each message arrived in
  floor,      \* the earliest history id Gmail still lists from
  addresses,  \* mailboxes.email_address at each generation
  mailbox,    \* the mailboxes row
  holds,      \* reasons of the open active_holds this mailbox opened
  recovery,   \* mailbox_recoveries, one row per generation
  recorded,   \* mail_messages: the generation a message's row was written under
  job,        \* state of the mail.sync and mail.recover rows, by generation
  run,        \* the transaction working on each of those rows
  grant,      \* completeGmailGrant, between Google's answers and its transaction
  used        \* what is spent of the bounds

vars == <<arrivals, floor, addresses, mailbox, holds, recovery, recorded, job, run,
          grant, used>>

Kinds == {"sync", "recover"}
Generations == 1..(MaxGrants + MaxExpiries)
Messages == 1..MaxMessages
Instants == 0..MaxMessages

Now == Len(arrivals)
Account == addresses[mailbox.generation]
Inbox(a) == {m \in 1..Now : arrivals[m] = a}

MailboxRows == [status : {"absent", "connected", "disconnected", "revoked"},
                syncState : {"baseline_pending", "recovering", "ready"},
                generation : {0} \cup Generations, historyId : {None} \cup Instants,
                watermark : {None} \cup Instants, baselineFrom : Instants]

\* row: the mailbox as the run read it first. account: whose token it got.
\* answer: the history id Gmail returned. found: the messages it may process.
\* binding: the generation readProviderBinding saw.
Idle == [pc |-> "idle", row |-> None, account |-> None, answer |-> None, found |-> {},
         binding |-> None]

RecoveryRows == [state : {"absent", "open", "completed"}, from : Instants, to : Instants]
JobStates == {"absent", "queued", "running", "done"}

Init ==
  /\ arrivals = <<>>
  /\ floor = 0
  /\ addresses = <<>>
  /\ mailbox = [status |-> "absent", syncState |-> "baseline_pending", generation |-> 0,
                historyId |-> None, watermark |-> None, baselineFrom |-> 0]
  /\ holds = {}
  /\ recovery = [g \in Generations |-> [state |-> "absent", from |-> 0, to |-> 0]]
  /\ recorded = [m \in Messages |-> 0]
  /\ job = [k \in Kinds |-> [g \in Generations |-> "absent"]]
  /\ run = [k \in Kinds |-> [g \in Generations |-> Idle]]
  /\ grant = None
  /\ used = [grants |-> 0, expiries |-> 0, faults |-> 0]

-----------------------------------------------------------------------------
Less(instant, span) == IF instant > span THEN instant - span ELSE 0

FirstOf(S, n) == {m \in S : Cardinality({other \in S : other <= m}) <= n}
Latest(S) == CHOOSE m \in S : \A other \in S : other <= m

\* A plausible slip: the watermark is trusted to the second.
ExpiredFromWatermark(row) == IF row.watermark = None THEN row.baselineFrom ELSE row.watermark

\* Where the interval of an expired cursor starts: coverageWatermarkAt ??
\* baselineFromAt, less the overlap.
ExpiredFrom(row) ==
  Less(IF row.watermark = None THEN row.baselineFrom ELSE row.watermark, Overlap)

\* startRecovery: the row for the generation, and the interval it is given.
StartedRecovery(g, from, to) ==
  [recovery EXCEPT ![g] = [state |-> "open",
                           from |-> IF from < to THEN from ELSE Less(to, Overlap),
                           to |-> to]]

\* A plausible slip: whatever its state, the row is put back on the queue.
CoalescedAlways(jobs, g) == [jobs EXCEPT !["sync"][g] = "queued"]

\* coalesceMailSync: a queued or running row is merged into, a finished one re-armed.
Coalesced(jobs, g) ==
  [jobs EXCEPT !["sync"][g] = IF @ \in {"absent", "done"} THEN "queued" ELSE @]

\* A plausible slip: the source inserts and never re-arms.
RearmedMissingOnly(jobs, g) ==
  [jobs EXCEPT !["recover"][g] = IF @ = "absent" THEN "queued" ELSE @]

\* mailRecoverySource: rearmRecoveryJob, else the insert of a missing row.
Rearmed(jobs, g) ==
  [jobs EXCEPT !["recover"][g] = IF @ \in {"absent", "done"} THEN "queued" ELSE @]

\* releaseMailboxHold of coverage_incomplete.
WithCoverageReleased(row) ==
  IF row.status = "connected" /\ row.syncState = "ready"
  THEN holds \ {"coverage_incomplete"} ELSE holds

Fault == used.faults < MaxFaults /\ used' = [used EXCEPT !.faults = @ + 1]

-----------------------------------------------------------------------------
(* Gmail                                                                   *)

\* A run lasts far less than the hour of the overlap, so no more than Overlap messages
\* arrive between what Gmail answered it and its commit.
Arrive(a) ==
  /\ Now < MaxMessages
  /\ \A k \in Kinds, g \in Generations : run[k][g].answer # None => Now < run[k][g].answer + Overlap
  /\ arrivals' = Append(arrivals, a)
  /\ UNCHANGED <<floor, addresses, mailbox, holds, recovery, recorded, job, run, grant, used>>

\* History lasts about a week: an id Gmail just gave is still good when it is stored.
ForgetHistory ==
  /\ used.expiries < MaxExpiries
  /\ floor < Now
  /\ grant = None
  /\ \A k \in Kinds, g \in Generations : run[k][g].answer = None
  /\ floor' = Now
  /\ used' = [used EXCEPT !.expiries = @ + 1]
  /\ UNCHANGED <<arrivals, addresses, mailbox, holds, recovery, recorded, job, run, grant>>

-----------------------------------------------------------------------------
(* The owner: connect, re-consent, switch, disconnect                      *)

\* completeGmailGrant up to its transaction: getProfile's history id, then the clock.
AskGrant(a) ==
  /\ grant = None
  /\ used.grants < MaxGrants
  /\ grant' = [account |-> a, handoff |-> Now]
  /\ used' = [used EXCEPT !.grants = @ + 1]
  /\ UNCHANGED <<arrivals, floor, addresses, mailbox, holds, recovery, recorded, job, run>>

\* The mailbox busy, a fence still pending, the address taken: nothing is written.
GrantRefused ==
  /\ grant # None
  /\ grant' = None
  /\ UNCHANGED <<arrivals, floor, addresses, mailbox, holds, recovery, recorded, job, run, used>>

\* The transaction: resetAccountState for a switch, insertOrReviveMailbox, the coverage
\* hold, startRecovery, coalesceMailSync, and the release of the disconnection hold.
\* toAt was read after the profile.
CompleteGrant ==
  /\ grant # None
  /\ \E toAt \in grant.handoff..Now :
       LET g == mailbox.generation + 1
           switching == g > 1 /\ Account # grant.account
           from == Less(toAt, BaselineSpan)
       IN /\ mailbox' = [status |-> "connected", syncState |-> "baseline_pending",
                         generation |-> g, historyId |-> grant.handoff,
                         watermark |-> IF switching THEN None ELSE mailbox.watermark,
                         baselineFrom |-> from]
          /\ addresses' = Append(addresses, grant.account)
          /\ recovery' = StartedRecovery(g, from, toAt)
          /\ job' = Coalesced(Rearmed(job, g), g)
  /\ holds' = (holds \ {"mailbox_disconnected"}) \cup {"coverage_incomplete"}
  /\ grant' = None
  /\ UNCHANGED <<arrivals, floor, recorded, run, used>>

\* markMailboxDisconnected, which leaves a mailbox that is not connected as it is.
Disconnected(status) ==
  IF mailbox.status = "connected"
  THEN [mailbox EXCEPT !.status = status, !.syncState = "baseline_pending"]
  ELSE mailbox

\* disconnectMailbox; with the row goes the refresh token.
Disconnect ==
  /\ mailbox.status = "connected"
  /\ mailbox' = Disconnected("disconnected")
  /\ holds' = holds \cup {"mailbox_disconnected"}
  /\ UNCHANGED <<arrivals, floor, addresses, recovery, recorded, job, run, grant, used>>

-----------------------------------------------------------------------------
(* What queues the jobs                                                    *)

\* One pass: mailSyncReconciliationSource and mailRecoverySource.
SchedulerPass ==
  /\ mailbox.status = "connected"
  /\ LET g == mailbox.generation
         synced == IF mailbox.syncState = "ready" THEN Coalesced(job, g) ELSE job
     IN job' = IF recovery[g].state = "open" THEN Rearmed(synced, g) ELSE synced
  /\ UNCHANGED <<arrivals, floor, addresses, mailbox, holds, recovery, recorded, run, grant, used>>

\* receivePushNotification, for a mailbox ready or not.
Push ==
  /\ mailbox.status = "connected"
  /\ job' = Coalesced(job, mailbox.generation)
  /\ UNCHANGED <<arrivals, floor, addresses, mailbox, holds, recovery, recorded, run, grant, used>>

-----------------------------------------------------------------------------
(* What every run does                                                     *)

\* What the run knows next; nothing of it is in the database.
Goes(k, g, row) == run' = [run EXCEPT ![k][g] = row]

\* The run's transaction ends and the runner leaves the row in this state.
Ends(k, g, state) ==
  /\ job' = [job EXCEPT ![k][g] = state]
  /\ Goes(k, g, Idle)

\* A plausible slip: the fence compares the address alone.
FencedByAddress(k, g) == Account = addresses[run[k][g].row.generation]

\* lockMailboxAtFence, and the same predicate in the UPDATEs: the row is still the one
\* the run read. The address only changes with the generation.
Fenced(k, g) == mailbox.generation = run[k][g].row.generation

\* recordMessage of each: a message with a row keeps it.
Recorded(messages) ==
  [m \in Messages |-> IF m \in messages /\ recorded[m] = 0
                      THEN mailbox.generation ELSE recorded[m]]

\* readMailbox, the first thing a claimed job does. A sync row of any generation works
\* on the mailbox as it is; a recovery only on its own.
Begin(k, g) ==
  /\ job[k][g] = "queued"
  /\ k = "recover" => mailbox.generation = g /\ recovery[g].state = "open"
  /\ job' = [job EXCEPT ![k][g] = "running"]
  /\ Goes(k, g, [run[k][g] EXCEPT
               !.row = mailbox,
               !.pc = IF mailbox.status = "connected" THEN "begun" ELSE "inactive"])
  /\ UNCHANGED <<arrivals, floor, addresses, mailbox, holds, recovery, recorded, grant, used>>

\* generation_superseded and already_complete.
BeginMoot(g) ==
  /\ job["recover"][g] = "queued"
  /\ mailbox.generation # g \/ recovery[g].state = "completed"
  /\ Ends("recover", g, "done")
  /\ UNCHANGED <<arrivals, floor, addresses, mailbox, holds, recovery, recorded, grant, used>>

\* mailbox_inactive.
HoldInactive(k, g) ==
  /\ run[k][g].pc = "inactive"
  /\ Fenced(k, g)
  /\ holds' = holds \cup {"mailbox_disconnected"}
  /\ Ends(k, g, "done")
  /\ UNCHANGED <<arrivals, floor, addresses, mailbox, recovery, recorded, grant, used>>

\* accessForMailbox: the token is read now, whosever it is by now.
AccessGranted(k, g) ==
  /\ run[k][g].pc = "begun"
  /\ mailbox.status # "disconnected"
  /\ LET unready == k = "sync" /\ run[k][g].row.syncState # "ready"
     IN Goes(k, g, [run[k][g] EXCEPT !.account = Account,
                                     !.pc = IF unready THEN "unready" ELSE "granted"])
  /\ UNCHANGED <<arrivals, floor, addresses, mailbox, holds, recovery, recorded, job, grant, used>>

\* No token in the row, or Google's invalid_grant; a listing may get that answer too.
AccessRefused(k, g) ==
  /\ \/ run[k][g].pc = "begun" /\ mailbox.status \in {"disconnected", "revoked"} /\ UNCHANGED used
     \/ run[k][g].pc \in {"begun", "granted"} /\ Fault
  /\ Goes(k, g, [run[k][g] EXCEPT !.pc = "refused"])
  /\ UNCHANGED <<arrivals, floor, addresses, mailbox, holds, recovery, recorded, job, grant>>

HoldForRevokedGrant(k, g) ==
  /\ run[k][g].pc = "refused"
  /\ Fenced(k, g)
  /\ mailbox' = Disconnected("revoked")
  /\ holds' = holds \cup {"mailbox_disconnected"}
  /\ Ends(k, g, "done")
  /\ UNCHANGED <<arrivals, floor, addresses, recovery, recorded, grant, used>>

\* A read that failed otherwise, or an incident that is open: the run ends with nothing
\* written. A sync that fails after some messages commits those as a capped one does.
ReadFailed(k, g) ==
  /\ run[k][g].pc \in {"begun", "granted", "listed"}
  /\ Fault
  /\ Ends(k, g, "done")
  /\ UNCHANGED <<arrivals, floor, addresses, mailbox, holds, recovery, recorded, grant>>

\* StaleMailboxGeneration: thrown at the first write, and everything is rolled back.
StaleMailboxGeneration(k, g) ==
  /\ \/ run[k][g].pc \in {"inactive", "unready", "refused", "expired", "listed", "walked"} /\ ~Fenced(k, g)
     \/ run[k][g].pc = "walked" /\ mailbox.status # "connected"
  /\ Ends(k, g, "queued")
  /\ UNCHANGED <<arrivals, floor, addresses, mailbox, holds, recovery, recorded, grant, used>>

\* The worker dies, or the lease is taken: another claim starts over.
Crash(k, g) ==
  /\ run[k][g].pc # "idle"
  /\ Fault
  /\ Ends(k, g, "queued")
  /\ UNCHANGED <<arrivals, floor, addresses, mailbox, holds, recovery, recorded, grant>>

-----------------------------------------------------------------------------
(* mail.sync                                                               *)

\* Not ready when the run read it. The generation's recovery exists, so none is started.
HoldUnready(g) ==
  /\ run["sync"][g].pc = "unready"
  /\ Fenced("sync", g)
  /\ holds' = holds \cup {"coverage_incomplete"}
  /\ Ends("sync", g, "done")
  /\ UNCHANGED <<arrivals, floor, addresses, mailbox, recovery, recorded, grant, used>>

ListHistory(g) ==
  LET r == run["sync"][g] IN
  /\ r.pc = "granted"
  /\ floor <= r.row.historyId
  /\ Goes("sync", g, [r EXCEPT !.pc = "listed", !.answer = Now,
                               !.found = {m \in Inbox(r.account) : m > r.row.historyId}])
  /\ UNCHANGED <<arrivals, floor, addresses, mailbox, holds, recovery, recorded, job, grant, used>>

\* advanceCursor's compare-and-set.
CursorMoved(row) == mailbox.historyId # row.historyId

\* takeWholeRecords stopped after the first n, or took them all and history had ended;
\* then advanceCursor and, at the end of history, the watermark and the coverage hold.
\* A cursor that another run moved is left alone, and the messages are kept.
CommitSync(g) ==
  LET r == run["sync"][g]
      size == Cardinality(r.found)
  IN
  /\ r.pc = "listed"
  /\ Fenced("sync", g)
  /\ \E n \in (IF size = 0 THEN {0} ELSE 1..size) :
       LET taken == FirstOf(r.found, n)
           ended == n = size
           cursor == IF ended THEN r.answer ELSE Latest(taken)
           \* newestInternalDate ?? new Date()
           watermark == IF ~ended THEN mailbox.watermark
                        ELSE IF taken = {} THEN Now ELSE Latest(taken)
           moved == CursorMoved(r.row)
       IN /\ recorded' = Recorded(taken)
          /\ mailbox' = IF moved THEN mailbox
                        ELSE [mailbox EXCEPT !.historyId = cursor, !.watermark = watermark]
          /\ holds' = IF moved \/ ~ended THEN holds ELSE WithCoverageReleased(mailbox)
  /\ Ends("sync", g, "done")
  /\ UNCHANGED <<arrivals, floor, addresses, recovery, grant, used>>

\* history_expired: the profile's history id is read first.
ExpiredCursor(g) ==
  LET r == run["sync"][g] IN
  /\ r.pc = "granted"
  /\ r.row.historyId < floor
  /\ Goes("sync", g, [r EXCEPT !.pc = "expired", !.answer = Now])
  /\ UNCHANGED <<arrivals, floor, addresses, mailbox, holds, recovery, recorded, job, grant, used>>

BeginRecoveryForExpiredCursor(g) ==
  LET r == run["sync"][g]
      next == mailbox.generation + 1
  IN
  /\ r.pc = "expired"
  /\ Fenced("sync", g)
  /\ mailbox' = [mailbox EXCEPT !.generation = next, !.syncState = "recovering",
                                !.historyId = r.answer]
  /\ addresses' = Append(addresses, Account)
  /\ holds' = holds \cup {"coverage_incomplete"}
  /\ recovery' = StartedRecovery(next, ExpiredFrom(r.row), Now)
  /\ job' = [Rearmed(job, next) EXCEPT !["sync"][g] = "done"]
  /\ Goes("sync", g, Idle)
  /\ UNCHANGED <<arrivals, floor, recorded, grant, used>>

-----------------------------------------------------------------------------
(* mail.recover                                                            *)

\* The binding, then the slices of the interval, each in one answer, less what has a row.
WalkInterval(g) ==
  LET r == run["recover"][g]
      listed == {m \in Inbox(r.account) : recovery[g].from <= m /\ m <= recovery[g].to}
  IN
  /\ r.pc = "granted"
  /\ Goes("recover", g, [r EXCEPT !.pc = "walked", !.binding = mailbox.generation,
                                  !.found = {m \in listed : recorded[m] = 0}])
  /\ UNCHANGED <<arrivals, floor, addresses, mailbox, holds, recovery, recorded, job, grant, used>>

\* The budget left some of what was listed for the next run.
CommitProgress(g) ==
  LET found == run["recover"][g].found IN
  /\ run["recover"][g].pc = "walked"
  /\ Fenced("recover", g)
  /\ \E n \in 1..(Cardinality(found) - 1) : recorded' = Recorded(FirstOf(found, n))
  /\ Ends("recover", g, "done")
  /\ UNCHANGED <<arrivals, floor, addresses, mailbox, holds, recovery, grant, used>>

\* A message could not be read: recordProviderIncident, at the binding's fence, and what
\* came before it is committed.
StopRecovery(g) ==
  LET r == run["recover"][g] IN
  /\ r.pc = "walked"
  /\ mailbox.generation = r.binding
  /\ \E n \in 0..(Cardinality(r.found) - 1) : recorded' = Recorded(FirstOf(r.found, n))
  /\ Fault
  /\ Ends("recover", g, "done")
  /\ UNCHANGED <<arrivals, floor, addresses, mailbox, holds, recovery, grant>>

\* Conditional completion: one walk ended with every listed message recorded.
CompleteRecovery(g) ==
  LET r == run["recover"][g] IN
  /\ r.pc = "walked"
  /\ Fenced("recover", g)
  /\ mailbox.status = "connected"
  /\ mailbox.historyId = r.row.historyId
  /\ recorded' = Recorded(r.found)
  /\ mailbox' = [mailbox EXCEPT !.syncState = "ready", !.watermark = recovery[g].to]
  /\ recovery' = [recovery EXCEPT ![g].state = "completed"]
  /\ holds' = WithCoverageReleased(mailbox')
  /\ Ends("recover", g, "done")
  /\ UNCHANGED <<arrivals, floor, addresses, grant, used>>

-----------------------------------------------------------------------------
Run(k, g) ==
  \/ Begin(k, g) \/ HoldInactive(k, g)
  \/ AccessGranted(k, g) \/ AccessRefused(k, g) \/ HoldForRevokedGrant(k, g)
  \/ ReadFailed(k, g) \/ StaleMailboxGeneration(k, g) \/ Crash(k, g)

Sync(g) ==
  \/ Run("sync", g) \/ HoldUnready(g) \/ ListHistory(g) \/ CommitSync(g)
  \/ ExpiredCursor(g) \/ BeginRecoveryForExpiredCursor(g)

Recover(g) ==
  \/ Run("recover", g) \/ BeginMoot(g) \/ WalkInterval(g)
  \/ CommitProgress(g) \/ StopRecovery(g) \/ CompleteRecovery(g)

Next ==
  \/ \E a \in Accounts : Arrive(a) \/ AskGrant(a)
  \/ ForgetHistory \/ GrantRefused \/ CompleteGrant \/ Disconnect
  \/ SchedulerPass \/ Push
  \/ \E g \in Generations : Sync(g) \/ Recover(g)

Spec == Init /\ [][Next]_vars

\* The scheduler passes every minute and the slots of the worker keep claiming; what an
\* owner, a sender or a push may do is never promised.
FairSpec ==
  /\ Spec
  /\ WF_vars(SchedulerPass)
  /\ \A g \in Generations : WF_vars(Sync(g)) /\ WF_vars(Recover(g))

-----------------------------------------------------------------------------
TypeOK ==
  /\ arrivals \in Seq(Accounts) /\ Now <= MaxMessages
  /\ floor \in 0..Now
  /\ addresses \in Seq(Accounts) /\ Len(addresses) = mailbox.generation
  /\ mailbox \in MailboxRows
  /\ holds \subseteq {"coverage_incomplete", "mailbox_disconnected"}
  /\ recovery \in [Generations -> RecoveryRows]
  /\ recorded \in [Messages -> {0} \cup Generations]
  /\ \A k \in Kinds, g \in Generations :
       /\ job[k][g] \in JobStates
       /\ (job[k][g] = "running") <=> (run[k][g] # Idle)
       /\ job[k][g] # "absent" => g <= mailbox.generation
  /\ \A g \in Generations : (recovery[g].state # "absent") <=> (g <= mailbox.generation)

\* A mailbox that is `ready` has read everything: each message of its account from the
\* baseline's start up to the cursor has a row, so that history from the cursor misses
\* nothing (the continuous handoff of recover.ts, and the cursor of sync.ts).
CoverageProved ==
  mailbox.status = "connected" /\ mailbox.syncState = "ready" =>
    \A m \in Inbox(Account) :
      mailbox.baselineFrom <= m /\ m <= mailbox.historyId => recorded[m] # 0

\* What the send path refuses by: a mailbox holds its owner's sends as disconnected when
\* it is, and only then, and for coverage whenever it is connected and not proved
\* (mailboxes.ts, openMailboxHold and releaseMailboxHold).
HoldsMatchMailbox ==
  mailbox.status # "absent" =>
    /\ (mailbox.status # "connected") <=> ("mailbox_disconnected" \in holds)
    /\ mailbox.status = "connected" /\ mailbox.syncState # "ready" =>
         "coverage_incomplete" \in holds

\* A run that read the mailbox at another generation changes neither the mailbox, its
\* holds nor its recoveries, however far it got before (StaleMailboxGeneration); and
\* within a generation no run takes the cursor back to history that was read.
StaleRunLeavesMailbox ==
  [][/\ \A k \in Kinds, g \in Generations :
          run[k][g].pc # "idle" /\ run'[k][g].pc = "idle"
            /\ run[k][g].row.generation # mailbox.generation =>
            UNCHANGED <<mailbox, holds, recovery>>
     /\ mailbox'.generation = mailbox.generation /\ mailbox.generation > 0 =>
          mailbox'.historyId >= mailbox.historyId]_vars

\* A mailbox that stays connected ends up proved, read to the last message and with no
\* coverage hold, also the one a run that saw it before its recovery ended opened late.
CaughtUp ==
  /\ mailbox.syncState = "ready"
  /\ "coverage_incomplete" \notin holds
  /\ \A m \in Inbox(Account) : mailbox.baselineFrom <= m => recorded[m] # 0

EventuallyCaughtUp == <>[](mailbox.status = "connected") => <>[]CaughtUp

=============================================================================
