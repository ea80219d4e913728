--------------------------- MODULE JobQueueProofs ---------------------------
(***************************************************************************)
(* What holds of the job queue for every number of jobs and runner slots,  *)
(* every naming of the slots and every value of its limits; and, at the    *)
(* end, of the lanes those slots poll.                                     *)
(***************************************************************************)
EXTENDS JobQueue, Slots, TLAPS

USE ConstantsAssumption DEF Protections

-----------------------------------------------------------------------------
(* What the statements write.                                              *)

\* A new row is queued, unclaimed and has no history.
LEMMA NewRowFields ==
  ASSUME NEW dueNow \in BOOLEAN
  PROVE  /\ NewRow(dueNow) \in Rows
         /\ NewRow(dueNow).state = "queued"
         /\ NewRow(dueNow).token = 0
         /\ NewRow(dueNow).attempt = 0
         /\ NewRow(dueNow).cursor = 0
         /\ ~NewRow(dueNow).archived
<1>1. AbsentRow \in Rows
  BY DEF AbsentRow, Rows, States
<1>2. NewRow(dueNow) \in Rows
  BY <1>1 DEF NewRow, Rows, States
<1> QED
  BY <1>2 DEF NewRow, AbsentRow

\* Ending a claim changes three columns of the row and keeps its type.
LEMMA UnleasedFields ==
  ASSUME NEW row \in Rows, NEW s \in States
  PROVE  /\ Unleased(row, s) \in Rows
         /\ Unleased(row, s).state = s
         /\ Unleased(row, s).token = row.token
         /\ Unleased(row, s).attempt = row.attempt
         /\ Unleased(row, s).cursor = row.cursor
         /\ Unleased(row, s).archived = row.archived
BY DEF Unleased, Rows

\* A claim takes one attempt and one token.
LEMMA LeasedFields ==
  ASSUME NEW row \in Rows, NEW o \in Owners, row.attempt < MaxAttempts
  PROVE  /\ Leased(row, o) \in Rows
         /\ Leased(row, o).state = "running"
         /\ Leased(row, o).owner = o
         /\ Leased(row, o).token = row.token + 1
         /\ Leased(row, o).attempt = row.attempt + 1
         /\ Leased(row, o).cursor = row.cursor
         /\ Leased(row, o).chunks = row.chunks
         /\ Leased(row, o).archived = row.archived
<1>1. row.attempt + 1 \in 0..MaxAttempts /\ row.token + 1 \in Nat
  BY DEF Rows
<1>2. Leased(row, o) \in Rows
  BY <1>1 DEF Leased, Rows, States
<1> QED
  BY <1>2 DEF Leased, Rows

\* A failed attempt leaves the row dead or with attempts left.
LEMMA AfterFailureFields ==
  ASSUME NEW row \in Rows, NEW n \in Nat, row.attempt = n
  PROVE  /\ AfterFailure(row, n) \in Rows
         /\ AfterFailure(row, n).state \in {"dead", "retryable"}
         /\ AfterFailure(row, n).token = row.token
         /\ AfterFailure(row, n).cursor = row.cursor
         /\ AfterFailure(row, n).archived = row.archived
         /\ AfterFailure(row, n).state = "retryable" =>
              AfterFailure(row, n).attempt < MaxAttempts
<1>1. Unleased(row, "dead") \in Rows /\ Unleased(row, "retryable") \in Rows
  BY UnleasedFields DEF States
<1>2. AfterFailure(row, n) \in Rows
  BY <1>1 DEF AfterFailure, Unleased, Rows
<1>3. /\ AfterFailure(row, n).state \in {"dead", "retryable"}
      /\ AfterFailure(row, n).token = row.token
      /\ AfterFailure(row, n).cursor = row.cursor
  BY DEF AfterFailure, Unleased, Rows
<1>4. /\ AfterFailure(row, n).archived = row.archived
      /\ AfterFailure(row, n).state = "retryable" =>
           AfterFailure(row, n).attempt < MaxAttempts
  BY DEF AfterFailure, Unleased, Rows
<1> QED
  BY <1>2, <1>3, <1>4

\* So does an expired lease.
LEMMA AfterExpiryFields ==
  ASSUME NEW row \in Rows
  PROVE  /\ AfterExpiry(row) \in Rows
         /\ AfterExpiry(row).state \in {"dead", "retryable"}
         /\ AfterExpiry(row).token = row.token
         /\ AfterExpiry(row).cursor = row.cursor
         /\ AfterExpiry(row).archived = row.archived
         /\ AfterExpiry(row).state = "retryable" =>
              AfterExpiry(row).attempt < MaxAttempts
<1> DEFINE s == IF row.attempt >= MaxAttempts THEN "dead" ELSE "retryable"
<1>1. s \in States /\ AfterExpiry(row) = Unleased(row, s)
  BY DEF AfterExpiry, States
<1>2. row.attempt \in 0..MaxAttempts
  BY DEF Rows
<1> QED
  BY <1>1, <1>2, UnleasedFields

\* A chunk moves the cursor and nothing the fence looks at.
LEMMA ProgressedFields ==
  ASSUME NEW row \in Rows, NEW n \in Nat
  PROVE  /\ Progressed(row, n) \in Rows
         /\ Progressed(row, n).state = row.state
         /\ Progressed(row, n).owner = row.owner
         /\ Progressed(row, n).token = row.token
         /\ Progressed(row, n).attempt = row.attempt
         /\ Progressed(row, n).cursor = n
         /\ Progressed(row, n).archived = row.archived
<1>1. row.chunks + 1 \in Nat
  BY DEF Rows
<1>2. Progressed(row, n) \in Rows
  BY <1>1 DEF Progressed, Rows
<1> QED
  BY <1>2 DEF Progressed, Rows

\* A yield gives an attempt back.
LEMMA YieldedFields ==
  ASSUME NEW row \in Rows
  PROVE  /\ Yielded(row) \in Rows
         /\ Yielded(row).state = "queued"
         /\ Yielded(row).token = row.token
         /\ Yielded(row).cursor = row.cursor
         /\ Yielded(row).archived = row.archived
         /\ Yielded(row).attempt < MaxAttempts
<1> DEFINE back == IF row.attempt > 0 THEN row.attempt - 1 ELSE 0
<1>1. back \in 0..MaxAttempts /\ back < MaxAttempts
  BY DEF Rows
<1> HIDE DEF back
<1>2. Unleased(row, "queued") \in Rows
  BY UnleasedFields DEF States
<1>3. Yielded(row) = [Unleased(row, "queued") EXCEPT !.due = TRUE, !.attempt = back]
  BY DEF Yielded, back
<1>4. Yielded(row) \in Rows /\ Yielded(row).attempt = back
  BY <1>1, <1>2, <1>3 DEF Rows
<1>5. /\ Yielded(row).state = "queued" /\ Yielded(row).token = row.token
      /\ Yielded(row).cursor = row.cursor /\ Yielded(row).archived = row.archived
  BY DEF Yielded, Unleased, Rows
<1> QED
  BY <1>1, <1>4, <1>5

\* An admin requeue keeps token and cursor.
LEMMA RequeuedFields ==
  ASSUME NEW row \in Rows
  PROVE  /\ Requeued(row) \in Rows
         /\ Requeued(row).state = "queued"
         /\ Requeued(row).token = row.token
         /\ Requeued(row).cursor = row.cursor
         /\ Requeued(row).archived = row.archived
         /\ Requeued(row).attempt = 0
<1>1. row.requeued + 1 \in Nat /\ 0 \in 0..MaxAttempts
  BY DEF Rows
<1>2. Unleased(row, "queued") \in Rows
  BY UnleasedFields DEF States
<1>3. Requeued(row) \in Rows
  BY <1>1, <1>2 DEF Requeued, Rows
<1> QED
  BY <1>3 DEF Requeued, Unleased, Rows

\* Archiving keeps the state and the token.
LEMMA ArchivedFields ==
  ASSUME NEW row \in Rows
  PROVE  /\ Archived(row) \in Rows
         /\ Archived(row).state = row.state
         /\ Archived(row).token = row.token
         /\ Archived(row).attempt = row.attempt
         /\ Archived(row).archived
BY DEF Archived, Rows

\* The next unit goes to the end of a log of units.
LEMMA AppendUnit ==
  ASSUME NEW s \in Seq(Nat), \A i \in 1..Len(s) : s[i] = i
  PROVE  /\ Append(s, Len(s) + 1) \in Seq(Nat)
         /\ Len(Append(s, Len(s) + 1)) = Len(s) + 1
         /\ \A i \in 1..(Len(s) + 1) : Append(s, Len(s) + 1)[i] = i
OBVIOUS

-----------------------------------------------------------------------------
(* Steps that change one row and leave the runners alone.                  *)

\* What a statement on row j must respect, whoever runs it.
RowRespected(j, row) ==
  /\ row \in Rows
  /\ row.state # "absent"
  /\ row.token = job[j].token
  /\ row.state = "running" =>
       /\ job[j].state = "running"
       /\ row.owner = job[j].owner
       /\ row.cursor = job[j].cursor
       /\ row.attempt = job[j].attempt
  /\ Locked(j) => row.state = "running"
  /\ row.archived => row.state = "done"
  /\ row.state \in Runnable => row.attempt < MaxAttempts
  /\ ~row.archived => /\ ~job[j].archived
                      /\ row.cursor = job[j].cursor
                      /\ row.state = "done" <=> job[j].state = "done"

LEMMA RowChange ==
  ASSUME IInv, NEW j \in Jobs, NEW row, RowRespected(j, row),
         job' = [job EXCEPT ![j] = row], UNCHANGED <<wk, applied>>
  PROVE  IInv'
<1> USE DEF IInv, RowRespected
<1>1. TypeOK'
  BY DEF TypeOK
<1>2. ClaimsComeFromRows'
  BY DEF ClaimsComeFromRows, TypeOK
<1>3. TokensDiffer'
  BY DEF TokensDiffer
<1>4. HolderAgrees'
  BY DEF HolderAgrees, ClaimsComeFromRows, TokenCurrent, TypeOK
<1>5. AbsentIsFresh' /\ ArchivedIsDone' /\ ReturnedIsOutside'
  BY DEF AbsentIsFresh, ArchivedIsDone, ReturnedIsOutside, Transactional, TypeOK
<1>6. NoStrandedJob'
  BY DEF NoStrandedJob, TypeOK
<1>7. FencedHandlerOwnsLease'
  BY DEF FencedHandlerOwnsLease, ClaimsComeFromRows, Holds, Locked, TypeOK
<1>8. UnitsCommittedOnce'
  BY DEF UnitsCommittedOnce, TypeOK
<1> QED
  BY <1>1, <1>2, <1>3, <1>4, <1>5, <1>6, <1>7, <1>8

\* A locked row is running, so no statement on other rows meets a lock.
LEMMA LockedIsRunning ==
  ASSUME IInv, NEW j \in Jobs, Locked(j) PROVE job[j].state = "running"
BY DEF IInv, Locked, FencedHandlerOwnsLease, Holds

LEMMA BecomeDueStep ==
  ASSUME IInv, NEW j \in Jobs, BecomeDue(j) PROVE IInv'
<1> DEFINE row == [job[j] EXCEPT !.due = TRUE]
<1>1. job' = [job EXCEPT ![j] = row] /\ UNCHANGED <<wk, applied>>
  BY DEF BecomeDue, IInv, TypeOK
<1>2. ~Locked(j)
  BY LockedIsRunning DEF BecomeDue, Runnable
<1>3. job[j] \in Rows
  BY DEF IInv, TypeOK
<1>4. /\ row \in Rows /\ row.state = job[j].state /\ row.token = job[j].token
      /\ row.cursor = job[j].cursor /\ row.attempt = job[j].attempt
      /\ row.archived = job[j].archived
  BY <1>3 DEF Rows
<1> HIDE DEF row
<1>5. RowRespected(j, row)
  BY <1>2, <1>4 DEF RowRespected, BecomeDue, IInv, Runnable, NoStrandedJob, ArchivedIsDone
<1> QED
  BY <1>1, <1>5, RowChange

LEMMA LeaseExpiresStep ==
  ASSUME IInv, NEW j \in Jobs, LeaseExpires(j) PROVE IInv'
<1> DEFINE row == [job[j] EXCEPT !.expired = TRUE]
<1>1. job' = [job EXCEPT ![j] = row] /\ UNCHANGED <<wk, applied>>
  BY DEF LeaseExpires, IInv, TypeOK
<1>2. job[j] \in Rows
  BY DEF IInv, TypeOK
<1>3. /\ row \in Rows /\ row.state = job[j].state /\ row.token = job[j].token
      /\ row.owner = job[j].owner /\ row.cursor = job[j].cursor
      /\ row.attempt = job[j].attempt /\ row.archived = job[j].archived
  BY <1>2 DEF Rows
<1> HIDE DEF row
<1>4. RowRespected(j, row)
  BY <1>3 DEF RowRespected, LeaseExpires, IInv, Runnable, ArchivedIsDone
<1> QED
  BY <1>1, <1>4, RowChange

LEMMA ReclaimStep ==
  ASSUME IInv, NEW j \in Jobs, Reclaim(j) PROVE IInv'
<1>1. job[j] \in Rows
  BY DEF IInv, TypeOK
<1>2. RowRespected(j, AfterExpiry(job[j]))
  BY <1>1, AfterExpiryFields DEF RowRespected, Reclaim, IInv, Runnable, ArchivedIsDone
<1> QED
  BY <1>2, RowChange DEF Reclaim

LEMMA ArchiveStep ==
  ASSUME IInv, NEW j \in Jobs, Archive(j) PROVE IInv'
<1>1. job[j] \in Rows
  BY DEF IInv, TypeOK
<1>2. RowRespected(j, Archived(job[j]))
  BY <1>1, ArchivedFields, LockedIsRunning DEF RowRespected, Archive, Runnable
<1> QED
  BY <1>2, RowChange DEF Archive

LEMMA RequeueDeadStep ==
  ASSUME IInv, NEW j \in Jobs, RequeueDead(j) PROVE IInv'
<1>1. job[j] \in Rows
  BY DEF IInv, TypeOK
<1>2. RowRespected(j, Requeued(job[j]))
  BY <1>1, RequeuedFields, LockedIsRunning
     DEF RowRespected, RequeueDead, IInv, Runnable, ArchivedIsDone
<1> QED
  BY <1>2, RowChange DEF RequeueDead

\* A pass only adds rows nobody has claimed.
LEMMA SchedulerPassStep ==
  ASSUME IInv, NEW S \in SUBSET Jobs, NEW dueNow \in BOOLEAN, SchedulerPass(S, dueNow)
  PROVE  IInv'
<1>1. \A j \in Jobs : \/ job'[j] = job[j]
                      \/ job[j] = AbsentRow /\ job'[j] = NewRow(dueNow)
  BY DEF SchedulerPass, IInv, AbsentIsFresh
<1>2. job' \in [Jobs -> Rows]
  <2>1. job' = [j \in Jobs |-> job'[j]]
    BY DEF SchedulerPass
  <2> QED
    BY <1>1, <2>1, NewRowFields DEF IInv, TypeOK
<1>3. AbsentRow.state = "absent" /\ AbsentRow.cursor = 0 /\ ~AbsentRow.archived
  BY DEF AbsentRow
<1>4. UNCHANGED <<wk, applied>>
  BY DEF SchedulerPass
<1>5. \A w \in Workers : wk[w].pc # "idle" =>
        wk[w].job \in Jobs /\ job'[wk[w].job] = job[wk[w].job]
  BY <1>1, <1>3 DEF IInv, ClaimsComeFromRows
<1>6. TypeOK' /\ ClaimsComeFromRows' /\ TokensDiffer' /\ HolderAgrees'
  BY <1>2, <1>4, <1>5
     DEF IInv, TypeOK, ClaimsComeFromRows, TokensDiffer, HolderAgrees, TokenCurrent
<1>7. AbsentIsFresh' /\ ArchivedIsDone' /\ NoStrandedJob'
  BY <1>1, NewRowFields
     DEF IInv, AbsentIsFresh, ArchivedIsDone, NoStrandedJob, Runnable
<1>8. FencedHandlerOwnsLease' /\ ReturnedIsOutside'
  BY <1>4, <1>5
     DEF IInv, FencedHandlerOwnsLease, Holds, ReturnedIsOutside, Transactional
<1>9. UnitsCommittedOnce'
  BY <1>1, <1>3, <1>4, NewRowFields DEF IInv, UnitsCommittedOnce
<1> QED
  BY <1>6, <1>7, <1>8, <1>9 DEF IInv

-----------------------------------------------------------------------------
(* Steps that change one runner and leave the rows alone.                  *)

\* A runner goes on with the claim it has, or drops it.
LEMMA RunnerChange ==
  ASSUME IInv, NEW w \in Workers, NEW c \in Claims,
         wk' = [wk EXCEPT ![w] = c], UNCHANGED <<job, applied>>,
         c.pc # "idle" => /\ wk[w].pc # "idle"
                          /\ c.job = wk[w].job
                          /\ c.token = wk[w].token
                          /\ c.cursor = wk[w].cursor
                          /\ c.attempt = wk[w].attempt,
         c.pc = "handling" /\ Protection[c.job] = "fencing_token" => Holds(w),
         c.pc = "returned" => ~Transactional(w)
  PROVE  IInv'
<1> USE DEF IInv
<1>1. TypeOK' /\ AbsentIsFresh' /\ ArchivedIsDone' /\ NoStrandedJob'
  BY DEF TypeOK, AbsentIsFresh, ArchivedIsDone, NoStrandedJob
<1>2. wk \in [Workers -> Claims] /\ wk'[w] = c
  BY DEF TypeOK
<1>3. \A v \in Workers : v # w => wk'[v] = wk[v]
  BY <1>2
<1> HIDE DEF IInv
<1>4. ClaimsComeFromRows'
  BY <1>2, <1>3 DEF IInv, ClaimsComeFromRows
<1>5. TokensDiffer'
  BY <1>2, <1>3 DEF IInv, TokensDiffer
<1>6. HolderAgrees'
  BY <1>2, <1>3 DEF IInv, HolderAgrees, TokenCurrent
<1>7. FencedHandlerOwnsLease' /\ ReturnedIsOutside'
  BY <1>2, <1>3
     DEF IInv, FencedHandlerOwnsLease, Holds, ReturnedIsOutside, Transactional
<1>8. UnitsCommittedOnce'
  BY DEF IInv, UnitsCommittedOnce
<1> QED
  BY <1>1, <1>4, <1>5, <1>6, <1>7, <1>8 DEF IInv

LEMMA IdleIsClaim == Idle \in Claims /\ Idle.pc = "idle"
BY DEF Idle, Claims, Stages

LEMMA GotoStep ==
  ASSUME IInv, NEW w \in Workers, NEW pc \in Stages \ {"idle"}, wk[w].pc # "idle",
         Goto(w, pc), UNCHANGED <<job, applied>>,
         pc = "handling" /\ Protection[wk[w].job] = "fencing_token" => Holds(w),
         pc = "returned" => ~Transactional(w)
  PROVE  IInv'
<1> DEFINE c == [wk[w] EXCEPT !.pc = pc]
<1>1. wk[w] \in Claims /\ wk' = [wk EXCEPT ![w] = c]
  BY DEF IInv, TypeOK, Goto
<1>2. /\ c \in Claims /\ c.pc = pc /\ c.job = wk[w].job /\ c.token = wk[w].token
      /\ c.cursor = wk[w].cursor /\ c.attempt = wk[w].attempt
  BY <1>1 DEF Claims
<1> HIDE DEF c
<1> QED
  BY <1>1, <1>2, RunnerChange

LEMMA LeaveStep ==
  ASSUME IInv, NEW w \in Workers, Leave(w), UNCHANGED <<job, applied>>
  PROVE  IInv'
BY IdleIsClaim, RunnerChange DEF Leave

LEMMA RunnerSteps ==
  ASSUME IInv, NEW w \in Workers,
         \/ RefuseAttempt(w) \/ BeginAttempt(w) \/ Crash(w)
         \/ \E after \in {"failing", "burying"} : Throws(w, after)
         \/ \E after \in {"returned", "burying"} : ReturnsOutside(w, after)
  PROVE  IInv'
<1>1. CASE RefuseAttempt(w)
  BY <1>1, GotoStep DEF RefuseAttempt, Stages
<1>2. CASE BeginAttempt(w)
  BY <1>2, GotoStep, LeaveStep DEF BeginAttempt, Stages
<1>3. CASE Crash(w)
  BY <1>3, LeaveStep DEF Crash
<1>4. CASE \E after \in {"failing", "burying"} : Throws(w, after)
  BY <1>4, GotoStep DEF Throws, Stages
<1>5. CASE \E after \in {"returned", "burying"} : ReturnsOutside(w, after)
  BY <1>5, GotoStep DEF ReturnsOutside, Stages
<1> QED
  BY <1>1, <1>2, <1>3, <1>4, <1>5

-----------------------------------------------------------------------------
(* Steps in which a runner writes the row of its claim.                    *)

\* The holder is alone: every other claim of the job carries an older token.
LEMMA HolderIsAlone ==
  ASSUME IInv, NEW v \in Workers, NEW w \in Workers, v # w,
         wk[v].pc # "idle", wk[w].pc # "idle", wk[v].job = wk[w].job,
         TokenCurrent(w)
  PROVE  ~TokenCurrent(v)
BY DEF IInv, TokensDiffer, TokenCurrent

\* The runner that holds the current claim of job j writes `row` and goes on
\* with the claim c or drops it; `units` is what is committed afterwards.
HolderWrite(w, j, row, c, units) ==
  /\ wk[w].pc # "idle"
  /\ wk[w].job = j
  /\ TokenCurrent(w)
  /\ job' = [job EXCEPT ![j] = row]
  /\ wk' = [wk EXCEPT ![w] = c]
  /\ applied' = [applied EXCEPT ![j] = units]
  /\ row \in Rows
  /\ row.state # "absent"
  /\ row.token = job[j].token
  /\ ~row.archived
  /\ row.state \in Runnable => row.attempt < MaxAttempts
  /\ c \in Claims
  /\ c.pc \notin {"handling", "returned"}
  /\ c.pc # "idle" => c.job = j /\ c.token = wk[w].token
  /\ c.pc # "idle" /\ row.state = "running" =>
       /\ row.owner = job[j].owner
       /\ row.cursor = c.cursor
       /\ row.attempt = c.attempt
  /\ units \in Seq(Nat)
  /\ \A i \in 1..Len(units) : units[i] = i
  /\ Len(units) = row.cursor +
       (IF row.state = "done" /\ Protection[j] # "outbound_fence" THEN 1 ELSE 0)

LEMMA HolderWrites ==
  ASSUME IInv, NEW w \in Workers, NEW j \in Jobs, NEW row, NEW c, NEW units,
         HolderWrite(w, j, row, c, units)
  PROVE  IInv'
<1> USE DEF HolderWrite
<1>1. /\ job \in [Jobs -> Rows] /\ wk \in [Workers -> Claims]
      /\ applied \in [Jobs -> Seq(Nat)]
  BY DEF IInv, TypeOK
<1>2. job'[j] = row /\ wk'[w] = c /\ applied'[j] = units
  BY <1>1
<1>3. /\ \A k \in Jobs : k # j => job'[k] = job[k] /\ applied'[k] = applied[k]
      /\ \A v \in Workers : v # w => wk'[v] = wk[v]
  BY <1>1
<1>4. \A v \in Workers : v # w /\ wk[v].pc # "idle" /\ wk[v].job = j =>
        ~TokenCurrent(v) /\ wk[v].token # job[j].token
  BY HolderIsAlone DEF TokenCurrent, IInv, TokensDiffer
<1>5. TypeOK'
  BY <1>1 DEF TypeOK
<1>6. ClaimsComeFromRows'
  BY <1>1, <1>2, <1>3 DEF IInv, ClaimsComeFromRows
<1>7. TokensDiffer'
  BY <1>2, <1>3 DEF IInv, TokensDiffer
<1>8. HolderAgrees'
  <2> SUFFICES ASSUME NEW v \in Workers, wk'[v].pc # "idle", TokenCurrent(v)'
               PROVE  /\ job'[wk'[v].job].owner = OwnerOf[v]
                      /\ job'[wk'[v].job].cursor = wk'[v].cursor
                      /\ job'[wk'[v].job].attempt = wk'[v].attempt
    BY DEF HolderAgrees
  <2>1. CASE v = w
    BY <2>1, <1>2 DEF IInv, HolderAgrees, TokenCurrent
  <2>2. CASE v # w
    BY <2>2, <1>2, <1>3, <1>4 DEF IInv, HolderAgrees, TokenCurrent, ClaimsComeFromRows
  <2> QED
    BY <2>1, <2>2
<1>9. AbsentIsFresh' /\ ArchivedIsDone' /\ NoStrandedJob'
  BY <1>2, <1>3 DEF IInv, AbsentIsFresh, ArchivedIsDone, NoStrandedJob
<1>10. FencedHandlerOwnsLease'
  BY <1>2, <1>3, <1>4
     DEF IInv, FencedHandlerOwnsLease, Holds, ClaimsComeFromRows, TokenCurrent
<1>11. ReturnedIsOutside'
  BY <1>2, <1>3 DEF IInv, ReturnedIsOutside, Transactional
<1>12. UnitsCommittedOnce'
  BY <1>2, <1>3 DEF IInv, UnitsCommittedOnce
<1> QED
  BY <1>5, <1>6, <1>7, <1>8, <1>9, <1>10, <1>11, <1>12 DEF IInv

\* How far the holder of a claim got is the length of the log.
LEMMA HolderKnowsProgress ==
  ASSUME IInv, NEW w \in Workers, wk[w].pc # "idle", TokenCurrent(w)
  PROVE  /\ wk[w].job \in Jobs
         /\ job[wk[w].job] \in Rows
         /\ job[wk[w].job].state = "running"
         /\ ~job[wk[w].job].archived
         /\ applied[wk[w].job] \in Seq(Nat)
         /\ Len(applied[wk[w].job]) = wk[w].cursor
         /\ job[wk[w].job].cursor = wk[w].cursor
         /\ job[wk[w].job].attempt = wk[w].attempt
         /\ wk[w].cursor \in Nat
         /\ \A i \in 1..Len(applied[wk[w].job]) : applied[wk[w].job][i] = i
<1>1. wk[w].job \in Jobs /\ job[wk[w].job].state = "running"
  BY DEF IInv, ClaimsComeFromRows, TokenCurrent
<1>2. job[wk[w].job] \in Rows /\ applied[wk[w].job] \in Seq(Nat)
  BY <1>1 DEF IInv, TypeOK
<1>3. wk[w].cursor \in Nat
  BY DEF IInv, TypeOK, Claims
<1>4. ~job[wk[w].job].archived
  BY <1>1 DEF IInv, ArchivedIsDone
<1>5. /\ job[wk[w].job].cursor = wk[w].cursor
      /\ job[wk[w].job].attempt = wk[w].attempt
  BY DEF IInv, HolderAgrees
<1>6. /\ \A i \in 1..Len(applied[wk[w].job]) : applied[wk[w].job][i] = i
      /\ Len(applied[wk[w].job]) = wk[w].cursor
  BY <1>1, <1>3, <1>4, <1>5 DEF IInv, UnitsCommittedOnce
<1> QED
  BY <1>1, <1>2, <1>3, <1>4, <1>5, <1>6

\* A statement fenced by the claim, after which the runner drops the claim.
LEMMA FencedStep ==
  ASSUME IInv, NEW w \in Workers, wk[w].pc # "idle",
         NEW row, Fenced(w, row), Leave(w), UNCHANGED applied,
         Holds(w) => /\ row \in Rows
                     /\ row.state \in {"dead", "done", "queued", "retryable"}
                     /\ row.state = "done" => Protection[wk[w].job] = "outbound_fence"
                     /\ row.state \in Runnable => row.attempt < MaxAttempts
                     /\ row.token = job[wk[w].job].token
                     /\ row.cursor = job[wk[w].job].cursor
                     /\ row.archived = job[wk[w].job].archived
  PROVE  IInv'
<1>1. CASE ~Holds(w)
  BY <1>1, LeaveStep DEF Fenced
<1>2. CASE Holds(w)
  <2> DEFINE j == wk[w].job
  <2>1. TokenCurrent(w) /\ job' = [job EXCEPT ![j] = row]
    BY <1>2 DEF Holds, TokenCurrent, Fenced
  <2>2. applied' = [applied EXCEPT ![j] = applied[j]]
    BY DEF IInv, TypeOK
  <2>3. /\ j \in Jobs /\ ~row.archived /\ row.state \notin {"absent", "running"}
        /\ applied[j] \in Seq(Nat) /\ Len(applied[j]) = row.cursor /\ row.cursor \in Nat
        /\ \A i \in 1..Len(applied[j]) : applied[j][i] = i
    BY <1>2, <2>1, HolderKnowsProgress
  <2>4. Len(applied[j]) = row.cursor +
          (IF row.state = "done" /\ Protection[j] # "outbound_fence" THEN 1 ELSE 0)
    BY <1>2, <2>3
  <2>5. wk' = [wk EXCEPT ![w] = Idle]
    BY DEF Leave
  <2>6. wk[w].job = j
    OBVIOUS
  <2>7. /\ row \in Rows /\ row.token = job[j].token
        /\ row.state \in Runnable => row.attempt < MaxAttempts
    BY <1>2
  <2> HIDE DEF j
  <2>8. HolderWrite(w, j, row, Idle, applied[j])
    BY <2>1, <2>2, <2>3, <2>4, <2>5, <2>6, <2>7, IdleIsClaim DEF HolderWrite
  <2> QED
    BY <2>3, <2>8, HolderWrites
<1> QED
  BY <1>1, <1>2

LEMMA EndingSteps ==
  ASSUME IInv, NEW w \in Workers,
         CompleteJob(w) \/ FailJob(w) \/ KillJob(w) \/ RequeueForNextChunk(w)
  PROVE  IInv'
<1> DEFINE j == wk[w].job
<1>1. Holds(w) => /\ TokenCurrent(w) /\ job[j].state = "running"
                  /\ wk[w].pc # "idle" => job[j] \in Rows /\ job[j].attempt = wk[w].attempt
  BY HolderKnowsProgress DEF Holds, TokenCurrent
<1>2. {"dead", "done"} \subseteq States /\ Runnable = {"queued", "retryable"}
  BY DEF States, Runnable
<1>3. CASE CompleteJob(w)
  <2>1. Protection[j] = "outbound_fence"
    BY <1>3 DEF CompleteJob, IInv, ReturnedIsOutside, Transactional
  <2> QED
    BY <1>1, <1>2, <1>3, <2>1, UnleasedFields, FencedStep DEF CompleteJob
<1>4. CASE FailJob(w)
  <2>1. job[j] \in Rows => job[j].attempt \in Nat
    BY DEF Rows
  <2> QED
    BY <1>1, <1>2, <1>4, <2>1, AfterFailureFields, FencedStep DEF FailJob
<1>5. CASE KillJob(w)
  BY <1>1, <1>2, <1>5, UnleasedFields, FencedStep DEF KillJob
<1>6. CASE RequeueForNextChunk(w)
  BY <1>1, <1>2, <1>6, YieldedFields, FencedStep DEF RequeueForNextChunk
<1> QED
  BY <1>3, <1>4, <1>5, <1>6

\* The unit a handler commits is the next one of the log.
LEMMA CommittedUnit ==
  ASSUME IInv, NEW w \in Workers, wk[w].pc # "idle", TokenCurrent(w), CommitUnit(w)
  PROVE  \E units \in Seq(Nat) :
           /\ applied' = [applied EXCEPT ![wk[w].job] = units]
           /\ units = Append(applied[wk[w].job], Len(applied[wk[w].job]) + 1)
           /\ Len(units) = wk[w].cursor + 1
           /\ \A i \in 1..Len(units) : units[i] = i
<1> DEFINE log == applied[wk[w].job]
           units == Append(log, wk[w].cursor + 1)
<1>1. /\ wk[w].job \in Jobs /\ log \in Seq(Nat) /\ Len(log) = wk[w].cursor
      /\ \A i \in 1..Len(log) : log[i] = i
  BY HolderKnowsProgress
<1>2. applied' = [applied EXCEPT ![wk[w].job] = units]
  BY DEF CommitUnit
<1> HIDE DEF log
<1>3. /\ units \in Seq(Nat) /\ Len(units) = wk[w].cursor + 1
      /\ units = Append(log, Len(log) + 1)
      /\ \A i \in 1..(Len(log) + 1) : units[i] = i
  BY <1>1, AppendUnit
<1> QED
  BY <1>1, <1>2, <1>3 DEF log

LEMMA ReturnsChunkStep ==
  ASSUME IInv, NEW w \in Workers, NEW after \in {"claimed", "yielding", "failing"},
         ReturnsChunk(w, after)
  PROVE  IInv'
<1>1. CASE ~TokenCurrent(w)
  BY <1>1, LeaveStep DEF ReturnsChunk
<1>2. CASE TokenCurrent(w)
  <2> DEFINE j == wk[w].job
             n == wk[w].cursor + 1
             row == Progressed(job[j], n)
             c == [wk[w] EXCEPT !.pc = after, !.cursor = n, !.chunks = job[j].chunks + 1]
  <2>1. wk[w].pc # "idle" /\ job' = [job EXCEPT ![j] = row] /\ wk' = [wk EXCEPT ![w] = c]
    BY <1>2 DEF ReturnsChunk
  <2>2. PICK units \in Seq(Nat) : /\ applied' = [applied EXCEPT ![j] = units]
                                  /\ Len(units) = n
                                  /\ \A i \in 1..Len(units) : units[i] = i
    BY <1>2, CommittedUnit DEF ReturnsChunk
  <2>3. /\ j \in Jobs /\ job[j] \in Rows /\ job[j].state = "running" /\ n \in Nat
        /\ ~job[j].archived /\ job[j].attempt = wk[w].attempt
    BY <1>2, <2>1, HolderKnowsProgress
  <2>4. wk[w] \in Claims /\ job[j].chunks + 1 \in Nat /\ after \in Stages
    BY <2>3 DEF IInv, TypeOK, Rows, Stages
  <2> HIDE DEF n
  <2>5. /\ c \in Claims /\ c.pc = after /\ c.job = j /\ c.token = wk[w].token
        /\ c.cursor = n /\ c.attempt = wk[w].attempt
    BY <2>3, <2>4 DEF Claims
  <2>6. /\ row \in Rows /\ row.state = "running" /\ row.token = job[j].token
        /\ row.owner = job[j].owner /\ row.cursor = n
        /\ row.attempt = job[j].attempt /\ row.archived = job[j].archived
    BY <2>3, ProgressedFields, Zenon
  <2> HIDE DEF c, row
  <2>7. HolderWrite(w, j, row, c, units)
    BY <1>2, <2>1, <2>2, <2>3, <2>5, <2>6 DEF HolderWrite, Runnable
  <2> QED
    BY <2>3, <2>7, HolderWrites
<1> QED
  BY <1>1, <1>2

LEMMA ReturnsDoneStep ==
  ASSUME IInv, NEW w \in Workers, NEW after \in {"idle", "failing"}, ReturnsDone(w, after)
  PROVE  IInv'
<1>1. CASE ~Holds(w)
  BY <1>1, LeaveStep DEF ReturnsDone
<1>2. CASE Holds(w)
  <2> DEFINE j == wk[w].job
             row == Unleased(job[j], "done")
             c == IF after = "idle" THEN Idle ELSE [wk[w] EXCEPT !.pc = after]
  <2>1. /\ wk[w].pc # "idle" /\ job' = [job EXCEPT ![j] = row] /\ wk' = [wk EXCEPT ![w] = c]
        /\ TokenCurrent(w) /\ Protection[j] # "outbound_fence"
    BY <1>2 DEF ReturnsDone, Leave, Goto, Holds, TokenCurrent, Transactional
  <2>2. PICK units \in Seq(Nat) : /\ applied' = [applied EXCEPT ![j] = units]
                                  /\ Len(units) = wk[w].cursor + 1
                                  /\ \A i \in 1..Len(units) : units[i] = i
    BY <1>2, <2>1, CommittedUnit DEF ReturnsDone
  <2>3. /\ j \in Jobs /\ job[j] \in Rows /\ job[j].cursor = wk[w].cursor
        /\ wk[w].cursor \in Nat /\ ~job[j].archived
    BY <2>1, HolderKnowsProgress
  <2>4. wk[w] \in Claims /\ after \in Stages
    BY DEF IInv, TypeOK, Stages
  <2>5. /\ c \in Claims /\ c.pc = after
        /\ c.pc # "idle" => c.job = j /\ c.token = wk[w].token
    BY <2>4, IdleIsClaim DEF Claims
  <2>6. /\ row \in Rows /\ row.state = "done" /\ row.token = job[j].token
        /\ row.cursor = job[j].cursor /\ ~row.archived
    BY <2>3, UnleasedFields DEF States
  <2> HIDE DEF c, row
  <2>7. HolderWrite(w, j, row, c, units)
    BY <2>1, <2>2, <2>3, <2>5, <2>6 DEF HolderWrite, Runnable
  <2> QED
    BY <2>3, <2>7, HolderWrites
<1> QED
  BY <1>1, <1>2

-----------------------------------------------------------------------------
(* A claim.                                                                *)

\* A runnable row is nobody's, and the claim's token is newer than every other.
LEMMA ClaimStep ==
  ASSUME IInv, NEW w \in Workers, NEW j \in Jobs, Claim(w, j) PROVE IInv'
<1> DEFINE row == Leased(job[j], OwnerOf[w])
           c == Taken(j, row)
<1>1. /\ job \in [Jobs -> Rows] /\ wk \in [Workers -> Claims] /\ job[j] \in Rows
      /\ applied \in [Jobs -> Seq(Nat)]
  BY DEF IInv, TypeOK
<1>2. /\ job[j].state \in Runnable /\ job[j].attempt < MaxAttempts
      /\ job' = [job EXCEPT ![j] = row] /\ wk' = [wk EXCEPT ![w] = c]
      /\ UNCHANGED applied
  BY <1>1 DEF Claim
<1>3. /\ row \in Rows /\ row.state = "running" /\ row.owner = OwnerOf[w]
      /\ row.token = job[j].token + 1 /\ row.cursor = job[j].cursor
      /\ row.archived = job[j].archived /\ row.chunks = job[j].chunks
  BY <1>1, <1>2, LeasedFields
<1>4. job[j].token \in Nat /\ ~job[j].archived
  BY <1>1, <1>2 DEF Rows, IInv, ArchivedIsDone, Runnable
<1> HIDE DEF row
<1>5. /\ c \in Claims /\ c.pc = "claimed" /\ c.job = j /\ c.token = row.token
      /\ c.cursor = row.cursor /\ c.attempt = row.attempt
  BY <1>3 DEF Taken, Claims, Stages, Rows
<1> HIDE DEF c
<1>6. job'[j] = row /\ wk'[w] = c
  BY <1>1, <1>2
<1>7. /\ \A k \in Jobs : k # j => job'[k] = job[k]
      /\ \A v \in Workers : v # w => wk'[v] = wk[v]
  BY <1>1, <1>2
<1>8. \A v \in Workers : wk[v].pc # "idle" =>
        /\ wk[v].job \in Jobs /\ job[wk[v].job].state # "absent"
        /\ wk[v].token \in Nat /\ wk[v].token <= job[wk[v].job].token
  BY <1>1 DEF IInv, ClaimsComeFromRows, Claims
<1>9. \A v \in Workers : v # w /\ wk[v].pc # "idle" /\ wk[v].job = j =>
        wk[v].token < row.token /\ ~Holds(v)
  BY <1>2, <1>3, <1>4, <1>8 DEF Holds, Runnable
<1>10. TypeOK'
  BY <1>1, <1>2, <1>3, <1>5 DEF TypeOK
<1>11. ClaimsComeFromRows'
  <2> SUFFICES ASSUME NEW v \in Workers, wk'[v].pc # "idle"
               PROVE  /\ wk'[v].job \in Jobs
                      /\ job'[wk'[v].job].state # "absent"
                      /\ wk'[v].token <= job'[wk'[v].job].token
    BY DEF ClaimsComeFromRows
  <2>1. CASE v = w
    BY <2>1, <1>3, <1>4, <1>5, <1>6
  <2>2. CASE v # w /\ wk[v].job = j
    BY <2>2, <1>3, <1>4, <1>6, <1>7, <1>8
  <2>3. CASE v # w /\ wk[v].job # j
    BY <2>3, <1>7, <1>8
  <2> QED
    BY <2>1, <2>2, <2>3
<1>12. TokensDiffer'
  <2> SUFFICES ASSUME NEW u \in Workers, NEW v \in Workers, u # v,
                      wk'[u].pc # "idle", wk'[v].pc # "idle", wk'[u].job = wk'[v].job
               PROVE  wk'[u].token # wk'[v].token
    BY DEF TokensDiffer
  <2>0. row.token \in Nat
    BY <1>3, <1>4
  <2>1. CASE u = w
    BY <2>0, <2>1, <1>5, <1>6, <1>7, <1>8, <1>9
  <2>2. CASE v = w
    BY <2>0, <2>2, <1>5, <1>6, <1>7, <1>8, <1>9
  <2>3. CASE u # w /\ v # w
    BY <2>3, <1>7 DEF IInv, TokensDiffer
  <2> QED
    BY <2>1, <2>2, <2>3
<1>13. HolderAgrees'
  <2> SUFFICES ASSUME NEW v \in Workers, wk'[v].pc # "idle", TokenCurrent(v)'
               PROVE  /\ job'[wk'[v].job].owner = OwnerOf[v]
                      /\ job'[wk'[v].job].cursor = wk'[v].cursor
                      /\ job'[wk'[v].job].attempt = wk'[v].attempt
    BY DEF HolderAgrees
  <2>1. CASE v = w
    BY <2>1, <1>3, <1>5, <1>6
  <2>2. CASE v # w /\ wk[v].job = j
    BY <2>2, <1>3, <1>4, <1>6, <1>7, <1>8, <1>9 DEF TokenCurrent
  <2>3. CASE v # w /\ wk[v].job # j
    BY <2>3, <1>7, <1>8 DEF IInv, HolderAgrees, TokenCurrent
  <2> QED
    BY <2>1, <2>2, <2>3
<1>14. AbsentIsFresh' /\ ArchivedIsDone' /\ NoStrandedJob'
  BY <1>3, <1>4, <1>6, <1>7
     DEF IInv, AbsentIsFresh, ArchivedIsDone, NoStrandedJob, Runnable
<1>15. FencedHandlerOwnsLease'
  BY <1>5, <1>6, <1>7, <1>8, <1>9 DEF IInv, FencedHandlerOwnsLease, Holds
<1>16. ReturnedIsOutside'
  BY <1>5, <1>6, <1>7 DEF IInv, ReturnedIsOutside, Transactional
<1>17. UnitsCommittedOnce'
  BY <1>2, <1>3, <1>4, <1>6, <1>7 DEF IInv, UnitsCommittedOnce, Runnable
<1> QED
  BY <1>10, <1>11, <1>12, <1>13, <1>14, <1>15, <1>16, <1>17 DEF IInv

-----------------------------------------------------------------------------
(* The invariant.                                                          *)

LEMMA InitInv == Init => IInv
<1> SUFFICES ASSUME Init PROVE IInv
  OBVIOUS
<1>1. AbsentRow \in Rows
  BY DEF AbsentRow, Rows, States
<1>2. TypeOK
  BY <1>1, IdleIsClaim DEF Init, TypeOK
<1>3. /\ \A j \in Jobs : job[j] = AbsentRow /\ applied[j] = <<>>
      /\ \A w \in Workers : wk[w].pc = "idle"
  BY IdleIsClaim DEF Init
<1>4. /\ AbsentRow.state = "absent" /\ AbsentRow.cursor = 0 /\ ~AbsentRow.archived
  BY DEF AbsentRow
<1> QED
  BY <1>2, <1>3, <1>4
     DEF IInv, ClaimsComeFromRows, TokensDiffer, HolderAgrees, AbsentIsFresh,
         ArchivedIsDone, ReturnedIsOutside, NoStrandedJob, Runnable,
         FencedHandlerOwnsLease, UnitsCommittedOnce

LEMMA StepInv == IInv /\ [Next]_vars => IInv'
<1> SUFFICES ASSUME IInv, [Next]_vars PROVE IInv'
  OBVIOUS
<1>1. CASE UNCHANGED vars
  BY <1>1
     DEF vars, IInv, TypeOK, ClaimsComeFromRows, TokensDiffer, HolderAgrees,
         TokenCurrent, AbsentIsFresh, ArchivedIsDone, ReturnedIsOutside,
         Transactional, NoStrandedJob, FencedHandlerOwnsLease, Holds,
         UnitsCommittedOnce
<1>2. CASE \E S \in SUBSET Jobs, dueNow \in BOOLEAN : SchedulerPass(S, dueNow)
  BY <1>2, SchedulerPassStep
<1>3. ASSUME NEW j \in Jobs,
             BecomeDue(j) \/ LeaseExpires(j) \/ Reclaim(j) \/ Archive(j) \/ RequeueDead(j)
      PROVE  IInv'
  BY <1>3, BecomeDueStep, LeaseExpiresStep, ReclaimStep, ArchiveStep, RequeueDeadStep
<1>4. ASSUME NEW j \in Jobs, NEW w \in Workers, Claim(w, j) PROVE IInv'
  BY <1>4, ClaimStep
<1>5. ASSUME NEW w \in Workers, Step(w) \/ Crash(w) PROVE IInv'
  BY <1>5, RunnerSteps, EndingSteps, ReturnsChunkStep, ReturnsDoneStep DEF Step
<1> QED
  BY <1>1, <1>2, <1>3, <1>4, <1>5 DEF Next

\* The inductive invariant holds of every reachable state of the queue.
THEOREM InductiveInvariant == Spec => []IInv
BY InitInv, StepInv, PTL DEF Spec

\* Every row, claim and log keeps its type; no attempt passes max_attempts.
THEOREM TypeCorrect == Spec => []TypeOK
BY InductiveInvariant, PTL DEF IInv

\* Units of a chunked job are committed once each, in order, however many
\* runners believe they hold its lease: writeProgress and completeJob fence the
\* transaction of the work itself.
THEOREM UnitsOnce == Spec => []UnitsCommittedOnce
BY InductiveInvariant, PTL DEF IInv

\* The fencing token singles out one claim, whatever names the slots go by.
THEOREM LiveClaimUnique == Spec => []OneLiveClaim
<1>1. IInv => OneLiveClaim
  BY DEF IInv, TokensDiffer, OneLiveClaim, Current
<1> QED
  BY <1>1, InductiveInvariant, PTL

\* holdsLease keeps the lease of a fencing_token handler in force to its end.
THEOREM FencedHandlers == Spec => []FencedHandlerOwnsLease
BY InductiveInvariant, PTL DEF IInv

\* No queued or retryable row is out of attempts.
THEOREM NothingStranded == Spec => []NoStrandedJob
BY InductiveInvariant, PTL DEF IInv

\* A fenced statement of a runner that lost its claim ends nobody's.
LEMMA FencedEndsOwn ==
  ASSUME IInv, NEW w \in Workers, wk[w].pc # "idle", NEW row, Fenced(w, row), Leave(w),
         NEW j \in Jobs, job[j].state = "running", job'[j].state # "running"
  PROVE  Current(w, j) /\ wk'[w] # wk[w]
<1>1. Holds(w) /\ wk[w].job = j
  BY DEF Fenced, IInv, TypeOK
<1>2. wk'[w].pc = "idle"
  BY IdleIsClaim DEF Leave, IInv, TypeOK
<1> QED
  BY <1>1, <1>2 DEF Current, Holds

\* A claim ends by its holder's statement or after its lease expired.
THEOREM ClaimsEndByHolder == Spec => OnlyHolderEndsClaim
<1> DEFINE Ended(j) == job[j].state = "running" /\ job'[j].state # "running"
           ByHolder(j) == \E w \in Workers : Current(w, j) /\ wk'[w] # wk[w]
<1>1. ASSUME IInv, [Next]_vars, NEW j \in Jobs, Ended(j)
      PROVE  job[j].expired \/ ByHolder(j)
  <2>1. job \in [Jobs -> Rows] /\ wk \in [Workers -> Claims] /\ job # job'
    BY <1>1 DEF IInv, TypeOK
  <2>2. CASE \E S \in SUBSET Jobs, dueNow \in BOOLEAN : SchedulerPass(S, dueNow)
    BY <1>1, <2>2 DEF SchedulerPass
  <2>3. ASSUME NEW k \in Jobs,
               BecomeDue(k) \/ LeaseExpires(k) \/ Reclaim(k) \/ Archive(k) \/ RequeueDead(k)
        PROVE  job[j].expired
    <3>1. CASE k # j
      BY <1>1, <2>1, <2>3, <3>1
         DEF BecomeDue, LeaseExpires, Reclaim, Archive, RequeueDead
    <3>2. CASE k = j
      BY <1>1, <2>1, <2>3, <3>2
         DEF BecomeDue, LeaseExpires, Reclaim, Archive, RequeueDead, Runnable, Rows
    <3> QED
      BY <3>1, <3>2
  <2>4. ASSUME NEW k \in Jobs, NEW w \in Workers, Claim(w, k) PROVE FALSE
    BY <1>1, <2>1, <2>4 DEF Claim, Leased, Rows
  <2>5. ASSUME NEW w \in Workers, Step(w) \/ Crash(w) PROVE ByHolder(j)
    <3>1. CASE CompleteJob(w) \/ FailJob(w) \/ KillJob(w) \/ RequeueForNextChunk(w)
      BY <1>1, <3>1, FencedEndsOwn DEF CompleteJob, FailJob, KillJob, RequeueForNextChunk
    <3>2. ASSUME NEW after \in {"claimed", "yielding", "failing"}, ReturnsChunk(w, after)
          PROVE  FALSE
      <4>1. job[j].state = "running" => Progressed(job[j], wk[w].cursor + 1).state = "running"
        BY <2>1 DEF Progressed, Rows
      <4>2. job'[j] = job[j] \/ job'[j] = Progressed(job[j], wk[w].cursor + 1)
        BY <2>1, <3>2 DEF ReturnsChunk
      <4> QED
        BY <1>1, <4>1, <4>2
    <3>3. ASSUME NEW after \in {"idle", "failing"}, ReturnsDone(w, after)
          PROVE  ByHolder(j)
      <4>1. wk[w].job = j /\ Holds(w)
        BY <1>1, <2>1, <3>3 DEF ReturnsDone
      <4>2. wk[w].pc = "handling" /\ wk'[w].pc = after
        BY <2>1, <3>3, <4>1, IdleIsClaim DEF ReturnsDone, Leave, Goto, Claims
      <4> QED
        BY <4>1, <4>2 DEF Current, Holds
    <3>4. CASE UNCHANGED job
      BY <2>1, <3>4
    <3> QED
      BY <2>5, <3>1, <3>2, <3>3, <3>4
         DEF Step, RefuseAttempt, BeginAttempt, Throws, ReturnsOutside, Crash
  <2> QED
    BY <1>1, <2>1, <2>2, <2>3, <2>4, <2>5 DEF Next, vars
<1>2. IInv /\ [Next]_vars =>
        [\A j \in Jobs :
           job[j].state = "running" /\ job'[j].state # "running" =>
             \/ job[j].expired
             \/ \E w \in Workers : Current(w, j) /\ wk'[w] # wk[w]]_vars
  BY <1>1
<1> QED
  BY <1>2, InductiveInvariant, PTL DEF Spec, OnlyHolderEndsClaim

-----------------------------------------------------------------------------
(* The queue implements the ledger.                                        *)

Statuses == [j \in Jobs |-> StatusOf(job[j])]

\* Writing one row changes one status.
LEMMA OneStatus ==
  ASSUME IInv, NEW j \in Jobs, NEW row, job' = [job EXCEPT ![j] = row]
  PROVE  Statuses' = [Statuses EXCEPT ![j] = StatusOf(row)]
<1>1. \A k \in Jobs : job'[k] = IF k = j THEN row ELSE job[k]
  BY DEF IInv, TypeOK
<1> QED
  BY <1>1 DEF Statuses, StatusOf

\* A status that stays, stays.
LEMMA SameStatus ==
  ASSUME NEW j \in Jobs, NEW s, s = StatusOf(job[j])
  PROVE  [Statuses EXCEPT ![j] = s] = Statuses
BY DEF Statuses

LEMMA LedgerInit == Init => Ledger!Init
<1> SUFFICES ASSUME Init PROVE Ledger!Init
  OBVIOUS
<1>1. StatusOf(AbsentRow) = "absent"
  BY DEF StatusOf, AbsentRow
<1> QED
  BY <1>1 DEF Init, Ledger!Init

\* Statements on a row that no runner's fence is about: what they do to it.
LEMMA QueueStepsMap ==
  ASSUME IInv, NEW j \in Jobs,
         \/ BecomeDue(j) \/ LeaseExpires(j) \/ Reclaim(j) \/ Archive(j)
         \/ RequeueDead(j) \/ \E w \in Workers : Claim(w, j)
  PROVE  [Ledger!Next]_(Ledger!vars)
<1>1. job[j] \in Rows /\ job \in [Jobs -> Rows]
  BY DEF IInv, TypeOK
<1>2. UNCHANGED applied /\ Statuses[j] = StatusOf(job[j])
  BY DEF BecomeDue, LeaseExpires, Reclaim, Archive, RequeueDead, Claim, Statuses
<1>3. CASE \/ BecomeDue(j) \/ LeaseExpires(j) \/ Archive(j)
           \/ \E w \in Workers : Claim(w, j)
  <2>1. PICK row : job' = [job EXCEPT ![j] = row] /\ StatusOf(row) = StatusOf(job[j])
    <3>1. CASE BecomeDue(j) \/ LeaseExpires(j)
      <4>1. /\ [job[j] EXCEPT !.due = TRUE].state = job[j].state
            /\ [job[j] EXCEPT !.expired = TRUE].state = job[j].state
        BY <1>1 DEF Rows
      <4>2. \/ job' = [job EXCEPT ![j] = [job[j] EXCEPT !.due = TRUE]]
            \/ job' = [job EXCEPT ![j] = [job[j] EXCEPT !.expired = TRUE]]
        BY <1>1, <3>1 DEF BecomeDue, LeaseExpires
      <4> QED
        BY <4>1, <4>2 DEF StatusOf
    <3>2. CASE Archive(j)
      BY <1>1, <3>2, ArchivedFields DEF Archive, StatusOf
    <3>3. CASE \E w \in Workers : Claim(w, j)
      <4>1. PICK w \in Workers : Claim(w, j)
        BY <3>3
      <4>2. Leased(job[j], OwnerOf[w]).state = "running"
        BY <1>1, <4>1, LeasedFields DEF Claim
      <4> QED
        BY <4>1, <4>2 DEF Claim, StatusOf, Runnable
    <3> QED
      BY <1>3, <3>1, <3>2, <3>3
  <2>2. UNCHANGED Statuses
    BY <2>1, OneStatus, SameStatus
  <2> QED
    BY <1>2, <2>2 DEF Statuses, Ledger!vars
<1>4. CASE Reclaim(j)
  <2>1. /\ StatusOf(AfterExpiry(job[j])) \in {"dead", "open"}
        /\ StatusOf(job[j]) = "open"
    BY <1>1, <1>4, AfterExpiryFields DEF Reclaim, StatusOf
  <2>2. Statuses' = [Statuses EXCEPT ![j] = StatusOf(AfterExpiry(job[j]))]
    BY <1>4, OneStatus DEF Reclaim
  <2>3. CASE StatusOf(AfterExpiry(job[j])) = "dead"
    BY <1>2, <2>1, <2>2, <2>3 DEF Statuses, Ledger!Next, Ledger!Bury
  <2>4. CASE StatusOf(AfterExpiry(job[j])) = "open"
    BY <1>2, <2>1, <2>2, <2>4, SameStatus DEF Statuses, Ledger!vars
  <2> QED
    BY <2>1, <2>3, <2>4
<1>5. CASE RequeueDead(j)
  <2>1. StatusOf(Requeued(job[j])) = "open" /\ StatusOf(job[j]) = "dead"
    BY <1>1, <1>5, RequeuedFields DEF RequeueDead, StatusOf
  <2>2. Statuses' = [Statuses EXCEPT ![j] = "open"]
    BY <1>5, <2>1, OneStatus DEF RequeueDead
  <2> QED
    BY <1>2, <2>1, <2>2 DEF Statuses, Ledger!Next, Ledger!Revive
<1> QED
  BY <1>3, <1>4, <1>5

LEMMA SchedulerPassMaps ==
  ASSUME IInv, NEW S \in SUBSET Jobs, NEW dueNow \in BOOLEAN, SchedulerPass(S, dueNow)
  PROVE  [Ledger!Next]_(Ledger!vars)
<1> DEFINE New == {j \in S : job[j].state = "absent"}
<1>1. /\ StatusOf(NewRow(dueNow)) = "open"
      /\ \A j \in New : Statuses[j] = "absent"
  BY NewRowFields DEF StatusOf, Statuses
<1>2. /\ Statuses' = [j \in Jobs |-> IF j \in New THEN "open" ELSE Statuses[j]]
      /\ UNCHANGED applied /\ New \in SUBSET Jobs
  BY <1>1 DEF SchedulerPass, Statuses
<1> HIDE DEF New
<1> QED
  BY <1>1, <1>2 DEF Statuses, Ledger!Next, Ledger!Materialize

\* The runner that holds a job's current claim moves the job's status once.
LEMMA HolderMaps ==
  ASSUME IInv, NEW w \in Workers, wk[w].pc # "idle", Holds(w),
         NEW row, job' = [job EXCEPT ![wk[w].job] = row]
  PROVE  /\ wk[w].job \in Jobs
         /\ Statuses[wk[w].job] = "open"
         /\ Statuses' = [Statuses EXCEPT ![wk[w].job] = StatusOf(row)]
<1>1. wk[w].job \in Jobs
  BY DEF IInv, ClaimsComeFromRows
<1>2. Statuses[wk[w].job] = "open"
  BY <1>1 DEF Statuses, StatusOf, Holds
<1> QED
  BY <1>1, <1>2, OneStatus

\* A fenced ending that commits no work finishes, buries or reopens the job.
LEMMA FencedMaps ==
  ASSUME IInv, NEW w \in Workers, wk[w].pc # "idle", NEW row, Fenced(w, row),
         UNCHANGED applied, Holds(w) => row.state \in States \ {"absent"}
  PROVE  [Ledger!Next]_(Ledger!vars)
<1>1. CASE ~Holds(w)
  BY <1>1 DEF Fenced, Ledger!vars
<1>2. CASE Holds(w)
  <2> DEFINE j == wk[w].job
  <2>1. /\ j \in Jobs /\ Statuses[j] = "open"
        /\ Statuses' = [Statuses EXCEPT ![j] = StatusOf(row)]
    BY <1>2, HolderMaps DEF Fenced
  <2>2. StatusOf(row) \in {"dead", "done", "open"}
    BY <1>2 DEF StatusOf, States
  <2> HIDE DEF j
  <2>3. CASE StatusOf(row) = "open"
    <3>1. Statuses' = Statuses
      BY <2>1, <2>3 DEF Statuses
    <3> QED
      BY <3>1 DEF Statuses, Ledger!vars
  <2>4. CASE StatusOf(row) = "dead"
    BY <2>1, <2>4 DEF Statuses, Ledger!Next, Ledger!Bury
  <2>5. CASE StatusOf(row) = "done"
    BY <2>1, <2>5 DEF Statuses, Ledger!Next, Ledger!FinishOutside
  <2> QED
    BY <2>2, <2>3, <2>4, <2>5
<1> QED
  BY <1>1, <1>2

LEMMA EndingMaps ==
  ASSUME IInv, NEW w \in Workers,
         CompleteJob(w) \/ FailJob(w) \/ KillJob(w) \/ RequeueForNextChunk(w)
  PROVE  [Ledger!Next]_(Ledger!vars)
<1>1. Holds(w) /\ wk[w].pc # "idle" =>
        /\ job[wk[w].job] \in Rows
        /\ wk[w].attempt \in Nat
        /\ job[wk[w].job].attempt = wk[w].attempt
  BY HolderKnowsProgress DEF Holds, TokenCurrent, Rows
<1>2. {"queued", "dead", "done", "retryable"} \subseteq States \ {"absent"}
  BY DEF States
<1>3. CASE CompleteJob(w)
  BY <1>1, <1>2, <1>3, UnleasedFields, FencedMaps DEF CompleteJob
<1>4. CASE FailJob(w)
  BY <1>1, <1>2, <1>4, AfterFailureFields, FencedMaps DEF FailJob
<1>5. CASE KillJob(w)
  BY <1>1, <1>2, <1>5, UnleasedFields, FencedMaps DEF KillJob
<1>6. CASE RequeueForNextChunk(w)
  BY <1>1, <1>2, <1>6, YieldedFields, FencedMaps DEF RequeueForNextChunk
<1> QED
  BY <1>3, <1>4, <1>5, <1>6

LEMMA ReturnsChunkMaps ==
  ASSUME IInv, NEW w \in Workers, NEW after \in {"claimed", "yielding", "failing"},
         ReturnsChunk(w, after)
  PROVE  [Ledger!Next]_(Ledger!vars)
<1>1. CASE ~TokenCurrent(w)
  BY <1>1 DEF ReturnsChunk, Ledger!vars
<1>2. CASE TokenCurrent(w)
  <2> DEFINE j == wk[w].job
             row == Progressed(job[j], wk[w].cursor + 1)
  <2>1. /\ wk[w].pc # "idle" /\ job' = [job EXCEPT ![j] = row]
        /\ CommitUnit(w)
    BY <1>2 DEF ReturnsChunk
  <2>2. /\ j \in Jobs /\ job[j] \in Rows /\ job[j].state = "running"
        /\ wk[w].cursor + 1 \in Nat
    BY <1>2, <2>1, HolderKnowsProgress
  <2>3. row.state = job[j].state
    BY <2>2, ProgressedFields
  <2> HIDE DEF row
  <2>4. Statuses' = Statuses /\ Statuses[j] = "open"
    BY <2>1, <2>2, <2>3, OneStatus, SameStatus DEF StatusOf, Statuses
  <2>5. applied' = [applied EXCEPT ![j] = Append(applied[j], Len(applied[j]) + 1)]
    BY <1>2, <2>1, CommittedUnit
  <2> QED
    BY <2>2, <2>4, <2>5 DEF Statuses, Ledger!Next, Ledger!Work, Ledger!NextUnit
<1> QED
  BY <1>1, <1>2

LEMMA ReturnsDoneMaps ==
  ASSUME IInv, NEW w \in Workers, NEW after \in {"idle", "failing"}, ReturnsDone(w, after)
  PROVE  [Ledger!Next]_(Ledger!vars)
<1>1. CASE ~Holds(w)
  BY <1>1 DEF ReturnsDone, Ledger!vars
<1>2. CASE Holds(w)
  <2> DEFINE j == wk[w].job
             row == Unleased(job[j], "done")
  <2>1. /\ wk[w].pc # "idle" /\ job' = [job EXCEPT ![j] = row]
        /\ CommitUnit(w) /\ TokenCurrent(w)
    BY <1>2 DEF ReturnsDone, Holds, TokenCurrent
  <2>2. job[j] \in Rows
    BY <2>1, HolderKnowsProgress
  <2>3. row.state = "done"
    BY <2>2, UnleasedFields DEF States
  <2> HIDE DEF row
  <2>4. /\ j \in Jobs /\ Statuses[j] = "open"
        /\ Statuses' = [Statuses EXCEPT ![j] = "done"]
    BY <1>2, <2>1, <2>3, HolderMaps DEF StatusOf
  <2>5. applied' = [applied EXCEPT ![j] = Append(applied[j], Len(applied[j]) + 1)]
    BY <2>1, CommittedUnit
  <2> QED
    BY <2>4, <2>5 DEF Statuses, Ledger!Next, Ledger!Finish, Ledger!NextUnit
<1> QED
  BY <1>1, <1>2

\* The queue, its runners and the scheduler pass implement the ledger of units:
\* work commits once and in order, a finished job stays finished, and a buried
\* one comes back only by the requeue, at the unit it had reached.
THEOREM QueueImplementsLedger == Spec => RefinesLedger
<1>1. IInv /\ [Next]_vars => [Ledger!Next]_(Ledger!vars)
  <2> SUFFICES ASSUME IInv, [Next]_vars PROVE [Ledger!Next]_(Ledger!vars)
    OBVIOUS
  <2>1. CASE UNCHANGED <<job, applied>>
    BY <2>1 DEF Ledger!vars
  <2>2. CASE \E S \in SUBSET Jobs, dueNow \in BOOLEAN : SchedulerPass(S, dueNow)
    BY <2>2, SchedulerPassMaps
  <2>3. ASSUME NEW j \in Jobs,
               \/ BecomeDue(j) \/ LeaseExpires(j) \/ Reclaim(j) \/ Archive(j)
               \/ RequeueDead(j) \/ \E w \in Workers : Claim(w, j)
        PROVE  [Ledger!Next]_(Ledger!vars)
    BY <2>3, QueueStepsMap
  <2>4. ASSUME NEW w \in Workers, Step(w) \/ Crash(w)
        PROVE  [Ledger!Next]_(Ledger!vars)
    BY <2>1, <2>4, EndingMaps, ReturnsChunkMaps, ReturnsDoneMaps
       DEF Step, RefuseAttempt, BeginAttempt, Throws, ReturnsOutside, Crash
  <2> QED
    BY <2>1, <2>2, <2>3, <2>4 DEF Next, vars
<1> QED
  BY <1>1, LedgerInit, InductiveInvariant, PTL DEF Spec, RefinesLedger, Ledger!Spec

-----------------------------------------------------------------------------
(* The runner slots: Slots says which lane each of them polls, apart from  *)
(* the rows the lanes hold.                                                *)

\* What ties the claims of a run to the streak of its slot. Between two polls the streak
\* has counted every claim of the run; a poll that was not flipped started below the
\* limit; a flipped one, or a bulk claim, has ended the run.
LaneMemory(s) ==
  /\ slot[s].pc = "idle" => slot[s].run <= slot[s].streak
  /\ slot[s].pc # "idle" /\ Flexible(s) /\ ~slot[s].flipped =>
       slot[s].streak < UrgentStreakLimit
  /\ slot[s].pc = "claiming" =>
       /\ slot[s].claimed = "none"
       /\ slot[s].run <= slot[s].streak
       /\ slot[s].flipped => slot[s].run = 0
  /\ slot[s].pc = "working" =>
       /\ slot[s].claimed \in Classes
       /\ slot[s].run <= slot[s].streak + 1
       /\ slot[s].flipped \/ slot[s].claimed = "bulk" => slot[s].run = 0
  /\ ~Flexible(s) => slot[s].run = 0

LaneInv == LanesTypeOK /\ \A s \in Slots : LaneMemory(s)

-----------------------------------------------------------------------------
(* The lanes of a poll.                                                    *)

LaneLists == {<<>>, <<"urgent">>, <<"bulk">>, <<"urgent", "bulk">>, <<"bulk", "urgent">>}

\* Every poll starts with a list of lanes (slotClasses, order).
LEMMA LanesOfPoll ==
  ASSUME NEW s \in Slots
  PROVE SlotClasses(s) \in LaneLists /\ BulkFirst \in LaneLists
BY DEF SlotClasses, UrgentFirst, BulkFirst, LaneLists

\* A poll that tried a lane has a lane to try, and a list of lanes left.
LEMMA LanesLeft ==
  ASSUME NEW l \in LaneLists, l # <<>>
  PROVE Head(l) \in Classes /\ Tail(l) \in LaneLists
<1>1. CASE l = <<"urgent">>
  <2>1. Tail(l) = <<>>
    BY <1>1
  <2> QED BY <1>1, <2>1 DEF LaneLists, Classes
<1>2. CASE l = <<"bulk">>
  <2>1. Tail(l) = <<>>
    BY <1>2
  <2> QED BY <1>2, <2>1 DEF LaneLists, Classes
<1>3. CASE l = <<"urgent", "bulk">>
  <2>1. Tail(l) = <<"bulk">>
    BY <1>3
  <2> QED BY <1>3, <2>1 DEF LaneLists, Classes
<1>4. CASE l = <<"bulk", "urgent">>
  <2>1. Tail(l) = <<"urgent">>
    BY <1>4
  <2> QED BY <1>4, <2>1 DEF LaneLists, Classes
<1> QED BY <1>1, <1>2, <1>3, <1>4 DEF LaneLists

\* Typing of one slot's row after a step.
LEMMA LaneTyped ==
  ASSUME LanesTypeOK, NEW s \in Slots, NEW r \in SlotRows,
         slot' = [slot EXCEPT ![s] = r]
  PROVE slot' \in [Slots -> SlotRows]
BY DEF LanesTypeOK

\* The other slots keep their memory.
LEMMA OtherLanesKeep ==
  ASSUME LanesTypeOK, NEW s \in Slots, NEW r, slot' = [slot EXCEPT ![s] = r],
         \A t \in Slots : LaneMemory(t), LaneMemory(s)'
  PROVE \A t \in Slots : LaneMemory(t)'
<1> SUFFICES ASSUME NEW t \in Slots, t # s PROVE LaneMemory(t)'
  OBVIOUS
<1>1. slot'[t] = slot[t]
  BY DEF LanesTypeOK
<1>2. LaneMemory(t)
  OBVIOUS
<1> QED BY <1>1, <1>2 DEF LaneMemory, Flexible, SlotClasses

-----------------------------------------------------------------------------
LEMMA LaneInit == LanesInit => LaneInv
<1> SUFFICES ASSUME LanesInit PROVE LaneInv
  OBVIOUS
<1> USE LanesAssumption
<1>1. LanesTypeOK
  BY DEF LanesInit, LanesTypeOK, SlotRows, Classes
<1>2. ASSUME NEW s \in Slots PROVE LaneMemory(s)
  BY DEF LanesInit, LaneMemory
<1> QED BY <1>1, <1>2 DEF LaneInv

\* lanes.order().
LEMMA LaneOrderStep ==
  ASSUME LaneInv, NEW s \in Slots, Order(s)
  PROVE LaneInv'
<1> USE LanesAssumption
<1>1. LanesTypeOK /\ LaneMemory(s) /\ slot[s] \in SlotRows /\ slot[s].pc = "idle"
  BY DEF LaneInv, LanesTypeOK, Order
<1> DEFINE r == [slot[s] EXCEPT !.pc = "claiming", !.claimed = "none", !.flipped = Flips(s),
                   !.lanes = IF Flips(s) THEN BulkFirst ELSE SlotClasses(s),
                   !.run = IF Flips(s) THEN 0 ELSE slot[s].run]
<1>2. slot' = [slot EXCEPT ![s] = r] /\ waiting' = waiting
  BY DEF Order
<1>3. Flips(s) \in BOOLEAN
  BY <1>1 DEF Flips, Flexible, SlotRows
<1>4. r \in SlotRows
  <2> DEFINE l == IF Flips(s) THEN BulkFirst ELSE SlotClasses(s)
             n == IF Flips(s) THEN 0 ELSE slot[s].run
  <2>1. l \in LaneLists
    BY LanesOfPoll
  <2>2. n \in 0..(UrgentStreakLimit + 1)
    BY <1>1 DEF SlotRows
  <2> HIDE DEF l, n
  <2>3. [slot[s] EXCEPT !.pc = "claiming", !.claimed = "none", !.flipped = Flips(s),
                       !.lanes = l, !.run = n] \in SlotRows
    BY <1>1, <1>3, <2>1, <2>2, Zenon DEF SlotRows, LaneLists
  <2> QED BY <2>3 DEF l, n
<1>5. slot'[s] = r
  BY <1>1, <1>2 DEF LanesTypeOK
<1>6. LaneMemory(s)'
  <2>1. r.pc = "claiming" /\ r.claimed = "none" /\ r.flipped = Flips(s) /\ r.streak = slot[s].streak
    BY <1>1, Zenon DEF SlotRows
  <2>2. r.run = IF Flips(s) THEN 0 ELSE slot[s].run
    BY <1>1, Zenon DEF SlotRows
  <2> HIDE DEF r
  <2>3. slot[s].run <= slot[s].streak /\ (~Flexible(s) => slot[s].run = 0)
    BY <1>1 DEF LaneMemory
  <2>4. r.run <= r.streak /\ (r.flipped => r.run = 0) /\ (~Flexible(s) => r.run = 0)
    BY <1>1, <1>3, <2>1, <2>2, <2>3 DEF SlotRows
  <2>5. ASSUME Flexible(s), ~r.flipped PROVE r.streak < UrgentStreakLimit
    <3>1. ~Flips(s)
      BY <2>1, <2>5, Zenon
    <3>2. ~(slot[s].streak >= UrgentStreakLimit)
      BY <3>1, <2>5, Zenon DEF Flips
    <3>3. slot[s].streak \in 0..UrgentStreakLimit
      BY <1>1 DEF SlotRows
    <3> QED BY <2>1, <3>2, <3>3
  <2> QED BY <1>5, <2>1, <2>4, <2>5 DEF LaneMemory, Flexible, SlotClasses
<1>7. LanesTypeOK'
  BY <1>1, <1>2, <1>4, LaneTyped DEF LanesTypeOK
<1> HIDE DEF r
<1> QED BY <1>1, <1>2, <1>6, <1>7, OtherLanesKeep DEF LaneInv

\* claimJobs for one lane: a claim, or the next lane.
LEMMA LaneClaimStep ==
  ASSUME LaneInv, NEW s \in Slots, ClaimLane(s)
  PROVE LaneInv'
<1> USE LanesAssumption
<1>1. LanesTypeOK /\ LaneMemory(s) /\ slot[s] \in SlotRows
  BY DEF LaneInv, LanesTypeOK
<1>2. slot[s].pc = "claiming" /\ slot[s].lanes \in LaneLists /\ slot[s].lanes # <<>>
  BY <1>1 DEF ClaimLane, SlotRows, LaneLists
<1> DEFINE class == Head(slot[s].lanes)
<1>3. class \in Classes /\ Tail(slot[s].lanes) \in LaneLists
  BY <1>2, LanesLeft
<1>4. CASE waiting[class] > 0
  <2> DEFINE r == [slot[s] EXCEPT !.pc = "working", !.claimed = class, !.lanes = <<>>,
                     !.run = RunAfter(s, class)]
  <2>1. slot' = [slot EXCEPT ![s] = r] /\ waiting' = [waiting EXCEPT ![class] = @ - 1]
    BY <1>4 DEF ClaimLane
  <2>2. /\ RunAfter(s, class) \in 0..(UrgentStreakLimit + 1)
        /\ RunAfter(s, class) <= slot[s].streak + 1
        /\ slot[s].flipped \/ class = "bulk" \/ ~Flexible(s) => RunAfter(s, class) = 0
    BY <1>1, <1>2 DEF RunAfter, LaneMemory, SlotRows
  <2>3. r \in SlotRows
    BY <1>1, <1>3, <2>2 DEF SlotRows
  <2>4. waiting' \in [Classes -> 0..MaxWaiting]
    BY <1>1, <1>3, <1>4, <2>1 DEF LanesTypeOK
  <2>5. slot'[s] = r
    BY <1>1, <2>1 DEF LanesTypeOK
  <2>6. LaneMemory(s)'
    BY <1>1, <1>2, <1>3, <2>2, <2>5 DEF LaneMemory, Flexible, SlotClasses, SlotRows
  <2>7. LanesTypeOK'
    BY <1>1, <2>1, <2>3, <2>4, LaneTyped DEF LanesTypeOK
  <2> HIDE DEF r
  <2> QED BY <1>1, <2>1, <2>6, <2>7, OtherLanesKeep DEF LaneInv
<1>5. CASE ~(waiting[class] > 0)
  <2> DEFINE r == [slot[s] EXCEPT !.lanes = Tail(slot[s].lanes)]
  <2>1. slot' = [slot EXCEPT ![s] = r] /\ waiting' = waiting
    BY <1>5 DEF ClaimLane
  <2>2. r \in SlotRows
    BY <1>1, <1>3, Zenon DEF SlotRows, LaneLists
  <2>3. slot'[s] = r
    BY <1>1, <2>1 DEF LanesTypeOK
  <2>4. LaneMemory(s)'
    BY <1>1, <1>2, <2>3 DEF LaneMemory, Flexible, SlotClasses, SlotRows
  <2>5. LanesTypeOK'
    BY <1>1, <2>1, <2>2, LaneTyped DEF LanesTypeOK
  <2> HIDE DEF r
  <2> QED BY <1>1, <2>1, <2>4, <2>5, OtherLanesKeep DEF LaneInv
<1> QED BY <1>4, <1>5

\* lanes.record().
LEMMA LaneRecordStep ==
  ASSUME LaneInv, NEW s \in Slots, Record(s)
  PROVE LaneInv'
<1> USE LanesAssumption
<1>1. LanesTypeOK /\ LaneMemory(s) /\ slot[s] \in SlotRows
  BY DEF LaneInv, LanesTypeOK
<1>2. slot[s].pc \in {"claiming", "working"}
  BY DEF Record
<1> DEFINE r == [slot[s] EXCEPT !.pc = "idle", !.streak = Streak(s),
                   !.run = IF slot[s].claimed = "none" THEN 0 ELSE slot[s].run]
<1>3. slot' = [slot EXCEPT ![s] = r] /\ waiting' = waiting
  BY DEF Record
<1>4. Streak(s) \in 0..UrgentStreakLimit
  BY <1>1, <1>2 DEF Streak, LaneMemory, SlotRows
<1>5. r \in SlotRows
  <2> DEFINE n == IF slot[s].claimed = "none" THEN 0 ELSE slot[s].run
  <2>1. n \in 0..(UrgentStreakLimit + 1)
    BY <1>1 DEF SlotRows
  <2> HIDE DEF n
  <2>2. [slot[s] EXCEPT !.pc = "idle", !.streak = Streak(s), !.run = n] \in SlotRows
    BY <1>1, <1>4, <2>1, Zenon DEF SlotRows
  <2> QED BY <2>2 DEF n
<1>6. slot'[s] = r
  BY <1>1, <1>3 DEF LanesTypeOK
<1>7. r.run <= Streak(s) /\ (~Flexible(s) => r.run = 0)
  BY <1>1, <1>2 DEF Streak, LaneMemory, SlotRows, Classes
<1>8. LaneMemory(s)'
  BY <1>1, <1>5, <1>6, <1>7 DEF LaneMemory, Flexible, SlotClasses, SlotRows
<1>9. LanesTypeOK'
  BY <1>1, <1>3, <1>5, LaneTyped DEF LanesTypeOK
<1> HIDE DEF r
<1> QED BY <1>1, <1>3, <1>8, <1>9, OtherLanesKeep DEF LaneInv

\* A poll that throws forgets its run, never its streak.
LEMMA LaneThrowStep ==
  ASSUME LaneInv, NEW s \in Slots, Throw(s)
  PROVE LaneInv'
<1> USE LanesAssumption
<1>1. LanesTypeOK /\ LaneMemory(s) /\ slot[s] \in SlotRows
  BY DEF LaneInv, LanesTypeOK
<1> DEFINE r == [slot[s] EXCEPT !.pc = "idle", !.lanes = <<>>, !.run = 0]
<1>2. slot' = [slot EXCEPT ![s] = r] /\ waiting' = waiting
  BY <1>1 DEF Throw, LanesTypeOK
<1>3. r \in SlotRows
  <2>1. 0 \in 0..(UrgentStreakLimit + 1)
    OBVIOUS
  <2> QED BY <1>1, <2>1, Zenon DEF SlotRows
<1>4. slot'[s] = r
  BY <1>1, <1>2 DEF LanesTypeOK
<1>5. LaneMemory(s)'
  BY <1>1, <1>4 DEF LaneMemory, Flexible, SlotClasses, SlotRows
<1>6. LanesTypeOK'
  BY <1>1, <1>2, <1>3, LaneTyped DEF LanesTypeOK
<1> HIDE DEF r
<1> QED BY <1>1, <1>2, <1>5, <1>6, OtherLanesKeep DEF LaneInv

LEMMA LaneArriveStep ==
  ASSUME LaneInv, NEW class \in Classes, Arrive(class)
  PROVE LaneInv'
<1>1. LanesTypeOK'
  BY LanesAssumption DEF LaneInv, LanesTypeOK, Arrive
<1>2. slot' = slot
  BY DEF Arrive
<1>3. ASSUME NEW s \in Slots PROVE LaneMemory(s)'
  BY <1>2 DEF LaneInv, LaneMemory, Flexible, SlotClasses
<1> QED BY <1>1, <1>3 DEF LaneInv

LEMMA LaneStutterStep ==
  ASSUME LaneInv, UNCHANGED laneVars
  PROVE LaneInv'
BY DEF LaneInv, LanesTypeOK, LaneMemory, Flexible, SlotClasses, laneVars

\* Every step of every slot keeps the invariant.
LEMMA LaneNextStep == LaneInv /\ [LanesNext]_laneVars => LaneInv'
BY LaneOrderStep, LaneClaimStep, LaneRecordStep, LaneThrowStep, LaneArriveStep,
   LaneStutterStep DEF LanesNext

-----------------------------------------------------------------------------
\* The lane memory keeps its type, the streak below its limit included
\* (createSlotLanes), for any number of slots.
THEOREM LaneMemoryTyped == LanesSpec => []LanesTypeOK
<1>1. LaneInv => LanesTypeOK
  BY DEF LaneInv
<1> QED BY <1>1, LaneInit, LaneNextStep, PTL DEF LanesSpec

\* A flexible slot never claims urgent work more than URGENT_STREAK_LIMIT times in a
\* row before it looks at bulk first (record and order of slots.ts), whichever polls
\* of whichever slots throw.
THEOREM UrgentBounded == LanesSpec => []UrgentRunsBounded
<1>1. ASSUME LaneInv, NEW s \in Slots, Flexible(s)
      PROVE slot[s].run <= UrgentStreakLimit
  <2>1. slot[s] \in SlotRows /\ LaneMemory(s)
    BY <1>1 DEF LaneInv, LanesTypeOK
  <2> QED BY <1>1, <2>1, LanesAssumption DEF LaneMemory, SlotRows
<1>2. LaneInv => UrgentRunsBounded
  BY <1>1 DEF UrgentRunsBounded
<1> QED BY <1>2, LaneInit, LaneNextStep, PTL DEF LanesSpec
=============================================================================
