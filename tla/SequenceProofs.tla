--------------------------- MODULE SequenceProofs ---------------------------
(***************************************************************************)
(* What holds of an enrollment of any length, with any channels, workers   *)
(* and bounds.                                                             *)
(***************************************************************************)
EXTENDS Sequence, TLAPS

USE SequenceAssumption, NullAssumption

-----------------------------------------------------------------------------
(* The inductive invariant.                                                *)

\* A step is over, and an email among them by a verdict that it went out.
Done(s) ==
  /\ Has(s, {"completed"})
  /\ Channel[s] = "email" => step[s].result = "sent" /\ WentOut(fence[s])

\* A step has a successor only when it is done.
Ordered == \A s \in Steps : s > 1 /\ step[s] # None => Done(s - 1)

\* A job looks at a step that is there, and may be claimed once more while it is queued.
JobSound(s) ==
  /\ job[s].state = "queued" => job[s].attempts < MaxAttempts
  /\ job[s].state # "none" => step[s] # None

\* A worker holds a step that is there. In completeStepExecution it has read of the fence
\* that it is sent, and past the update the row says so.
PlaceSound(w) ==
  LET s == at[w].step IN
  /\ at[w].pc # "idle" => s \in Steps /\ step[s] # None
  /\ at[w].pc \in {"completing", "marking", "advancing", "closing"} => Sent(fence[s])
  /\ at[w].pc \in {"advancing", "closing"} => step[s].state = "completed" /\ step[s].result = "sent"

IInv ==
  /\ TypeOK
  /\ Ordered
  /\ \A s \in Steps : JobSound(s)
  /\ \A w \in Workers : PlaceSound(w)

LEMMA InitInv == Init => IInv
<1> SUFFICES ASSUME Init PROVE IInv
  OBVIOUS
<1>1. NewRow \in Rows /\ Idle \in Places
  BY DEF NewRow, Rows, Idle, Places
<1>2. [state |-> "absent", answer |-> None, left |-> FALSE] \in Fences
  BY DEF Fences
<1>3. [state |-> "none", holder |-> None, attempts |-> 0] \in Jobs
  BY DEF Jobs
<1>4. TypeOK
  <2>1. step \in [Steps -> Rows \cup {None}]
    BY <1>1 DEF Init
  <2>2. faults \in 0..MaxFaults /\ waits \in 0..MaxWaits
    BY DEF Init
  <2> QED BY <1>1, <1>2, <1>3, <2>1, <2>2 DEF Init, TypeOK
<1>5. Ordered
  BY DEF Init, Ordered, Steps
<1>6. \A s \in Steps : JobSound(s)
  BY DEF Init, JobSound
<1>7. \A w \in Workers : PlaceSound(w)
  BY DEF Init, PlaceSound, Idle
<1> QED BY <1>4, <1>5, <1>6, <1>7 DEF IInv

-----------------------------------------------------------------------------
(* What a step may do to a row, a fence, a job and a worker.               *)

\* A row stays, is written but stays completed once it is, or follows a step that is done.
RowKept(s) ==
  \/ step'[s] = step[s]
  \/ /\ step[s] # None /\ step'[s] # None
     /\ step[s].state = "completed" => step'[s].state = "completed"
     /\ step[s].state = "completed" /\ step[s].result = "sent" => step'[s].result = "sent"
  \/ step[s] = None /\ s > 1 /\ Done(s - 1)'

\* What was sent stays sent, and what the admin said stays said.
FenceKept(s) ==
  /\ Sent(fence[s]) => Sent(fence[s])'
  /\ WentOut(fence[s]) => WentOut(fence[s])'

JobKept(s) ==
  /\ job'[s].state = "queued" => job'[s].attempts < MaxAttempts
  /\ job'[s].state # "none" => job[s].state # "none" \/ step[s] # None

LEMMA StepKeeps ==
  ASSUME IInv, TypeOK',
         \A s \in Steps : RowKept(s) /\ FenceKept(s) /\ JobKept(s),
         \A w \in Workers : at'[w] = at[w] \/ PlaceSound(w)'
  PROVE  IInv'
<1>1. \A s \in Steps : step[s] # None => step'[s] # None
  BY DEF RowKept
<1>2. \A s \in Steps : JobSound(s)'
  BY <1>1 DEF IInv, JobSound, JobKept
<1>3. \A s \in Steps : Done(s) => Done(s)'
  <2> SUFFICES ASSUME NEW s \in Steps, Done(s) PROVE Done(s)'
    OBVIOUS
  <2>1. step[s] # None /\ step[s].state = "completed" /\ RowKept(s) /\ FenceKept(s)
    BY DEF Done, Has
  <2>2. step'[s] # None /\ step'[s].state = "completed"
    BY <2>1 DEF RowKept
  <2>3. Channel[s] = "email" => step'[s].result = "sent" /\ WentOut(fence[s])'
    BY <2>1 DEF RowKept, FenceKept, Done
  <2> QED BY <2>2, <2>3 DEF Done, Has
<1>4. Ordered'
  <2> SUFFICES ASSUME NEW s \in Steps, s > 1, step'[s] # None PROVE Done(s - 1)'
    BY DEF Ordered
  <2>1. s - 1 \in Steps
    BY DEF Steps
  <2>2. CASE step[s] # None
    BY <1>3, <2>1, <2>2 DEF IInv, Ordered
  <2>3. CASE step[s] = None
    BY <2>3 DEF RowKept
  <2> QED BY <2>2, <2>3
<1>5. ASSUME NEW w \in Workers, at'[w] = at[w] PROVE PlaceSound(w)'
  <2> DEFINE s == at[w].step
  <2>1. PlaceSound(w)
    BY DEF IInv
  <2>2. CASE at[w].pc = "idle"
    BY <1>5, <2>2 DEF PlaceSound
  <2>3. CASE at[w].pc # "idle"
    <3>1. s \in Steps /\ step[s] # None /\ step'[s] # None /\ RowKept(s) /\ FenceKept(s)
      BY <1>1, <2>1, <2>3 DEF PlaceSound
    <3>2. at'[w].step = s /\ at'[w].pc = at[w].pc
      BY <1>5
    <3>3. at[w].pc \in {"completing", "marking", "advancing", "closing"} => Sent(fence'[s])
      BY <2>1, <3>1 DEF PlaceSound, FenceKept, Sent
    <3>4. at[w].pc \in {"advancing", "closing"} =>
            step'[s].state = "completed" /\ step'[s].result = "sent"
      BY <2>1, <3>1 DEF PlaceSound, RowKept
    <3> HIDE DEF s
    <3> QED BY <3>1, <3>2, <3>3, <3>4 DEF PlaceSound, Sent
  <2> QED BY <2>2, <2>3
<1> QED BY <1>2, <1>4, <1>5 DEF IInv

RowsKept == step' \in [Steps -> Rows \cup {None}] /\ \A s \in Steps : RowKept(s)

FencesKept == fence' \in [Steps -> Fences] /\ \A s \in Steps : FenceKept(s)

FlagsKept ==
  /\ ended' \in {None, "completed", "stopped"}
  /\ blocked' \in BOOLEAN /\ allowed' \in BOOLEAN
  /\ faults' \in 0..MaxFaults /\ waits' \in 0..MaxWaits

\* One more hold or refusal, within the bound; or none.
LEMMA FlagsOf ==
  ASSUME IInv, ended' \in {ended, "completed", "stopped"},
         blocked' \in {blocked, TRUE, FALSE}, allowed' \in {allowed, TRUE, FALSE},
         UNCHANGED faults \/ (faults < MaxFaults /\ faults' = faults + 1),
         UNCHANGED waits \/ (waits < MaxWaits /\ waits' = waits + 1)
  PROVE  FlagsKept
<1>1. TypeOK
  BY DEF IInv
<1>2. faults' \in 0..MaxFaults
  BY <1>1 DEF TypeOK
<1>3. waits' \in 0..MaxWaits
  BY <1>1 DEF TypeOK
<1>4. blocked' \in BOOLEAN /\ allowed' \in BOOLEAN
  BY <1>1 DEF TypeOK
<1> QED BY <1>1, <1>2, <1>3, <1>4 DEF TypeOK, FlagsKept

LEMMA RowsUnchanged ==
  ASSUME IInv, UNCHANGED step
  PROVE  RowsKept
BY DEF IInv, TypeOK, RowsKept, RowKept

LEMMA FencesUnchanged ==
  ASSUME IInv, UNCHANGED fence
  PROVE  FencesKept
BY DEF IInv, TypeOK, FencesKept, FenceKept, Sent, WentOut

\* One row is written.
LEMMA OneRow ==
  ASSUME IInv, NEW s \in Steps, NEW r \in Rows, step[s] # None, step' = [step EXCEPT ![s] = r],
         step[s].state = "completed" =>
           r.state = "completed" /\ (step[s].result = "sent" => r.result = "sent")
  PROVE  RowsKept
<1>1. step \in [Steps -> Rows \cup {None}]
  BY DEF IInv, TypeOK
<1>2. /\ step' \in [Steps -> Rows \cup {None}] /\ step'[s] = r
      /\ \A t \in Steps \ {s} : step'[t] = step[t]
  BY <1>1
<1>3. r # None
  OBVIOUS
<1> QED BY <1>2, <1>3 DEF RowsKept, RowKept

LEMMA WrittenRow ==
  ASSUME NEW r \in Rows, NEW state \in {"pending", "held", "dispatched", "completed", "cancelled"}
  PROVE  /\ Written(r, state) \in Rows /\ Written(r, state).state = state
         /\ Written(r, state).result = r.result /\ Written(r, state).ripe = r.ripe
<1>1. r.ripe \in BOOLEAN
  BY DEF Rows
<1> QED BY <1>1 DEF Written, Rows

LEMMA RipeRow ==
  ASSUME NEW r \in Rows, NEW ripe \in BOOLEAN
  PROVE  /\ [r EXCEPT !.ripe = ripe] \in Rows /\ [r EXCEPT !.ripe = ripe].state = r.state
         /\ [r EXCEPT !.ripe = ripe].result = r.result
BY DEF Rows

LEMMA FinishedRow ==
  ASSUME NEW r \in Rows, NEW result \in {"sent", "skipped", "logged"}
  PROVE  /\ Finished(r, result) \in Rows /\ Finished(r, result).state = "completed"
         /\ Finished(r, result).result = result
<1> DEFINE q == Written(r, "completed")
<1>1. q \in Rows /\ q.state = "completed"
  BY WrittenRow
<1>2. Finished(r, result) = [q EXCEPT !.result = result]
  BY DEF Finished
<1> HIDE DEF q
<1> QED BY <1>1, <1>2 DEF Rows

\* The handler returns.
LEMMA FinishKeeps ==
  ASSUME IInv, NEW w \in Workers, at[w].pc # "idle", Finish(w), RowsKept, FencesKept, FlagsKept
  PROVE  IInv'
<1> DEFINE s == at[w].step
<1>1. TypeOK /\ s \in Steps /\ \A t \in Steps : JobSound(t)
  BY DEF IInv, PlaceSound
<1>2. at' = [at EXCEPT ![w] = Idle] /\ Idle \in Places
  BY DEF Finish, Idle, Places
<1>3. /\ at' \in [Workers -> Places] /\ at'[w] = Idle
      /\ \A v \in Workers \ {w} : at'[v] = at[v]
  BY <1>1, <1>2 DEF TypeOK
<1>4. job' \in [Steps -> Jobs] /\ \A t \in Steps : JobKept(t)
  <2>1. CASE job' = job
    BY <1>1, <2>1 DEF TypeOK, JobSound, JobKept
  <2>2. CASE job' # job
    <3> DEFINE j == [job[s] EXCEPT !.state = "over", !.holder = None]
    <3>1. job \in [Steps -> Jobs] /\ job[s] \in Jobs /\ job[s].state = "running"
      BY <1>1, <2>2 DEF TypeOK, Finish
    <3>2. j \in Jobs /\ j.state = "over"
      BY <3>1 DEF Jobs
    <3>3. job' = [job EXCEPT ![s] = j]
      BY <2>2, <3>1 DEF Finish
    <3> HIDE DEF j, s
    <3>4. job' \in [Steps -> Jobs] /\ job'[s] = j /\ \A t \in Steps \ {s} : job'[t] = job[t]
      BY <1>1, <3>1, <3>2, <3>3
    <3> QED BY <1>1, <3>1, <3>2, <3>4 DEF JobSound, JobKept
  <2> QED BY <2>1, <2>2
<1>5. PlaceSound(w)'
  BY <1>3 DEF PlaceSound, Idle
<1>6. TypeOK'
  BY <1>3, <1>4 DEF TypeOK, RowsKept, FencesKept, FlagsKept
<1> QED BY <1>3, <1>4, <1>5, <1>6, StepKeeps DEF RowsKept, FencesKept

\* The worker goes on.
LEMMA GotoKeeps ==
  ASSUME IInv, NEW w \in Workers, at[w].pc # "idle",
         NEW pc \in {"handed", "asking", "calling", "reading", "holding", "rescheduling",
                     "completing", "marking", "advancing", "closing"},
         Goto(w, pc), RowsKept, FencesKept, FlagsKept,
         pc \in {"completing", "marking", "advancing", "closing"} => Sent(fence'[at[w].step]),
         pc \in {"advancing", "closing"} =>
           step'[at[w].step].state = "completed" /\ step'[at[w].step].result = "sent"
  PROVE  IInv'
<1> DEFINE p == [at[w] EXCEPT !.pc = pc]
<1>1. /\ TypeOK /\ at[w].step \in Steps /\ step[at[w].step] # None /\ at[w] \in Places
      /\ \A t \in Steps : JobSound(t)
  BY DEF IInv, PlaceSound, TypeOK
<1>2. p \in Places /\ p.pc = pc /\ p.step = at[w].step
  BY <1>1 DEF Places
<1>3. at' = [at EXCEPT ![w] = p] /\ job' = job
  BY <1>1 DEF Goto, TypeOK
<1> HIDE DEF p
<1>4. /\ at' \in [Workers -> Places] /\ at'[w] = p
      /\ \A v \in Workers \ {w} : at'[v] = at[v]
  BY <1>1, <1>2, <1>3 DEF TypeOK
<1>5. step'[at[w].step] # None
  BY <1>1 DEF RowsKept, RowKept
<1>6. PlaceSound(w)'
  BY <1>1, <1>2, <1>4, <1>5 DEF PlaceSound, Sent
<1>7. \A t \in Steps : JobKept(t)
  BY <1>1, <1>3 DEF JobSound, JobKept
<1>8. TypeOK'
  BY <1>1, <1>3, <1>4 DEF TypeOK, RowsKept, FencesKept, FlagsKept
<1> QED BY <1>4, <1>6, <1>7, <1>8, StepKeeps DEF RowsKept, FencesKept

\* A step of anybody else.
LEMMA OutsideKeeps ==
  ASSUME IInv, UNCHANGED <<job, at>>, RowsKept, FencesKept, FlagsKept
  PROVE  IInv'
<1>1. TypeOK'
  BY DEF IInv, TypeOK, RowsKept, FencesKept, FlagsKept
<1>2. \A s \in Steps : JobKept(s)
  BY DEF IInv, JobSound, JobKept
<1> QED BY <1>1, <1>2, StepKeeps DEF RowsKept, FencesKept

\* What a running worker looks at.
LEMMA AtStep ==
  ASSUME IInv, NEW w \in Workers, at[w].pc # "idle"
  PROVE  /\ at[w].step \in Steps /\ step[at[w].step] # None /\ step[at[w].step] \in Rows
         /\ fence[at[w].step] \in Fences
BY DEF IInv, PlaceSound, TypeOK

\* completeStepExecution on an unfinished step, whose verdict is in.
LEMMA CompleteRows ==
  ASSUME IInv, NEW s \in Steps, NEW result \in {"sent", "logged"}, Complete(s, result),
         UNCHANGED fence, step[s] # None, step[s].state # "completed",
         Channel[s] = "email" => result = "sent" /\ WentOut(fence[s])
  PROVE  RowsKept /\ ended' \in {ended, "completed"}
<1> DEFINE r == Finished(step[s], result)
<1>1. step \in [Steps -> Rows \cup {None}] /\ step[s] \in Rows
  BY DEF IInv, TypeOK
<1>2. r \in Rows /\ r.state = "completed" /\ r.result = result
  BY <1>1, FinishedRow
<1>3. NewRow \in Rows
  BY DEF NewRow, Rows
<1>4. PICK dated \in BOOLEAN :
         /\ step' = [t \in Steps |->
                       IF t = s THEN r
                       ELSE IF t = s + 1 /\ Successor(s, dated) THEN NewRow ELSE step[t]]
         /\ ended' \in {ended, "completed"}
  BY DEF Complete
<1> HIDE DEF r
<1>5. step' \in [Steps -> Rows \cup {None}] /\ step'[s] = r
  BY <1>1, <1>2, <1>3, <1>4
<1>6. Done(s)'
  BY <1>2, <1>5 DEF Done, Has, WentOut
<1>7. ASSUME NEW t \in Steps PROVE RowKept(t)
  <2>1. CASE t = s
    BY <1>2, <1>5, <2>1 DEF RowKept
  <2>2. CASE t # s /\ t = s + 1 /\ Successor(s, dated)
    <3>1. step[t] = None /\ t > 1 /\ t - 1 = s
      BY <2>2 DEF Successor, Steps
    <3>2. Done(t - 1)'
      BY <1>6, <3>1
    <3> QED BY <3>1, <3>2 DEF RowKept
  <2>3. CASE t # s /\ ~(t = s + 1 /\ Successor(s, dated))
    BY <1>4, <2>3 DEF RowKept
  <2> QED BY <2>1, <2>2, <2>3
<1> QED BY <1>4, <1>5, <1>7 DEF RowsKept

\* stopEnrollments, after what the same transaction wrote.
LEMMA StoppedRows ==
  ASSUME IInv, NEW rows \in [Steps -> Rows \cup {None}], step' = Stopped(rows),
         \A t \in Steps : \/ rows[t] = step[t]
                         \/ /\ step[t] # None /\ step[t].state # "completed"
                            /\ rows[t] \in Rows
  PROVE  RowsKept
<1>1. step \in [Steps -> Rows \cup {None}]
  BY DEF IInv, TypeOK
<1>2. step' = [t \in Steps |-> IF rows[t] # None /\ rows[t].state \in Waiting
                              THEN Written(rows[t], "cancelled") ELSE rows[t]]
  BY DEF Stopped
<1>3. \A t \in Steps : rows[t] # None => Written(rows[t], "cancelled") \in Rows
  BY WrittenRow
<1>4. step' \in [Steps -> Rows \cup {None}]
  BY <1>2, <1>3
<1>5. ASSUME NEW t \in Steps PROVE RowKept(t)
  <2>1. CASE rows[t] # None /\ rows[t].state \in Waiting
    <3>1. step'[t] # None /\ step'[t] \in Rows
      BY <1>2, <1>3, <2>1
    <3>2. step[t] # None /\ step[t].state # "completed"
      BY <2>1 DEF Waiting
    <3> QED BY <3>1, <3>2 DEF RowKept
  <2>2. CASE ~(rows[t] # None /\ rows[t].state \in Waiting)
    <3>1. step'[t] = rows[t]
      BY <1>2, <2>2
    <3> QED BY <3>1 DEF RowKept
  <2> QED BY <2>1, <2>2
<1> QED BY <1>4, <1>5 DEF RowsKept

\* holdExecution.
LEMMA HoldRows ==
  ASSUME IInv, NEW s \in Steps, step[s] # None, Hold(s)
  PROVE  RowsKept
<1>1. step[s] \in Rows /\ blocked \in BOOLEAN
  BY DEF IInv, TypeOK
<1>2. CASE Holds(s)
  <2> DEFINE q == Written(step[s], "held")
             ripe == blocked /\ (q.ripe \/ step[s].state = "dispatched")
  <2>1. step' = [step EXCEPT ![s] = HeldRow(s)] /\ HeldRow(s) = [q EXCEPT !.ripe = ripe]
    BY <1>2 DEF Hold, HeldRow
  <2>2. q \in Rows /\ ripe \in BOOLEAN
    BY <1>1, WrittenRow
  <2> HIDE DEF q, ripe
  <2>3. HeldRow(s) \in Rows
    BY <2>1, <2>2, RipeRow
  <2>4. step[s].state # "completed"
    BY <1>2 DEF Holds, Unfinished, Has
  <2> QED BY <2>1, <2>3, <2>4, OneRow
<1>3. CASE ~Holds(s)
  BY <1>3, RowsUnchanged DEF Hold
<1> QED BY <1>2, <1>3

\* A row that is not completed is written in another state.
LEMMA WaitingRow ==
  ASSUME IInv, NEW s \in Steps, step[s] # None, step[s].state # "completed",
         NEW state \in {"pending", "held", "dispatched"}, NEW ripe \in BOOLEAN,
         \/ step' = [step EXCEPT ![s] = Written(step[s], state)]
         \/ step' = [step EXCEPT ![s] = [Written(step[s], state) EXCEPT !.ripe = ripe]]
  PROVE  RowsKept
<1> DEFINE q == Written(step[s], state)
<1>1. q \in Rows
  BY WrittenRow DEF IInv, TypeOK
<1> HIDE DEF q
<1>2. [q EXCEPT !.ripe = ripe] \in Rows
  BY <1>1, RipeRow
<1>3. CASE step' = [step EXCEPT ![s] = q]
  BY <1>1, <1>3, OneRow
<1>4. CASE step' = [step EXCEPT ![s] = [q EXCEPT !.ripe = ripe]]
  BY <1>2, <1>4, OneRow
<1> QED BY <1>3, <1>4 DEF q

\* Only one fence is written, and what was sent or answered is not.
LEMMA OneFence ==
  ASSUME IInv, NEW s \in Steps, NEW f \in Fences, fence' = [fence EXCEPT ![s] = f],
         Sent(fence[s]) => Sent(f), WentOut(fence[s]) => WentOut(f)
  PROVE  FencesKept
<1>1. fence \in [Steps -> Fences]
  BY DEF IInv, TypeOK
<1>2. fence' \in [Steps -> Fences] /\ fence'[s] = f /\ \A t \in Steps \ {s} : fence'[t] = fence[t]
  BY <1>1
<1>3. ASSUME NEW t \in Steps PROVE FenceKept(t)
  <2>1. CASE t = s
    BY <1>2, <2>1 DEF FenceKept, Sent, WentOut
  <2>2. CASE t # s
    BY <1>2, <2>2 DEF FenceKept, Sent, WentOut
  <2> QED BY <2>1, <2>2
<1> QED BY <1>2, <1>3 DEF FencesKept

\* The state of a fence changes, before it is settled.
LEMMA FenceState ==
  ASSUME IInv, NEW s \in Steps, fence[s].state \notin {"sent", "unknown_terminal"},
         NEW state \in {"prepared", "held", "dispatching", "reconciling", "sent",
                        "unknown_terminal"},
         fence' = [fence EXCEPT ![s].state = state]
  PROVE  FencesKept
<1> DEFINE f == [fence[s] EXCEPT !.state = state]
<1>1. fence[s] \in Fences /\ fence' = [fence EXCEPT ![s] = f]
  BY DEF IInv, TypeOK
<1>2. f \in Fences
  BY <1>1 DEF Fences
<1>3. ~Sent(fence[s]) /\ ~WentOut(fence[s])
  BY DEF Sent, WentOut
<1> HIDE DEF f
<1> QED BY <1>1, <1>2, <1>3, OneFence

-----------------------------------------------------------------------------
(* The step's transaction.                                                 *)

LEMMA OnlyFinishes ==
  ASSUME IInv, NEW w \in Workers, at[w].pc # "idle", Finish(w), RowsKept,
         UNCHANGED <<ended, fence, blocked, allowed, bounds>>
  PROVE  IInv'
<1>1. FlagsKept
  BY FlagsOf DEF bounds
<1> QED BY <1>1, FencesUnchanged, FinishKeeps

LEMMA NothingToDoStep ==
  ASSUME IInv, NEW w \in Workers, NothingToDo(w)
  PROVE  IInv'
BY RowsUnchanged, OnlyFinishes DEF NothingToDo, Running

LEMMA NotDueStep ==
  ASSUME IInv, NEW w \in Workers, NotDue(w)
  PROVE  IInv'
BY RowsUnchanged, OnlyFinishes DEF NotDue, Run, Running

\* What the transaction goes by.
LEMMA RunFacts ==
  ASSUME IInv, NEW w \in Workers, Run(w)
  PROVE  /\ at[w].pc # "idle" /\ at[w].step \in Steps
         /\ step[at[w].step] # None /\ step[at[w].step] \in Rows
         /\ step[at[w].step].state # "completed"
BY AtStep DEF Run, Running, Unfinished, Has

LEMMA SettleSentStep ==
  ASSUME IInv, NEW w \in Workers, SettleSent(w)
  PROVE  IInv'
<1> DEFINE s == at[w].step
<1>1. /\ Run(w) /\ WentOut(fence[s]) /\ Complete(s, "sent") /\ Finish(w)
      /\ UNCHANGED <<fence, blocked, allowed, faults, waits>>
  BY DEF SettleSent, bounds
<1>2. /\ at[w].pc # "idle" /\ s \in Steps /\ step[s] # None /\ step[s].state # "completed"
  BY <1>1, RunFacts
<1> HIDE DEF s
<1>3. RowsKept /\ ended' \in {ended, "completed"}
  BY <1>1, <1>2, CompleteRows
<1>4. FlagsKept
  BY <1>1, <1>3, FlagsOf
<1> QED BY <1>1, <1>2, <1>3, <1>4, FencesUnchanged, FinishKeeps

LEMMA SettleSkippedStep ==
  ASSUME IInv, NEW w \in Workers, SettleSkipped(w)
  PROVE  IInv'
<1> DEFINE s == at[w].step
           r == Finished(step[s], "skipped")
           rows == [step EXCEPT ![s] = r]
<1>1. /\ Run(w) /\ step' = Stopped(rows) /\ ended' = "stopped" /\ Finish(w)
      /\ UNCHANGED <<fence, blocked, allowed, faults, waits>>
  BY DEF SettleSkipped, bounds
<1>2. /\ at[w].pc # "idle" /\ s \in Steps /\ step[s] # None /\ step[s].state # "completed"
      /\ step[s] \in Rows
  BY <1>1, RunFacts
<1>3. r \in Rows
  BY <1>2, FinishedRow
<1>4. step \in [Steps -> Rows \cup {None}]
  BY DEF IInv, TypeOK
<1> HIDE DEF s, r
<1>5. /\ rows \in [Steps -> Rows \cup {None}]
      /\ \A t \in Steps : \/ rows[t] = step[t]
                         \/ /\ step[t] # None /\ step[t].state # "completed"
                            /\ rows[t] \in Rows
  BY <1>2, <1>3, <1>4
<1> HIDE DEF rows
<1>6. RowsKept
  BY <1>1, <1>5, StoppedRows
<1>7. FlagsKept
  BY <1>1, FlagsOf
<1> QED BY <1>1, <1>2, <1>6, <1>7, FencesUnchanged, FinishKeeps

LEMMA HoldInDoubtStep ==
  ASSUME IInv, NEW w \in Workers, HoldInDoubt(w)
  PROVE  IInv'
<1>1. Run(w) /\ Hold(at[w].step) /\ Finish(w) /\ UNCHANGED <<ended, fence, blocked, allowed, bounds>>
  BY DEF HoldInDoubt
<1> QED BY <1>1, RunFacts, HoldRows, OnlyFinishes

LEMMA HoldStepStep ==
  ASSUME IInv, NEW w \in Workers, HoldStep(w)
  PROVE  IInv'
<1>1. Run(w) /\ Hold(at[w].step) /\ Finish(w) /\ UNCHANGED <<ended, fence, blocked, allowed, bounds>>
  BY DEF HoldStep, RunDue
<1> QED BY <1>1, RunFacts, HoldRows, OnlyFinishes

LEMMA HoldMissingVariablesStep ==
  ASSUME IInv, NEW w \in Workers, HoldMissingVariables(w)
  PROVE  IInv'
<1> DEFINE s == at[w].step
<1>1. /\ Run(w) /\ waits < MaxWaits /\ waits' = waits + 1 /\ blocked' = TRUE /\ Finish(w)
      /\ step' = [step EXCEPT ![s] = [Written(step[s], "held") EXCEPT !.ripe = TRUE]]
      /\ UNCHANGED <<ended, fence, allowed, faults>>
  BY DEF HoldMissingVariables, RunDue
<1>2. at[w].pc # "idle" /\ s \in Steps /\ step[s] # None /\ step[s].state # "completed"
  BY <1>1, RunFacts
<1> HIDE DEF s
<1>3. RowsKept
  BY <1>1, <1>2, WaitingRow
<1>4. FlagsKept
  BY <1>1, FlagsOf
<1> QED BY <1>1, <1>2, <1>3, <1>4, FencesUnchanged, FinishKeeps

\* The step waits again, and the worker is done with it.
LEMMA MovedKeeps ==
  ASSUME IInv, NEW w \in Workers, Run(w), waits < MaxWaits, waits' = waits + 1,
         step' = [step EXCEPT ![at[w].step] = Moved(at[w].step)], Finish(w),
         UNCHANGED <<ended, fence, blocked, allowed, faults>>
  PROVE  IInv'
<1> DEFINE s == at[w].step
<1>1. at[w].pc # "idle" /\ s \in Steps /\ step[s] # None /\ step[s].state # "completed"
  BY RunFacts
<1>2. step' = [step EXCEPT ![s] = [Written(step[s], "pending") EXCEPT !.ripe = FALSE]]
  BY DEF Moved
<1> HIDE DEF s
<1>3. RowsKept
  BY <1>1, <1>2, WaitingRow
<1>4. FlagsKept
  BY FlagsOf
<1> QED BY <1>1, <1>3, <1>4, FencesUnchanged, FinishKeeps

LEMMA ResumeLaterStep ==
  ASSUME IInv, NEW w \in Workers, ResumeLater(w)
  PROVE  IInv'
BY MovedKeeps DEF ResumeLater, RunDue

LEMMA PlaceInWindowStep ==
  ASSUME IInv, NEW w \in Workers, PlaceInWindow(w)
  PROVE  IInv'
BY MovedKeeps DEF PlaceInWindow, Eligible, RunDue

LEMMA HandBackStep ==
  ASSUME IInv, NEW w \in Workers, HandBack(w)
  PROVE  IInv'
<1> DEFINE s == at[w].step
<1>1. /\ Run(w) /\ Goto(w, "handed")
      /\ step' = [step EXCEPT ![s] = [Written(step[s], "dispatched") EXCEPT !.ripe = FALSE]]
      /\ UNCHANGED <<ended, fence, blocked, allowed, faults, waits>>
  BY DEF HandBack, RunDue, bounds
<1>2. at[w].pc # "idle" /\ s \in Steps /\ step[s] # None /\ step[s].state # "completed"
  BY <1>1, RunFacts
<1> HIDE DEF s
<1>3. RowsKept
  BY <1>1, <1>2, WaitingRow
<1>4. FlagsKept
  BY <1>1, FlagsOf
<1> QED BY <1>1, <1>2, <1>3, <1>4, FencesUnchanged, GotoKeeps

LEMMA AwaitManualStep ==
  ASSUME IInv, NEW w \in Workers, AwaitManual(w)
  PROVE  IInv'
<1> DEFINE s == at[w].step
<1>1. /\ Run(w) /\ Finish(w) /\ UNCHANGED <<ended, fence, blocked, allowed, bounds>>
      /\ UNCHANGED step \/ step' = [step EXCEPT ![s] = Written(step[s], "pending")]
  BY DEF AwaitManual, Eligible, RunDue
<1>2. at[w].pc # "idle" /\ s \in Steps /\ step[s] # None /\ step[s].state # "completed"
  BY <1>1, RunFacts
<1> HIDE DEF s
<1>3. RowsKept
  BY <1>1, <1>2, WaitingRow, RowsUnchanged
<1> QED BY <1>1, <1>2, <1>3, OnlyFinishes

LEMMA PrepareEmailStep ==
  ASSUME IInv, NEW w \in Workers, PrepareEmail(w)
  PROVE  IInv'
<1> DEFINE s == at[w].step
<1>1. /\ Run(w) /\ Goto(w, "handed") /\ fence[s].state = "absent"
      /\ fence' = [fence EXCEPT ![s].state = "prepared"]
      /\ step' = [step EXCEPT ![s] = [Written(step[s], "dispatched") EXCEPT !.ripe = FALSE]]
      /\ UNCHANGED <<ended, blocked, allowed, faults, waits>>
  BY DEF PrepareEmail, Eligible, RunDue, bounds
<1>2. at[w].pc # "idle" /\ s \in Steps /\ step[s] # None /\ step[s].state # "completed"
  BY <1>1, RunFacts
<1> HIDE DEF s
<1>3. RowsKept
  BY <1>1, <1>2, WaitingRow
<1>4. FencesKept
  BY <1>1, <1>2, FenceState
<1>5. FlagsKept
  BY <1>1, FlagsOf
<1> QED BY <1>1, <1>2, <1>3, <1>4, <1>5, GotoKeeps

LEMMA RunDueStepStep ==
  ASSUME IInv, NEW w \in Workers, RunDueStep(w)
  PROVE  IInv'
BY NothingToDoStep, SettleSentStep, SettleSkippedStep, HoldInDoubtStep, NotDueStep, HoldStepStep,
   HoldMissingVariablesStep, ResumeLaterStep, HandBackStep, AwaitManualStep, PlaceInWindowStep,
   PrepareEmailStep DEF RunDueStep

-----------------------------------------------------------------------------
(* The dispatch.                                                           *)

\* A statement that touches no table.
LEMMA OnlyGoes ==
  ASSUME IInv, NEW w \in Workers, at[w].pc # "idle",
         NEW pc \in {"asking", "reading", "holding", "completing", "marking", "closing"},
         Goto(w, pc), UNCHANGED <<ended, step, fence, blocked, allowed, bounds>>,
         pc \in {"completing", "marking", "closing"} => Sent(fence[at[w].step]),
         pc = "closing" =>
           step[at[w].step].state = "completed" /\ step[at[w].step].result = "sent"
  PROVE  IInv'
<1>1. FlagsKept
  BY FlagsOf DEF bounds
<1> QED BY <1>1, RowsUnchanged, FencesUnchanged, GotoKeeps

LEMMA NoLongerDispatchedStep ==
  ASSUME IInv, NEW w \in Workers, NoLongerDispatched(w)
  PROVE  IInv'
BY RowsUnchanged, OnlyFinishes DEF NoLongerDispatched

LEMMA StartDispatchStep ==
  ASSUME IInv, NEW w \in Workers, StartDispatch(w)
  PROVE  IInv'
BY OnlyGoes DEF StartDispatch

LEMMA LoseFenceStep ==
  ASSUME IInv, NEW w \in Workers, LoseFence(w)
  PROVE  IInv'
<1>1. PICK pc \in {"reading", "holding"} : Goto(w, pc)
  BY DEF LoseFence
<1> QED BY <1>1, OnlyGoes DEF LoseFence

LEMMA ReadFenceStep ==
  ASSUME IInv, NEW w \in Workers, ReadFence(w)
  PROVE  IInv'
BY OnlyGoes DEF ReadFence

LEMMA ClaimFenceStep ==
  ASSUME IInv, NEW w \in Workers, ClaimFence(w)
  PROVE  IInv'
<1> DEFINE s == at[w].step
<1>1. /\ at[w].pc # "idle" /\ Goto(w, "calling") /\ fence[s].state \in {"prepared", "held"}
      /\ fence' = [fence EXCEPT ![s].state = "dispatching"]
      /\ UNCHANGED <<ended, step, blocked, allowed, faults, waits>>
  BY DEF ClaimFence, Claimable, bounds
<1>2. s \in Steps
  BY <1>1, AtStep
<1> HIDE DEF s
<1>3. FencesKept
  BY <1>1, <1>2, FenceState
<1>4. FlagsKept
  BY <1>1, FlagsOf
<1> QED BY <1>1, <1>3, <1>4, RowsUnchanged, GotoKeeps

LEMMA RefuseFenceStep ==
  ASSUME IInv, NEW w \in Workers, RefuseFence(w)
  PROVE  IInv'
<1> DEFINE s == at[w].step
<1>1. /\ at[w].pc # "idle" /\ fence[s].state \in {"prepared", "held"}
      /\ UNCHANGED <<ended, step, blocked, allowed, faults, waits>>
  BY DEF RefuseFence, Claimable, bounds
<1>2. PICK state \in {"prepared", "held"} : fence' = [fence EXCEPT ![s].state = state]
  BY DEF RefuseFence
<1>3. PICK pc \in {"holding", "rescheduling"} : Goto(w, pc)
  BY DEF RefuseFence
<1>4. s \in Steps
  BY <1>1, AtStep
<1> HIDE DEF s
<1>5. FencesKept
  BY <1>1, <1>2, <1>4, FenceState
<1>6. FlagsKept
  BY <1>1, FlagsOf
<1> QED BY <1>1, <1>3, <1>5, <1>6, RowsUnchanged, GotoKeeps

\* The message left; only a fence still in doubt is told so.
LEMMA CallAcceptedStep ==
  ASSUME IInv, NEW w \in Workers, CallAccepted(w)
  PROVE  IInv'
<1> DEFINE s == at[w].step
           state == IF InDoubt(fence[s]) THEN "sent" ELSE fence[s].state
           f == [fence[s] EXCEPT !.left = TRUE, !.state = state]
<1>1. /\ at[w].pc # "idle" /\ UNCHANGED <<ended, step, blocked, allowed, faults, waits>>
  BY DEF CallAccepted, bounds
<1>2. s \in Steps /\ fence[s] \in Fences /\ fence \in [Steps -> Fences]
  BY <1>1, AtStep DEF IInv, TypeOK
<1>3. fence' = [fence EXCEPT ![s] = f]
  BY <1>2 DEF CallAccepted
<1>4. PICK pc \in {"reading", "holding"} : Goto(w, pc)
  BY DEF CallAccepted
<1>5. state \in {"absent", "prepared", "held", "dispatching", "reconciling", "sent",
                 "unknown_terminal"}
  BY <1>2 DEF Fences
<1>6. /\ Sent(fence[s]) => state = "sent"
      /\ WentOut(fence[s]) => state \in {"sent", fence[s].state}
  BY DEF Sent, WentOut, InDoubt
<1> HIDE DEF state
<1>7. f \in Fences /\ f.state = state /\ f.answer = fence[s].answer
  BY <1>2, <1>5 DEF Fences
<1> HIDE DEF f, s
<1>8. FencesKept
  BY <1>2, <1>3, <1>6, <1>7, OneFence DEF Sent, WentOut
<1>9. FlagsKept
  BY <1>1, FlagsOf
<1> QED BY <1>1, <1>4, <1>8, <1>9, RowsUnchanged, GotoKeeps

LEMMA CallInDoubtStep ==
  ASSUME IInv, NEW w \in Workers, CallInDoubt(w)
  PROVE  IInv'
<1> DEFINE s == at[w].step
           state == IF fence[s].state = "dispatching" THEN "reconciling" ELSE fence[s].state
<1>1. /\ at[w].pc # "idle" /\ UNCHANGED <<ended, step, blocked, allowed, faults, waits>>
  BY DEF CallInDoubt, bounds
<1>2. s \in Steps /\ fence[s] \in Fences /\ fence \in [Steps -> Fences]
  BY <1>1, AtStep DEF IInv, TypeOK
<1>3. PICK left \in BOOLEAN : fence' = [fence EXCEPT ![s] = [fence[s] EXCEPT !.left = left, !.state = state]]
  BY <1>2 DEF CallInDoubt
<1> DEFINE f == [fence[s] EXCEPT !.left = left, !.state = state]
<1>4. PICK pc \in {"reading", "holding", "rescheduling"} : Goto(w, pc)
  BY DEF CallInDoubt
<1>5. state \in {"absent", "prepared", "held", "dispatching", "reconciling", "sent",
                 "unknown_terminal"}
  BY <1>2 DEF Fences
<1>6. /\ Sent(fence[s]) => state = "sent"
      /\ WentOut(fence[s]) => state = fence[s].state
  BY DEF Sent, WentOut
<1> HIDE DEF state
<1>7. f \in Fences /\ f.state = state /\ f.answer = fence[s].answer
  BY <1>2, <1>5 DEF Fences
<1>8. fence' = [fence EXCEPT ![s] = f]
  BY <1>3
<1> HIDE DEF f, s
<1>9. FencesKept
  BY <1>2, <1>8, <1>6, <1>7, OneFence DEF Sent, WentOut
<1>10. FlagsKept
  BY <1>1, FlagsOf
<1> QED BY <1>1, <1>4, <1>9, <1>10, RowsUnchanged, GotoKeeps

LEMMA HoldDispatchedStep ==
  ASSUME IInv, NEW w \in Workers, HoldDispatched(w)
  PROVE  IInv'
<1>1. /\ at[w].pc # "idle" /\ Hold(at[w].step) /\ Finish(w)
      /\ UNCHANGED <<ended, fence, blocked, allowed, bounds>>
  BY DEF HoldDispatched
<1> QED BY <1>1, AtStep, HoldRows, OnlyFinishes

LEMMA RescheduleStep ==
  ASSUME IInv, NEW w \in Workers, Reschedule(w)
  PROVE  IInv'
<1> DEFINE s == at[w].step
<1>1. /\ at[w].pc # "idle" /\ Finish(w) /\ UNCHANGED <<ended, fence, blocked, allowed, bounds>>
  BY DEF Reschedule
<1>2. s \in Steps /\ step[s] # None
  BY <1>1, AtStep
<1>3. CASE UNCHANGED step
  BY <1>1, <1>3, RowsUnchanged, OnlyFinishes
<1>4. CASE Has(s, {"dispatched"}) /\ step' = [step EXCEPT ![s] = Moved(s)]
  <2>1. /\ step[s].state # "completed"
        /\ step' = [step EXCEPT ![s] = [Written(step[s], "pending") EXCEPT !.ripe = FALSE]]
    BY <1>4 DEF Has, Moved
  <2> HIDE DEF s
  <2>2. RowsKept
    BY <1>2, <2>1, WaitingRow
  <2> QED BY <1>1, <2>2, OnlyFinishes
<1> QED BY <1>3, <1>4 DEF Reschedule

LEMMA CheckCompletableStep ==
  ASSUME IInv, NEW w \in Workers, CheckCompletable(w)
  PROVE  IInv'
<1>1. /\ at[w].pc = "completing" /\ UNCHANGED <<ended, step, fence, blocked, allowed, bounds>>
      /\ Goto(w, "marking") \/ Finish(w)
  BY DEF CheckCompletable
<1>2. Sent(fence[at[w].step])
  BY <1>1 DEF IInv, PlaceSound
<1>3. CASE Goto(w, "marking")
  BY <1>1, <1>2, <1>3, OnlyGoes
<1>4. CASE Finish(w)
  BY <1>1, <1>4, RowsUnchanged, OnlyFinishes
<1> QED BY <1>1, <1>3, <1>4

\* The update looks at no state: whatever the row was, it is completed as sent, and the
\* fence says so.
LEMMA MarkCompletedStep ==
  ASSUME IInv, NEW w \in Workers, MarkCompleted(w)
  PROVE  IInv'
<1> DEFINE s == at[w].step
           r == Finished(step[s], "sent")
<1>1. /\ at[w].pc = "marking" /\ Goto(w, "advancing") /\ step' = [step EXCEPT ![s] = r]
      /\ UNCHANGED <<ended, fence, blocked, allowed, faults, waits>>
  BY DEF MarkCompleted, bounds
<1>2. s \in Steps /\ step[s] # None /\ step[s] \in Rows /\ Sent(fence[s])
  BY <1>1, AtStep DEF IInv, PlaceSound
<1>3. r \in Rows /\ r.state = "completed" /\ r.result = "sent"
  BY <1>2, FinishedRow
<1>4. step'[s] = r
  <2> HIDE DEF r
  <2> QED BY <1>1, <1>2 DEF IInv, TypeOK
<1> HIDE DEF r
<1>5. RowsKept
  <2> HIDE DEF s
  <2> QED BY <1>1, <1>2, <1>3, OneRow
<1>6. FlagsKept
  BY <1>1, FlagsOf
<1>7. Sent(fence'[s])
  BY <1>1, <1>2
<1> QED BY <1>1, <1>3, <1>4, <1>5, <1>6, <1>7, FencesUnchanged, GotoKeeps

\* The successor of a step that the row and the fence both call sent.
LEMMA AdvanceStep ==
  ASSUME IInv, NEW w \in Workers, Advance(w)
  PROVE  IInv'
<1>1. /\ at[w].pc = "advancing" /\ UNCHANGED <<ended, fence, blocked, allowed, bounds>>
  BY DEF Advance
<1>2. PICK s \in Steps : s = at[w].step
  BY <1>1, AtStep
<1>3. /\ s \in Steps /\ step[s] # None /\ step[s].state = "completed" /\ step[s].result = "sent"
      /\ Sent(fence[s])
  BY <1>2, <1>1 DEF IInv, PlaceSound
<1>4. CASE (\E dated \in BOOLEAN : Successor(s, dated)) /\ step' = [step EXCEPT ![s + 1] = NewRow] /\ Finish(w)
  <2>1. step \in [Steps -> Rows \cup {None}] /\ NewRow \in Rows
    BY DEF IInv, TypeOK, NewRow, Rows
  <2>2. s + 1 \in Steps /\ step[s + 1] = None /\ s + 1 > 1 /\ s # s + 1 /\ (s + 1) - 1 = s
    BY <1>3, <1>4 DEF Successor, Steps
  <2>3. /\ step' \in [Steps -> Rows \cup {None}]
        /\ \A t \in Steps : t # s + 1 => step'[t] = step[t]
    BY <1>4, <2>1
  <2>4. Done(s)'
    BY <1>1, <1>3, <2>2, <2>3 DEF Done, Has, WentOut, Sent
  <2>5. RowKept(s + 1)
    BY <2>2, <2>4 DEF RowKept
  <2>6. \A t \in Steps : RowKept(t)
    BY <2>3, <2>5 DEF RowKept
  <2>7. RowsKept
    BY <2>3, <2>6 DEF RowsKept
  <2> QED BY <1>1, <1>4, <2>7, OnlyFinishes
<1>5. CASE Goto(w, "closing") /\ UNCHANGED step
  BY <1>2, <1>1, <1>3, <1>5, OnlyGoes
<1> QED BY <1>2, <1>4, <1>5 DEF Advance

LEMMA CloseStep ==
  ASSUME IInv, NEW w \in Workers, Close(w)
  PROVE  IInv'
<1>1. /\ at[w].pc # "idle" /\ Finish(w) /\ ended' \in {ended, "completed"}
      /\ UNCHANGED <<step, fence, blocked, allowed, faults, waits>>
  BY DEF Close, bounds
<1>2. FlagsKept
  BY <1>1, FlagsOf
<1> QED BY <1>1, <1>2, RowsUnchanged, FencesUnchanged, FinishKeeps

-----------------------------------------------------------------------------
(* Jobs, leases and workers that die.                                      *)

\* One job is written: it looks at a step that is there, and is queued with attempts left.
LEMMA OneJob ==
  ASSUME IInv, NEW s \in Steps, NEW j \in Jobs, job' = [job EXCEPT ![s] = j],
         j.state = "queued" => j.attempts < MaxAttempts,
         step[s] # None \/ job[s].state # "none"
  PROVE  job' \in [Steps -> Jobs] /\ job'[s] = j /\ \A t \in Steps : JobKept(t)
<1>1. job \in [Steps -> Jobs] /\ \A t \in Steps : JobSound(t)
  BY DEF IInv, TypeOK
<1>2. job' \in [Steps -> Jobs] /\ job'[s] = j /\ \A t \in Steps \ {s} : job'[t] = job[t]
  BY <1>1
<1> QED BY <1>1, <1>2 DEF JobSound, JobKept

LEMMA AgainJob ==
  ASSUME NEW j \in Jobs
  PROVE  /\ Again(j) \in Jobs
         /\ Again(j).state = "queued" => Again(j).attempts < MaxAttempts
<1> DEFINE state == IF j.attempts < MaxAttempts THEN "queued" ELSE "dead"
<1>1. Again(j) = [j EXCEPT !.holder = None, !.state = state]
  BY DEF Again
<1>2. state \in {"queued", "dead"} /\ (state = "queued" => j.attempts < MaxAttempts)
  OBVIOUS
<1> HIDE DEF state
<1> QED BY <1>1, <1>2 DEF Jobs

LEMMA WakeStep ==
  ASSUME IInv, NEW s \in Steps, Wake(s)
  PROVE  IInv'
<1> DEFINE j == NewJob(job[s])
           r == [step[s] EXCEPT !.moved = FALSE]
<1>1. /\ step[s] # None /\ step' = [step EXCEPT ![s].moved = FALSE]
      /\ job' = [job EXCEPT ![s] = j]
      /\ UNCHANGED <<ended, fence, blocked, allowed, at, faults, waits>>
  BY DEF Wake, Woken, Unfinished, Has, bounds
<1>2. j \in Jobs /\ j.state = "queued" /\ j.attempts < MaxAttempts
  BY DEF NewJob, Jobs
<1>3. step \in [Steps -> Rows \cup {None}] /\ step[s] \in Rows
  BY <1>1 DEF IInv, TypeOK
<1>4. r \in Rows /\ r.state = step[s].state /\ r.result = step[s].result
  BY <1>3 DEF Rows
<1>5. step' = [step EXCEPT ![s] = r]
  BY <1>1, <1>3
<1> HIDE DEF j, r
<1>6. RowsKept
  BY <1>1, <1>4, <1>5, OneRow
<1>7. job' \in [Steps -> Jobs] /\ \A t \in Steps : JobKept(t)
  BY <1>1, <1>2, OneJob
<1>8. FlagsKept
  BY <1>1, FlagsOf
<1>9. FencesKept
  BY <1>1, FencesUnchanged
<1>10. TypeOK'
  BY <1>1, <1>6, <1>7, <1>8, <1>9 DEF IInv, TypeOK, RowsKept, FencesKept, FlagsKept
<1> QED BY <1>1, <1>6, <1>7, <1>9, <1>10, StepKeeps DEF RowsKept, FencesKept

\* Only the job and one worker change.
LEMMA JobKeeps ==
  ASSUME IInv, job' \in [Steps -> Jobs], \A t \in Steps : JobKept(t),
         at' \in [Workers -> Places], \A w \in Workers : at'[w] = at[w] \/ PlaceSound(w)',
         UNCHANGED <<ended, step, fence, blocked, allowed, waits>>, faults' \in 0..MaxFaults
  PROVE  IInv'
<1>1. RowsKept /\ FencesKept
  BY RowsUnchanged, FencesUnchanged
<1>2. TypeOK'
  BY DEF IInv, TypeOK
<1> QED BY <1>1, <1>2, StepKeeps DEF RowsKept, FencesKept

LEMMA ClaimStep ==
  ASSUME IInv, NEW w \in Workers, NEW s \in Steps, Claim(w, s)
  PROVE  IInv'
<1> DEFINE j == [state |-> "running", holder |-> w, attempts |-> job[s].attempts + 1]
           p == [pc |-> "running", step |-> s]
<1>1. /\ job[s].state = "queued" /\ job' = [job EXCEPT ![s] = j] /\ at' = [at EXCEPT ![w] = p]
      /\ UNCHANGED <<ended, step, fence, blocked, allowed, faults, waits>>
  BY DEF Claim, bounds
<1>2. TypeOK /\ JobSound(s) /\ job[s] \in Jobs
  BY DEF IInv, TypeOK
<1>3. job[s].attempts + 1 \in 0..MaxAttempts
  <2>1. job[s].attempts \in 0..MaxAttempts /\ job[s].attempts < MaxAttempts
    BY <1>1, <1>2 DEF JobSound, Jobs
  <2> QED BY <2>1
<1>4. j \in Jobs /\ j.state = "running"
  BY <1>3 DEF Jobs
<1>5. p \in Places /\ p.pc = "running" /\ p.step = s
  BY DEF Places
<1> HIDE DEF j, p
<1>6. job' \in [Steps -> Jobs] /\ \A t \in Steps : JobKept(t)
  BY <1>1, <1>4, OneJob
<1>7. at' \in [Workers -> Places] /\ at'[w] = p /\ \A v \in Workers \ {w} : at'[v] = at[v]
  BY <1>1, <1>2, <1>5 DEF TypeOK
<1>8. PlaceSound(w)'
  BY <1>1, <1>2, <1>5, <1>7 DEF PlaceSound, JobSound
<1>9. faults' \in 0..MaxFaults
  BY <1>1, <1>2 DEF TypeOK
<1> QED BY <1>1, <1>6, <1>7, <1>8, <1>9, JobKeeps

LEMMA WorkerLeaves ==
  ASSUME IInv, NEW w \in Workers, at' = [at EXCEPT ![w] = Idle]
  PROVE  /\ at' \in [Workers -> Places]
         /\ \A v \in Workers : at'[v] = at[v] \/ PlaceSound(v)'
<1>1. at \in [Workers -> Places] /\ Idle \in Places
  BY DEF IInv, TypeOK, Idle, Places
<1>2. /\ at' \in [Workers -> Places] /\ at'[w] = Idle
      /\ \A v \in Workers \ {w} : at'[v] = at[v]
  BY <1>1
<1>3. PlaceSound(w)'
  BY <1>2 DEF PlaceSound, Idle
<1> QED BY <1>2, <1>3

LEMMA DieStep ==
  ASSUME IInv, NEW w \in Workers, Die(w)
  PROVE  IInv'
<1>1. /\ faults < MaxFaults /\ faults' = faults + 1 /\ at' = [at EXCEPT ![w] = Idle]
      /\ UNCHANGED <<ended, step, fence, blocked, allowed, job, waits>>
  BY DEF Die
<1>2. job' \in [Steps -> Jobs] /\ \A t \in Steps : JobKept(t)
  BY <1>1 DEF IInv, TypeOK, JobSound, JobKept
<1>3. faults' \in 0..MaxFaults
  BY <1>1 DEF IInv, TypeOK
<1> QED BY <1>1, <1>2, <1>3, WorkerLeaves, JobKeeps

LEMMA ExpireStep ==
  ASSUME IInv, NEW s \in Steps, Expire(s) \/ LoseLease(s)
  PROVE  IInv'
<1> DEFINE j == Again(job[s])
<1>1. /\ job[s].state = "running" /\ job' = [job EXCEPT ![s] = j]
      /\ UNCHANGED faults \/ (faults < MaxFaults /\ faults' = faults + 1)
      /\ UNCHANGED <<ended, step, fence, blocked, allowed, at, waits>>
  BY DEF Expire, LoseLease, bounds
<1>2. j \in Jobs /\ (j.state = "queued" => j.attempts < MaxAttempts)
  BY AgainJob DEF IInv, TypeOK
<1> HIDE DEF j
<1>3. job' \in [Steps -> Jobs] /\ \A t \in Steps : JobKept(t)
  BY <1>1, <1>2, OneJob
<1>4. faults' \in 0..MaxFaults
  BY <1>1 DEF IInv, TypeOK
<1>5. at' \in [Workers -> Places]
  BY <1>1 DEF IInv, TypeOK
<1> QED BY <1>1, <1>3, <1>4, <1>5, JobKeeps

LEMMA MarkRefusedStep ==
  ASSUME IInv, NEW w \in Workers, MarkRefused(w)
  PROVE  IInv'
<1> DEFINE s == at[w].step
           j == Again(job[s])
<1>1. /\ at[w].pc # "idle" /\ at' = [at EXCEPT ![w] = Idle]
      /\ UNCHANGED job \/ job' = [job EXCEPT ![s] = j]
      /\ UNCHANGED <<ended, step, fence, blocked, allowed, faults, waits>>
  BY DEF MarkRefused, bounds
<1>2. s \in Steps /\ step[s] # None
  BY <1>1, AtStep
<1>3. j \in Jobs /\ (j.state = "queued" => j.attempts < MaxAttempts)
  BY <1>2, AgainJob DEF IInv, TypeOK
<1> HIDE DEF j, s
<1>4. job' \in [Steps -> Jobs] /\ \A t \in Steps : JobKept(t)
  <2>1. CASE UNCHANGED job
    BY <2>1 DEF IInv, TypeOK, JobSound, JobKept
  <2>2. CASE job' = [job EXCEPT ![s] = j]
    BY <1>2, <1>3, <2>2, OneJob
  <2> QED BY <1>1, <2>1, <2>2
<1>5. faults' \in 0..MaxFaults
  BY <1>1 DEF IInv, TypeOK
<1> QED BY <1>1, <1>4, <1>5, WorkerLeaves, JobKeeps

-----------------------------------------------------------------------------
(* Everybody else.                                                         *)

LEMMA OnlyRows ==
  ASSUME IInv, RowsKept, ended' \in {ended, "completed", "stopped"},
         UNCHANGED <<fence, blocked, allowed, job, at, faults>>,
         UNCHANGED waits \/ (waits < MaxWaits /\ waits' = waits + 1)
  PROVE  IInv'
<1>1. FlagsKept
  BY FlagsOf
<1> QED BY <1>1, FencesUnchanged, OutsideKeeps

LEMMA OnlyFence ==
  ASSUME IInv, FencesKept, UNCHANGED <<ended, step, blocked, allowed, job, at, bounds>>
  PROVE  IInv'
<1>1. FlagsKept
  BY FlagsOf DEF bounds
<1> QED BY <1>1, RowsUnchanged, OutsideKeeps

LEMMA AdoptStep ==
  ASSUME IInv, NEW s \in Steps, Adopt(s)
  PROVE  IInv'
BY FenceState, OnlyFence DEF Adopt

LEMMA SettleStep ==
  ASSUME IInv, NEW s \in Steps, Settle(s)
  PROVE  IInv'
BY FenceState, OnlyFence DEF Settle

\* The admin answers once.
LEMMA AnswerStep ==
  ASSUME IInv, NEW s \in Steps, Answer(s)
  PROVE  IInv'
<1>1. PICK answer \in {"delivered", "skipped"} : fence' = [fence EXCEPT ![s].answer = answer]
  BY DEF Answer
<1> DEFINE f == [fence[s] EXCEPT !.answer = answer]
<1>2. /\ fence[s].state = "unknown_terminal" /\ fence[s].answer = None /\ fence[s] \in Fences
      /\ UNCHANGED <<ended, step, blocked, allowed, job, at, bounds>>
  BY DEF Answer, Unanswered, IInv, TypeOK
<1>3. fence' = [fence EXCEPT ![s] = f]
  BY <1>1 DEF IInv, TypeOK
<1>4. f \in Fences
  BY <1>2 DEF Fences
<1>5. ~Sent(fence[s]) /\ ~WentOut(fence[s])
  BY <1>2 DEF Sent, WentOut
<1> HIDE DEF f
<1>6. FencesKept
  BY <1>3, <1>4, <1>5, OneFence
<1> QED BY <1>2, <1>6, OnlyFence

LEMMA FlagStep ==
  ASSUME IInv, Obstruct \/ Clear
  PROVE  IInv'
<1>1. /\ UNCHANGED <<ended, step, fence, job, at, faults>>
      /\ blocked' \in {blocked, TRUE, FALSE} /\ allowed' \in {allowed, TRUE, FALSE}
      /\ UNCHANGED waits \/ (waits < MaxWaits /\ waits' = waits + 1)
  BY DEF Obstruct, Clear, bounds
<1>2. FlagsKept
  BY <1>1, FlagsOf
<1> QED BY <1>1, <1>2, RowsUnchanged, FencesUnchanged, OutsideKeeps

LEMMA StopStep ==
  ASSUME IInv, Stop
  PROVE  IInv'
<1>1. /\ step' = Stopped(step) /\ ended' = "stopped"
      /\ UNCHANGED <<fence, blocked, allowed, job, at, faults, waits>>
  BY DEF Stop, bounds
<1>2. step \in [Steps -> Rows \cup {None}]
  BY DEF IInv, TypeOK
<1>3. RowsKept
  BY <1>1, <1>2, StoppedRows
<1> QED BY <1>1, <1>3, OnlyRows

LEMMA ResumeStep ==
  ASSUME IInv, Resume
  PROVE  IInv'
<1>1. /\ waits < MaxWaits /\ waits' = waits + 1
      /\ UNCHANGED <<ended, fence, blocked, allowed, job, at, faults>>
  BY DEF Resume
<1>2. PICK s \in Steps : /\ Has(s, {"held"})
                        /\ \E row \in {Moved(s), Written(step[s], "pending")} :
                             step' = [step EXCEPT ![s] = row]
  BY DEF Resume
<1>3. step[s] # None /\ step[s].state # "completed"
  BY <1>2 DEF Has
<1>4. RowsKept
  BY <1>2, <1>3, WaitingRow DEF Moved
<1> QED BY <1>1, <1>4, OnlyRows

LEMMA LogCallStep ==
  ASSUME IInv, NEW s \in Steps, LogCall(s)
  PROVE  IInv'
<1>1. /\ Channel[s] = "call" /\ step[s] # None /\ step[s].state # "completed" /\ Complete(s, "logged")
      /\ UNCHANGED <<fence, blocked, allowed, job, at, faults, waits>>
  BY DEF LogCall, Has, Waiting, bounds
<1>2. RowsKept /\ ended' \in {ended, "completed"}
  BY <1>1, CompleteRows
<1> QED BY <1>1, <1>2, OnlyRows

LEMMA LogEngagedStep ==
  ASSUME IInv, NEW s \in Steps, LogEngaged(s)
  PROVE  IInv'
<1> DEFINE r == Finished(step[s], "logged")
           rows == [step EXCEPT ![s] = r]
<1>1. /\ step[s] # None /\ step[s].state # "completed" /\ step' = Stopped(rows)
      /\ ended' = "stopped" /\ UNCHANGED <<fence, blocked, allowed, job, at, faults, waits>>
  BY DEF LogEngaged, Has, Waiting, bounds
<1>2. step \in [Steps -> Rows \cup {None}] /\ step[s] \in Rows
  BY <1>1 DEF IInv, TypeOK
<1>3. r \in Rows
  BY <1>2, FinishedRow
<1> HIDE DEF r
<1>4. /\ rows \in [Steps -> Rows \cup {None}]
      /\ \A t \in Steps : \/ rows[t] = step[t]
                         \/ /\ step[t] # None /\ step[t].state # "completed"
                            /\ rows[t] \in Rows
  BY <1>1, <1>2, <1>3
<1> HIDE DEF rows
<1>5. RowsKept
  BY <1>1, <1>4, StoppedRows
<1> QED BY <1>1, <1>5, OnlyRows

LEMMA RetryCallStep ==
  ASSUME IInv, NEW s \in Steps, RetryCall(s)
  PROVE  IInv'
<1>1. /\ step[s] # None /\ step[s].state \in {"pending", "held"}
      /\ waits < MaxWaits /\ waits' = waits + 1
      /\ step' = [step EXCEPT ![s] = [Written(step[s], step[s].state) EXCEPT !.ripe = FALSE]]
      /\ UNCHANGED <<ended, fence, blocked, allowed, job, at, faults>>
  BY DEF RetryCall, Has, Waiting
<1>2. RowsKept
  BY <1>1, WaitingRow
<1> QED BY <1>1, <1>2, OnlyRows

LEMMA DueComesStep ==
  ASSUME IInv, NEW s \in Steps, DueComes(s)
  PROVE  IInv'
<1> DEFINE r == [step[s] EXCEPT !.ripe = TRUE]
<1>1. /\ step[s] # None /\ step[s].state # "completed" /\ step' = [step EXCEPT ![s].ripe = TRUE]
      /\ UNCHANGED <<ended, fence, blocked, allowed, job, at, faults, waits>>
  BY DEF DueComes, Unfinished, Has, bounds
<1>2. step[s] \in Rows /\ step' = [step EXCEPT ![s] = r]
  BY <1>1 DEF IInv, TypeOK
<1>3. r \in Rows
  BY <1>2, RipeRow
<1> HIDE DEF r
<1>4. RowsKept
  BY <1>1, <1>2, <1>3, OneRow
<1> QED BY <1>1, <1>4, OnlyRows

LEMMA StutterStep ==
  ASSUME IInv, UNCHANGED vars
  PROVE  IInv'
<1>1. UNCHANGED <<ended, step, fence, blocked, allowed, job, at, faults, waits>>
  BY DEF vars, bounds
<1> QED BY <1>1, RowsUnchanged, OnlyRows

LEMMA DispatchStep ==
  ASSUME IInv, NEW w \in Workers, Dispatch(w)
  PROVE  IInv'
<1>1. CASE NoLongerDispatched(w) \/ StartDispatch(w) \/ ClaimFence(w) \/ RefuseFence(w) \/ LoseFence(w)
  BY <1>1, NoLongerDispatchedStep, StartDispatchStep, ClaimFenceStep, RefuseFenceStep, LoseFenceStep
<1>2. CASE CallAccepted(w) \/ CallInDoubt(w) \/ ReadFence(w) \/ HoldDispatched(w) \/ Reschedule(w)
  BY <1>2, CallAcceptedStep, CallInDoubtStep, ReadFenceStep, HoldDispatchedStep, RescheduleStep
<1>3. CASE CheckCompletable(w) \/ MarkCompleted(w) \/ MarkRefused(w) \/ Advance(w) \/ Close(w)
  BY <1>3, CheckCompletableStep, MarkCompletedStep, MarkRefusedStep, AdvanceStep, CloseStep
<1> QED BY <1>1, <1>2, <1>3 DEF Dispatch

LEMMA NextStep == IInv /\ [Next]_vars => IInv'
<1> SUFFICES ASSUME IInv, [Next]_vars PROVE IInv'
  OBVIOUS
<1>1. ASSUME NEW w \in Workers,
             RunDueStep(w) \/ Dispatch(w) \/ Die(w) \/ \E s \in Steps : Claim(w, s)
      PROVE  IInv'
  BY <1>1, RunDueStepStep, DispatchStep, DieStep, ClaimStep
<1>2. ASSUME NEW s \in Steps,
             \/ Wake(s) \/ Expire(s) \/ LoseLease(s)
             \/ Adopt(s) \/ Settle(s) \/ Answer(s)
             \/ LogCall(s) \/ LogEngaged(s) \/ RetryCall(s) \/ DueComes(s)
      PROVE  IInv'
  BY <1>2, WakeStep, ExpireStep, AdoptStep, SettleStep, AnswerStep, LogCallStep, LogEngagedStep,
     RetryCallStep, DueComesStep
<1>3. CASE Obstruct \/ Clear \/ Stop \/ Resume
  BY <1>3, FlagStep, StopStep, ResumeStep
<1>4. CASE UNCHANGED vars
  BY <1>4, StutterStep
<1> QED BY <1>1, <1>2, <1>3, <1>4 DEF Next

-----------------------------------------------------------------------------
(* The theorems.                                                           *)

\* Every state of the steps, fences, jobs and workers satisfies the inductive invariant
\* (executions.ts, wake.ts).
THEOREM Invariance == Spec => []IInv
BY InitInv, NextStep, PTL DEF Spec

\* Types, and with them the attempts of a job.
THEOREM TypeCorrect == Spec => []TypeOK
<1>1. IInv => TypeOK
  BY DEF IInv
<1> QED BY <1>1, Invariance, PTL

\* "No successor runs on a maybe": a step follows only a completed one, and an email only
\* once a verdict says it went out (settleFromFence, dispatchPreparedStep, holdExecution).
THEOREM NoMaybe == Spec => []NoSuccessorOnAMaybe
<1>1. IInv => NoSuccessorOnAMaybe
  BY DEF IInv, Ordered, Done, NoSuccessorOnAMaybe, Steps
<1> QED BY <1>1, Invariance, PTL

=============================================================================
