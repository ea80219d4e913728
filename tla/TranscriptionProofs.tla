------------------------- MODULE TranscriptionProofs -------------------------
(***************************************************************************)
(* What holds of a call's paid attempts for any number of slots, jobs and  *)
(* providers, any caps and any deployment of the slots.                    *)
(***************************************************************************)
EXTENDS Transcription, FiniteSetTheorems, TLAPS

USE ConstantsAssumption

-----------------------------------------------------------------------------
(* The inductive invariant.                                                *)

\* No job is claimed more often than MaxClaims, and a change of the setting pays for one
\* resumption: while it is still owed, either it was not used or its job is not over; and
\* no resumption follows a change before the jobs that run across it are over.
JobsSound ==
  /\ \A k \in Jobs : /\ job[k].state = "absent" => job[k].token = 0
                     /\ job[k].state = "queued" => job[k].token < MaxClaims
  /\ count.resumed <= count.changes
  /\ setting.fresh /\ (\A k \in Jobs : job[k].state \in {"absent", "done"}) =>
       count.resumed < count.changes
  /\ \A k \in Jobs : job[k].older => job[k].state = "running" /\ count.resumed < count.changes

\* A row agrees with what was asked for it and with what became of that.
RowSound(a) ==
  /\ row[a].state = "absent" => row[a] = AbsentRow
  /\ row[a].state # "absent" => row[a].provider \in Providers
  /\ row[a].state \in {"absent", "reserved"} => row[a].remote = "none" /\ asked[a] = <<>>
  /\ row[a].remote # "none" => row[a].provider \in Async
  /\ row[a].remote \in {"submitting", "started"} => row[a].state = "calling"
  /\ standing[a] # "none" => asked[a] # <<>>
  /\ standing[a] \in {"flying", "running", "completed"} =>
       row[a].state \in {"calling", "settled", "estimated"}
  /\ asked[a] # <<>> => asked[a] = <<row[a].provider>> /\ row[a].state # "released"

\* The rows are numbered without a gap, the caps hold, one is open at most and none after
\* a terminal outcome; a deleted call leaves no provider job to collect.
BooksSound ==
  /\ \A a \in Attempts : RowSound(a)
  /\ \A a \in Existing : \A b \in 1..a : b \in Existing
  /\ Cardinality(Paid(Existing)) <= MaxPaid
  /\ \A a, b \in Attempts : Open(a) /\ Open(b) => a = b
  /\ transcript \/ ProviderJobFailed => \A a \in Attempts : ~Open(a)
  /\ ~session => BeingCollected = {}

\* The claim's cursor says that it marked an attempt.
Owns(w) == at[w].step \in {"calling", "submit"}

\* A claim that marked an attempt has not asked for it before the answer is in its hand;
\* in the chunk that asks, nobody else has touched the row.
Holds(w) ==
  LET a == at[w].attempt IN
  /\ at[w].pc # "idle" => at[w].job \in Jobs
  /\ Owns(w) => /\ a \in Attempts /\ at[w].serves \in Providers
                /\ row[a].provider = at[w].serves
                /\ row[a].state \notin {"absent", "reserved"}
  /\ Owns(w) /\ at[w].pc # "answered" => asked[a] = <<>>
  /\ Asking(w) => /\ Owns(w) /\ session /\ ~transcript
                  /\ row[a].state = "calling"
                  /\ row[a].remote = IF at[w].serves \in Async THEN "submitting" ELSE "none"
  /\ at[w].pc = "answered" /\ at[w].answer = "refused" => standing[a] = "none"

\* The lock of the session is one slot's, and an attempt was marked by one claim.
Apart(w) ==
  \A v \in Workers \ {w} : /\ ~(Asking(v) /\ Asking(w))
                           /\ Owns(v) /\ Owns(w) => at[v].attempt # at[w].attempt

IInv ==
  /\ TypeOK
  /\ JobsSound
  /\ BooksSound
  /\ \A w \in Workers : Holds(w) /\ Apart(w)

LEMMA InitInv == Init => IInv
<1> SUFFICES ASSUME Init PROVE IInv
  OBVIOUS
<1>1. TypeOK
  <2>1. AbsentRow \in Rows
    BY DEF AbsentRow, Rows, RowStates, RemoteStates
  <2>2. Idle \in Places
    BY DEF Idle, Places, Steps
  <2>3. [state |-> "absent", token |-> 0, begun |-> FALSE, older |-> FALSE] \in JobRows
    BY DEF JobRows
  <2>4. <<>> \in Seq(Providers) /\ 0 \in 0..MaxChanges
    OBVIOUS
  <2> QED BY <2>1, <2>2, <2>3, <2>4 DEF Init, TypeOK
<1>2. JobsSound
  BY DEF Init, JobsSound
<1>3. BooksSound
  <2>1. \A a \in Attempts : row[a] = AbsentRow /\ asked[a] = <<>> /\ standing[a] = "none"
    BY DEF Init
  <2>2. Existing = {} /\ BeingCollected = {} /\ Paid(Existing) = {} /\ \A a \in Attempts : ~Open(a)
    BY <2>1 DEF Existing, BeingCollected, Paid, Open, AbsentRow
  <2>3. ~transcript /\ ~ProviderJobFailed
    BY <2>1 DEF Init, ProviderJobFailed, AbsentRow
  <2>4. \A a \in Attempts : RowSound(a)
    BY <2>1 DEF RowSound, AbsentRow
  <2>5. Cardinality(Paid(Existing)) <= MaxPaid
    BY <2>2, FS_EmptySet
  <2> QED BY <2>2, <2>3, <2>4, <2>5 DEF BooksSound
<1>4. \A w \in Workers : Holds(w) /\ Apart(w)
  BY DEF Init, Idle, Holds, Apart, Owns, Asking
<1> QED BY <1>1, <1>2, <1>3, <1>4 DEF IInv

-----------------------------------------------------------------------------
(* Rows.                                                                   *)

Over == {"settled", "waived", "estimated", "released"}

LEMMA ClosedRow ==
  ASSUME NEW r \in Rows
  PROVE  /\ Closed(r) \in Rows /\ Closed(r).provider = r.provider /\ Closed(r).remote = r.remote
         /\ r.state = "reserved" => Closed(r).state = "released"
         /\ r.state = "calling" => Closed(r).state = "estimated"
         /\ r.state \notin {"reserved", "calling"} => Closed(r) = r
<1>1. CASE r.state = "reserved"
  BY <1>1 DEF Closed, Rows, RowStates
<1>2. CASE r.state = "calling"
  BY <1>2 DEF Closed, Rows, RowStates
<1>3. CASE r.state \notin {"reserved", "calling"}
  BY <1>3 DEF Closed, Rows, RowStates
<1> QED BY <1>1, <1>2, <1>3

LEMMA SettledRow ==
  ASSUME NEW r \in Rows, NEW state \in RowStates
  PROVE  /\ Settled(r, state) \in Rows
         /\ Settled(r, state).provider = r.provider /\ Settled(r, state).remote = r.remote
         /\ r.state \in {"reserved", "calling"} => Settled(r, state).state = state
         /\ r.state \notin {"reserved", "calling"} => Settled(r, state) = r
<1>1. CASE r.state \in {"reserved", "calling"}
  BY <1>1 DEF Settled, Rows
<1>2. CASE r.state \notin {"reserved", "calling"}
  BY <1>2 DEF Settled
<1> QED BY <1>1, <1>2

LEMMA MarkedRow ==
  ASSUME NEW r \in Rows, NEW remote \in RemoteStates
  PROVE  /\ Marked(r, remote) \in Rows /\ Marked(r, remote).provider = r.provider
         /\ Marked(r, remote).state = r.state /\ Marked(r, remote).remote = remote
BY DEF Marked, Rows

\* Settled and marked in one statement.
LEMMA ConcludedRow ==
  ASSUME NEW r \in Rows, NEW state \in RowStates, NEW remote \in RemoteStates, r.state = "calling"
  PROVE  LET q == Marked(Settled(r, state), remote) IN
         q \in Rows /\ q.provider = r.provider /\ q.state = state /\ q.remote = remote
BY SettledRow, MarkedRow

LEMMA NotCalledRow ==
  ASSUME NEW r \in Rows, r.state = "calling"
  PROVE  /\ NotCalled(r) \in Rows /\ NotCalled(r).provider = r.provider
         /\ NotCalled(r).state = "released"
         /\ NotCalled(r).remote = IF r.remote = "none" THEN "none" ELSE "estimated"
<1>1. "released" \in RowStates /\ "estimated" \in RemoteStates
  BY DEF RowStates, RemoteStates
<1>2. CASE r.remote = "none"
  BY <1>1, <1>2, SettledRow DEF NotCalled
<1>3. CASE r.remote # "none"
  BY <1>1, <1>3, ConcludedRow DEF NotCalled
<1> QED BY <1>2, <1>3

LEMMA GivenUpRow ==
  ASSUME NEW r \in Rows, r.state = "calling"
  PROVE  /\ GivenUp(r) \in Rows /\ GivenUp(r).provider = r.provider
         /\ GivenUp(r).state = "estimated" /\ GivenUp(r).remote = "failed"
<1>1. "estimated" \in RowStates /\ "failed" \in RemoteStates
  BY DEF RowStates, RemoteStates
<1> QED BY <1>1, ConcludedRow DEF GivenUp

-----------------------------------------------------------------------------
(* Books.                                                                  *)

LEMMA AttemptsFinite == \A S \in SUBSET Attempts : IsFiniteSet(S)
<1>1. 1 \in Int /\ MaxRows \in Int
  OBVIOUS
<1>2. IsFiniteSet(Attempts)
  BY <1>1, FS_Interval DEF Attempts
<1> QED BY <1>2, FS_Subset

\* A row that stays, or that closes with an account of what was asked.
Closes(a) ==
  \/ row'[a] = row[a]
  \/ /\ Open(a) /\ row'[a].state \in Over
     /\ row'[a].provider = row[a].provider
     /\ row'[a].remote \notin {"submitting", "started"}
     /\ row'[a].remote # "none" => row[a].remote # "none"
     /\ row'[a].state = "released" => asked[a] = <<>>
     /\ row'[a].state = "waived" => standing[a] \notin {"flying", "running", "completed"}

LEMMA BooksClose ==
  ASSUME BooksSound, \A a \in Attempts : Closes(a), UNCHANGED <<asked, standing>>,
         transcript' => transcript \/ \A a \in Attempts : ~Open(a)',
         ~session' => ~session \/ BeingCollected' = {}
  PROVE  BooksSound'
<1>1. ASSUME NEW a \in Attempts PROVE RowSound(a)'
  <2>1. RowSound(a) /\ Closes(a)
    BY DEF BooksSound
  <2>2. CASE row'[a] = row[a]
    BY <2>1, <2>2 DEF RowSound
  <2>3. CASE row'[a] # row[a]
    BY <2>1, <2>3 DEF RowSound, Closes, Over, Open
  <2> QED BY <2>2, <2>3
<1>2. \A a \in Attempts : row'[a].state = "absent" <=> row[a].state = "absent"
  BY DEF Closes, Over, Open
<1>3. Existing' = Existing
  BY <1>2 DEF Existing
<1>4. Paid(Existing)' \in SUBSET Paid(Existing) /\ Paid(Existing) \in SUBSET Attempts
  BY <1>3 DEF Paid, Existing, Closes, Open
<1>5. Cardinality(Paid(Existing)') <= MaxPaid
  <2>1. IsFiniteSet(Paid(Existing))
    BY <1>4, AttemptsFinite
  <2>2. /\ Cardinality(Paid(Existing)') <= Cardinality(Paid(Existing))
        /\ Cardinality(Paid(Existing)') \in Nat /\ Cardinality(Paid(Existing)) \in Nat
    BY <1>4, <2>1, FS_Subset, FS_CardinalityType
  <2> QED BY <2>2 DEF BooksSound
<1>6. \A a \in Attempts : Open(a)' => Open(a) /\ row'[a] = row[a]
  BY DEF Closes, Over, Open
<1>7. \A a, b \in Attempts : Open(a)' /\ Open(b)' => a = b
  BY <1>6 DEF BooksSound
<1>8. ProviderJobFailed' => \A a \in Attempts : ~Open(a)'
  <2> SUFFICES ASSUME NEW b \in Attempts, row'[b].remote = "failed", NEW a \in Attempts, Open(a)'
               PROVE  FALSE
    BY DEF ProviderJobFailed
  <2>1. CASE row'[b] = row[b]
    BY <1>6, <2>1 DEF BooksSound, ProviderJobFailed
  <2>2. CASE row'[b] # row[b]
    BY <1>6, <2>2 DEF BooksSound, Closes
  <2> QED BY <2>1, <2>2
<1>9. transcript' => \A a \in Attempts : ~Open(a)'
  BY <1>6 DEF BooksSound
<1>10. ~session' => BeingCollected' = {}
  <2>1. BeingCollected' \subseteq BeingCollected
    BY DEF BeingCollected, Closes
  <2> QED BY <2>1 DEF BooksSound
<1> QED BY <1>1, <1>3, <1>5, <1>7, <1>8, <1>9, <1>10 DEF BooksSound

-----------------------------------------------------------------------------
(* Slots.                                                                  *)

\* What every step leaves of a row that exists.
Persists(a) ==
  /\ row[a].state # "absent" => row'[a].provider = row[a].provider /\ row'[a].state # "absent"
  /\ row[a].state \notin {"absent", "reserved"} => row'[a].state \notin {"absent", "reserved"}

\* A slot that does not move, beside whoever does.
Untouched(v) ==
  /\ at'[v] = at[v]
  /\ Asking(v) => UNCHANGED <<session, transcript>> /\ row'[at[v].attempt] = row[at[v].attempt]
  /\ Owns(v) => /\ asked[at[v].attempt] = <<>> => asked'[at[v].attempt] = <<>>
                /\ standing[at[v].attempt] = "none" => standing'[at[v].attempt] = "none"

LEMMA SlotsKept ==
  ASSUME IInv, \A a \in Attempts : Persists(a),
         \A v \in Workers : Untouched(v) \/ (Holds(v)' /\ Apart(v)')
  PROVE  \A v \in Workers : Holds(v)' /\ Apart(v)'
<1> TAKE v \in Workers
<1>1. CASE Untouched(v)
  <2>1. Holds(v)'
    <3>1. Holds(v)
      BY DEF IInv
    <3>2. Owns(v) => at[v].attempt \in Attempts /\ Persists(at[v].attempt)
      BY <3>1 DEF Holds
    <3>3. at[v].pc = "answered" => Asking(v)
      BY DEF Asking
    <3> QED BY <1>1, <3>1, <3>2, <3>3 DEF Holds, Untouched, Persists, Owns, Asking
  <2>2. ASSUME NEW u \in Workers \ {v}
        PROVE  ~(Asking(u)' /\ Asking(v)') /\ (Owns(u)' /\ Owns(v)' => at'[u].attempt # at'[v].attempt)
    <3>1. CASE Untouched(u)
      <4>1. Apart(v)
        BY DEF IInv
      <4> QED BY <1>1, <3>1, <4>1 DEF Untouched, Apart, Asking, Owns
    <3>2. CASE Apart(u)'
      BY <3>2 DEF Apart
    <3> QED BY <3>1, <3>2
  <2>3. Apart(v)'
    BY <2>2 DEF Apart
  <2> QED BY <2>1, <2>3
<1>2. CASE ~Untouched(v)
  BY <1>2
<1> QED BY <1>1, <1>2

LEMMA ClosesPersists ==
  ASSUME NEW a \in Attempts, Closes(a)
  PROVE  Persists(a)
BY DEF Closes, Persists, Over, Open

\* Every step of a slot that holds the lock, or finds it free, leaves the other slots alone.
LEMMA OthersUntouched ==
  ASSUME IInv, NEW w \in Workers, LockFree \/ Asking(w), UNCHANGED <<asked, standing>>,
         \A v \in Workers \ {w} : at'[v] = at[v]
  PROVE  \A v \in Workers \ {w} : Untouched(v)
<1>1. \A v \in Workers \ {w} : ~Asking(v)
  BY DEF IInv, Apart, LockFree
<1> QED BY <1>1 DEF Untouched

LEMMA FinishFields ==
  ASSUME IInv, NEW w \in Workers, at[w].pc # "idle", Current(w), Finish(w), UNCHANGED count
  PROVE  /\ at' \in [Workers -> Places] /\ job' \in [Jobs -> JobRows]
         /\ setting' \in [on : BOOLEAN, fresh : BOOLEAN]
         /\ at'[w] = Idle /\ \A v \in Workers \ {w} : at'[v] = at[v]
         /\ JobsSound'
<1> DEFINE k == at[w].job
<1>1. TypeOK /\ JobsSound /\ k \in Jobs /\ job[k] \in JobRows
  BY DEF IInv, Holds, TypeOK
<1>2. Idle \in Places
  BY DEF Idle, Places, Steps
<1>3. at' = [at EXCEPT ![w] = Idle] /\ at \in [Workers -> Places]
  BY <1>1 DEF Finish, TypeOK
<1>4. at' \in [Workers -> Places] /\ at'[w] = Idle /\ \A v \in Workers \ {w} : at'[v] = at[v]
  BY <1>2, <1>3
<1> DEFINE r == [job[k] EXCEPT !.state = "done", !.begun = FALSE, !.older = FALSE]
<1>5. r \in JobRows /\ r.state = "done" /\ ~r.older
  BY <1>1 DEF JobRows
<1>6. job' = [job EXCEPT ![k] = r] /\ job \in [Jobs -> JobRows]
  BY <1>1 DEF Finish, TypeOK
<1>7. /\ job' \in [Jobs -> JobRows] /\ job'[k].state = "done" /\ ~job'[k].older
      /\ \A i \in Jobs \ {k} : job'[i] = job[i]
  <2> HIDE DEF r, k
  <2> QED BY <1>1, <1>5, <1>6
<1>8. setting' \in [on : BOOLEAN, fresh : BOOLEAN] /\ (setting'.fresh => job[k].older)
  BY <1>1 DEF Finish, TypeOK, JobRows
<1>9. JobsSound'
  BY <1>1, <1>7, <1>8 DEF JobsSound
<1> QED BY <1>4, <1>7, <1>8, <1>9

LEMMA ContinueFields ==
  ASSUME IInv, NEW w \in Workers, NEW step \in Steps, NEW a \in Attempts,
         at[w].pc # "idle", Current(w), Continue(w, step, a), UNCHANGED count
  PROVE  /\ at' \in [Workers -> Places] /\ job' \in [Jobs -> JobRows]
         /\ \A v \in Workers \ {w} : at'[v] = at[v]
         /\ at'[w].pc = "top" /\ at'[w].step = step /\ at'[w].attempt = a
         /\ at'[w].serves = at[w].serves /\ at'[w].job = at[w].job
         /\ JobsSound'
<1> DEFINE k == at[w].job
           p == [at[w] EXCEPT !.pc = "top", !.step = step, !.attempt = a, !.answer = "none"]
           r == [job[k] EXCEPT !.begun = TRUE, !.older = FALSE]
<1>1. TypeOK /\ JobsSound /\ k \in Jobs /\ job[k] \in JobRows /\ at[w] \in Places
  BY DEF IInv, Holds, TypeOK
<1>2. p \in Places /\ p.pc = "top" /\ p.step = step /\ p.attempt = a
      /\ p.serves = at[w].serves /\ p.job = k
  BY <1>1 DEF Places
<1>3. at' = [at EXCEPT ![w] = p] /\ at \in [Workers -> Places]
  BY <1>1 DEF Continue, TypeOK
<1>5. r \in JobRows /\ r.state = job[k].state /\ r.token = job[k].token /\ ~r.older
  BY <1>1 DEF JobRows
<1>6. job' = [job EXCEPT ![k] = r] /\ job \in [Jobs -> JobRows]
  BY <1>1 DEF Continue, TypeOK
<1>4. at' \in [Workers -> Places] /\ at'[w] = p /\ \A v \in Workers \ {w} : at'[v] = at[v]
  <2> HIDE DEF p
  <2> QED BY <1>2, <1>3
<1>7. /\ job' \in [Jobs -> JobRows]
      /\ \A i \in Jobs : /\ job'[i].state = job[i].state /\ job'[i].token = job[i].token
                         /\ job'[i].older => job[i].older
  <2> HIDE DEF r, k
  <2> QED BY <1>1, <1>5, <1>6
<1>8. setting' = setting
  BY DEF Continue
<1>9. JobsSound'
  BY <1>1, <1>7, <1>8 DEF JobsSound
<1> QED BY <1>2, <1>4, <1>7, <1>9

\* A chunk that commits with the end of its job.
LEMMA FinishKeeps ==
  ASSUME IInv, NEW w \in Workers, at[w].pc # "idle", LockFree \/ Asking(w), Current(w),
         Finish(w), UNCHANGED <<asked, standing, count>>,
         row' \in [Attempts -> Rows], {session', transcript'} \subseteq BOOLEAN,
         BooksSound', \A a \in Attempts : Persists(a)
  PROVE  IInv'
<1>1. /\ at' \in [Workers -> Places] /\ job' \in [Jobs -> JobRows]
      /\ setting' \in [on : BOOLEAN, fresh : BOOLEAN]
      /\ at'[w] = Idle /\ \A v \in Workers \ {w} : at'[v] = at[v]
      /\ JobsSound'
  BY FinishFields
<1>2. TypeOK'
  BY <1>1 DEF IInv, TypeOK
<1>3. \A v \in Workers \ {w} : Untouched(v)
  BY <1>1, OthersUntouched
<1>4. Holds(w)' /\ Apart(w)'
  BY <1>1 DEF Holds, Apart, Owns, Asking, Idle
<1>5. \A v \in Workers : Untouched(v) \/ (Holds(v)' /\ Apart(v)')
  BY <1>3, <1>4
<1>6. \A v \in Workers : Holds(v)' /\ Apart(v)'
  BY <1>5, SlotsKept
<1> QED BY <1>1, <1>2, <1>6 DEF IInv

\* A chunk that commits and goes on; if it marked an attempt, nobody else holds that one.
LEMMA ContinueKeeps ==
  ASSUME IInv, NEW w \in Workers, NEW step \in Steps, NEW a \in Attempts,
         at[w].pc # "idle", LockFree \/ Asking(w), Current(w),
         Continue(w, step, a), UNCHANGED <<asked, standing, count>>,
         row' \in [Attempts -> Rows], {session', transcript'} \subseteq BOOLEAN,
         BooksSound', \A b \in Attempts : Persists(b),
         step \in {"calling", "submit"} =>
           /\ at[w].serves \in Providers /\ row'[a].provider = at[w].serves
           /\ row'[a].state \notin {"absent", "reserved"} /\ asked[a] = <<>>
           /\ \A v \in Workers \ {w} : Owns(v) => at[v].attempt # a
  PROVE  IInv'
<1>1. /\ at' \in [Workers -> Places] /\ job' \in [Jobs -> JobRows]
      /\ \A v \in Workers \ {w} : at'[v] = at[v]
      /\ at'[w].pc = "top" /\ at'[w].step = step /\ at'[w].attempt = a
      /\ at'[w].serves = at[w].serves /\ at'[w].job = at[w].job
      /\ JobsSound'
  BY ContinueFields
<1>2. TypeOK'
  BY <1>1 DEF IInv, TypeOK, Continue
<1>3. \A v \in Workers \ {w} : Untouched(v)
  BY <1>1, OthersUntouched
<1>4. at[w].job \in Jobs
  BY DEF IInv, Holds
<1>5. Holds(w)' /\ Apart(w)'
  BY <1>1, <1>4 DEF Holds, Apart, Owns, Asking
<1>6. \A v \in Workers : Untouched(v) \/ (Holds(v)' /\ Apart(v)')
  BY <1>3, <1>5
<1>7. \A v \in Workers : Holds(v)' /\ Apart(v)'
  BY <1>6, SlotsKept
<1> QED BY <1>1, <1>2, <1>7 DEF IInv

\* A step of the scheduler, the sweep, the deletion, an admin or the provider.
LEMMA OutsideKeeps ==
  ASSUME IInv, TypeOK', JobsSound', BooksSound', UNCHANGED <<at, asked>>,
         LockFree \/ UNCHANGED <<row, session, transcript>>,
         \A a \in Attempts : Persists(a) /\ (standing[a] = "none" => standing'[a] = "none")
  PROVE  IInv'
<1>1. \A v \in Workers : Untouched(v)
  <2> TAKE v \in Workers
  <2>1. Owns(v) => at[v].attempt \in Attempts
    BY DEF IInv, Holds
  <2> QED BY <2>1 DEF Untouched, LockFree
<1>2. \A v \in Workers : Holds(v)' /\ Apart(v)'
  BY <1>1, SlotsKept
<1> QED BY <1>2 DEF IInv

\* A step that changes nothing but where one slot is.
LEMMA SlotKeeps ==
  ASSUME IInv, NEW w \in Workers, NEW p \in Places, at' = [at EXCEPT ![w] = p],
         UNCHANGED <<row, session, transcript, setting, standing, asked, count>>,
         job' \in [Jobs -> JobRows], JobsSound', Holds(w)', Apart(w)'
  PROVE  IInv'
<1>1. at \in [Workers -> Places]
  BY DEF IInv, TypeOK
<1>2. at' \in [Workers -> Places] /\ \A v \in Workers \ {w} : at'[v] = at[v]
  BY <1>1
<1>3. TypeOK' /\ BooksSound'
  BY <1>2 DEF IInv, TypeOK, BooksSound, RowSound, Existing, Paid, Open, BeingCollected,
    ProviderJobFailed
<1>4. \A a \in Attempts : Persists(a)
  BY DEF Persists
<1>5. \A v \in Workers : Untouched(v) \/ (Holds(v)' /\ Apart(v)')
  BY <1>2 DEF Untouched
<1>6. \A v \in Workers : Holds(v)' /\ Apart(v)'
  BY <1>4, <1>5, SlotsKept
<1> QED BY <1>3, <1>6 DEF IInv

-----------------------------------------------------------------------------
(* Steps that close rows.                                                  *)

LEMMA FinishClosing ==
  ASSUME IInv, NEW w \in Workers, at[w].pc # "idle", LockFree \/ Asking(w), Current(w),
         Finish(w), UNCHANGED <<session, asked, standing, count>>,
         row' \in [Attempts -> Rows], \A a \in Attempts : Closes(a),
         transcript' \in BOOLEAN,
         transcript' => transcript \/ \A a \in Attempts : ~Open(a)'
  PROVE  IInv'
<1>1. session \in BOOLEAN /\ BooksSound
  BY DEF IInv, TypeOK
<1>2. BooksSound'
  BY <1>1, BooksClose
<1>3. \A a \in Attempts : Persists(a)
  BY ClosesPersists
<1>4. {session', transcript'} \subseteq BOOLEAN
  BY <1>1
<1> QED BY <1>2, <1>3, <1>4, FinishKeeps

LEMMA ContinueClosing ==
  ASSUME IInv, NEW w \in Workers, NEW step \in Steps, NEW a \in Attempts,
         step \notin {"calling", "submit"},
         at[w].pc # "idle", LockFree \/ Asking(w), Current(w), Continue(w, step, a),
         UNCHANGED <<session, transcript, asked, standing, count>>,
         row' \in [Attempts -> Rows], \A b \in Attempts : Closes(b)
  PROVE  IInv'
<1>1. {session', transcript'} \subseteq BOOLEAN /\ BooksSound
  BY DEF IInv, TypeOK
<1>2. BooksSound'
  BY <1>1, BooksClose
<1>3. \A b \in Attempts : Persists(b)
  BY ClosesPersists
<1> QED BY <1>1, <1>2, <1>3, ContinueKeeps

\* One row, `calling` until now, is concluded.
LEMMA OneRowCloses ==
  ASSUME IInv, NEW a \in Attempts, NEW r \in Rows, row' = [row EXCEPT ![a] = r],
         row[a].state = "calling", r.provider = row[a].provider, r.state \in Over,
         r.remote \notin {"submitting", "started"}, r.remote # "none" => row[a].remote # "none",
         r.state = "released" => asked[a] = <<>>,
         r.state = "waived" => standing[a] \notin {"flying", "running", "completed"}
  PROVE  /\ row' \in [Attempts -> Rows] /\ \A b \in Attempts : Closes(b)
         /\ \A b \in Attempts : ~Open(b)'
<1>1. row \in [Attempts -> Rows]
  BY DEF IInv, TypeOK
<1>2. row' \in [Attempts -> Rows] /\ row'[a] = r /\ \A b \in Attempts \ {a} : row'[b] = row[b]
  BY <1>1
<1>3. Closes(a)
  BY <1>2 DEF Closes, Open
<1>4. \A b \in Attempts : Closes(b)
  BY <1>2, <1>3 DEF Closes
<1>5. \A b \in Attempts : Open(b) => a = b
  BY DEF IInv, BooksSound, Open
<1> QED BY <1>2, <1>4, <1>5 DEF Open, Over

LEMMA FinaliseCloses ==
  ASSUME IInv, NEW S \in SUBSET Attempts, S \cap BeingCollected = {}, FinaliseOpen(S)
  PROVE  row' \in [Attempts -> Rows] /\ \A a \in Attempts : Closes(a)
<1>1. row \in [Attempts -> Rows]
  BY DEF IInv, TypeOK
<1>2. \A a \in Attempts : row'[a] = IF a \in S THEN Closed(row[a]) ELSE row[a]
  BY DEF FinaliseOpen
<1>3. \A a \in Attempts : row'[a] \in Rows
  BY <1>1, <1>2, ClosedRow
<1>4. row' \in [Attempts -> Rows]
  BY <1>3 DEF FinaliseOpen
<1>5. ASSUME NEW a \in Attempts PROVE Closes(a)
  <2>1. RowSound(a)
    BY DEF IInv, BooksSound
  <2>2. CASE a \in S
    <3>1. /\ row'[a].provider = row[a].provider /\ row'[a].remote = row[a].remote
          /\ row[a].state = "reserved" => row'[a].state = "released"
          /\ row[a].state = "calling" => row'[a].state = "estimated"
          /\ row[a].state \notin {"reserved", "calling"} => row'[a] = row[a]
      BY <1>1, <1>2, <2>2, ClosedRow
    <3>2. row[a].remote \notin {"submitting", "started"}
      BY <2>2 DEF BeingCollected
    <3> QED BY <2>1, <3>1, <3>2 DEF Closes, Open, Over, RowSound
  <2>3. CASE a \notin S
    BY <1>2, <2>3 DEF Closes
  <2> QED BY <2>2, <2>3
<1> QED BY <1>4, <1>5

\* What a look finds.
LEMMA LookFacts ==
  ASSUME IInv, NEW w \in Workers, NEW a \in Attempts, LookedAt(w, a)
  PROVE  /\ at[w].pc # "idle" /\ LockFree /\ Current(w)
         /\ row[a] \in Rows /\ row[a].state = "calling" /\ row[a].remote # "none"
BY DEF IInv, TypeOK, LookedAt, Chunk, BeingCollected, BooksSound, RowSound

LEMMA LookPendingStep ==
  ASSUME IInv, NEW w \in Workers, NEW a \in Attempts, NEW expired \in BOOLEAN,
         LookPending(w, a, expired)
  PROVE  IInv'
<1>1. /\ LookedAt(w, a) /\ Finish(w)
      /\ UNCHANGED <<session, transcript, standing, asked, count>>
  BY DEF LookPending
<1>2. /\ at[w].pc # "idle" /\ LockFree /\ Current(w)
      /\ row[a] \in Rows /\ row[a].state = "calling" /\ row[a].remote # "none"
  BY <1>1, LookFacts
<1>3. row \in [Attempts -> Rows] /\ transcript' \in BOOLEAN
  BY <1>1 DEF IInv, TypeOK
<1>4. row' \in [Attempts -> Rows] /\ \A b \in Attempts : Closes(b)
  <2>1. CASE expired
    <3> DEFINE r == GivenUp(row[a])
    <3>1. row' = [row EXCEPT ![a] = r]
      BY <2>1 DEF LookPending
    <3>2. r \in Rows /\ r.provider = row[a].provider /\ r.state = "estimated" /\ r.remote = "failed"
      BY <1>2, GivenUpRow
    <3> HIDE DEF r
    <3> QED BY <1>2, <3>1, <3>2, OneRowCloses DEF Over
  <2>2. CASE ~expired
    BY <1>3, <2>2 DEF LookPending, Closes
  <2> QED BY <2>1, <2>2
<1> QED BY <1>1, <1>2, <1>3, <1>4, FinishClosing

LEMMA LookAmbiguousStep ==
  ASSUME IInv, NEW w \in Workers, NEW a \in Attempts, LookAmbiguous(w, a)
  PROVE  IInv'
<1> DEFINE r == Marked(Settled(row[a], "estimated"), "estimated")
<1>1. /\ LookedAt(w, a) /\ row' = [row EXCEPT ![a] = r]
      /\ UNCHANGED <<session, transcript, standing, asked, count>>
  BY DEF LookAmbiguous
<1>2. /\ at[w].pc # "idle" /\ LockFree /\ Current(w)
      /\ row[a] \in Rows /\ row[a].state = "calling" /\ row[a].remote # "none"
  BY <1>1, LookFacts
<1>3. r \in Rows /\ r.provider = row[a].provider /\ r.state = "estimated" /\ r.remote = "estimated"
  <2>1. "estimated" \in RowStates /\ "estimated" \in RemoteStates
    BY DEF RowStates, RemoteStates
  <2> QED BY <1>2, <2>1, ConcludedRow
<1> HIDE DEF r
<1>4. row' \in [Attempts -> Rows] /\ \A b \in Attempts : Closes(b)
  BY <1>1, <1>2, <1>3, OneRowCloses DEF Over
<1>5. CASE UnderCaps(Existing)
  <2>1. Continue(w, "retry", 1) /\ "retry" \in Steps /\ 1 \in Attempts
    BY <1>5 DEF LookAmbiguous, Steps, Attempts
  <2> QED BY <1>1, <1>2, <1>4, <2>1, ContinueClosing
<1>6. CASE ~UnderCaps(Existing)
  <2>1. Finish(w) /\ transcript' \in BOOLEAN
    BY <1>6 DEF LookAmbiguous, IInv, TypeOK
  <2> QED BY <1>1, <1>2, <1>4, <2>1, FinishClosing
<1> QED BY <1>5, <1>6

LEMMA LookFailedStep ==
  ASSUME IInv, NEW w \in Workers, NEW a \in Attempts, LookFailed(w, a)
  PROVE  IInv'
<1> DEFINE r == Marked(Settled(row[a], "waived"), "failed")
<1>1. /\ LookedAt(w, a) /\ row' = [row EXCEPT ![a] = r] /\ Finish(w)
      /\ UNCHANGED <<session, transcript, standing, asked, count>>
  BY DEF LookFailed
<1>2. /\ at[w].pc # "idle" /\ LockFree /\ Current(w)
      /\ row[a] \in Rows /\ row[a].state = "calling" /\ row[a].remote # "none"
  BY <1>1, LookFacts
<1>3. r \in Rows /\ r.provider = row[a].provider /\ r.state = "waived" /\ r.remote = "failed"
  <2>1. "waived" \in RowStates /\ "failed" \in RemoteStates
    BY DEF RowStates, RemoteStates
  <2> QED BY <1>2, <2>1, ConcludedRow
<1>4. standing[a] = "failed"
  <2>1. standing[a] \in {"none", "flying", "running", "completed", "failed"}
    BY DEF IInv, TypeOK
  <2> QED BY <2>1 DEF LookFailed, Seen
<1> HIDE DEF r
<1>5. row' \in [Attempts -> Rows] /\ \A b \in Attempts : Closes(b)
  BY <1>1, <1>2, <1>3, <1>4, OneRowCloses DEF Over
<1>6. transcript' \in BOOLEAN
  BY <1>1 DEF IInv, TypeOK
<1> QED BY <1>1, <1>2, <1>5, <1>6, FinishClosing

LEMMA LookCompletedStep ==
  ASSUME IInv, NEW w \in Workers, NEW a \in Attempts, LookCompleted(w, a)
  PROVE  IInv'
<1> DEFINE state == IF transcript THEN "estimated" ELSE "settled"
           r == Marked(Settled(row[a], state), "collected")
<1>1. /\ LookedAt(w, a) /\ row' = [row EXCEPT ![a] = r] /\ Finish(w) /\ transcript' \in BOOLEAN
      /\ UNCHANGED <<session, standing, asked, count>>
  BY DEF LookCompleted
<1>2. /\ at[w].pc # "idle" /\ LockFree /\ Current(w)
      /\ row[a] \in Rows /\ row[a].state = "calling" /\ row[a].remote # "none"
  BY <1>1, LookFacts
<1>3. r \in Rows /\ r.provider = row[a].provider /\ r.state = state /\ r.remote = "collected"
  <2>1. state \in RowStates /\ "collected" \in RemoteStates
    BY DEF RowStates, RemoteStates
  <2> HIDE DEF state
  <2> QED BY <1>2, <2>1, ConcludedRow
<1>4. r.state \in {"estimated", "settled"}
  BY <1>3
<1> HIDE DEF r
<1>5. /\ row' \in [Attempts -> Rows] /\ \A b \in Attempts : Closes(b)
      /\ \A b \in Attempts : ~Open(b)'
  BY <1>1, <1>2, <1>3, <1>4, OneRowCloses DEF Over
<1> QED BY <1>1, <1>2, <1>5, FinishClosing

\* A chunk that only ends its job.
LEMMA FinishOnly ==
  ASSUME IInv, NEW w \in Workers, Chunk(w), Finish(w),
         UNCHANGED <<row, session, transcript, standing, asked, count>>
  PROVE  IInv'
<1>1. at[w].pc # "idle" /\ LockFree /\ Current(w)
  BY DEF Chunk
<1>2. row' \in [Attempts -> Rows] /\ transcript' \in BOOLEAN
  BY DEF IInv, TypeOK
<1>3. \A a \in Attempts : Closes(a)
  BY DEF Closes
<1> QED BY <1>1, <1>2, <1>3, FinishClosing

LEMMA NothingToStartStep ==
  ASSUME IInv, NEW w \in Workers, NothingToStart(w)
  PROVE  IInv'
BY FinishOnly DEF NothingToStart

LEMMA LeaveToCollectStep ==
  ASSUME IInv, NEW w \in Workers, LeaveToCollect(w)
  PROVE  IInv'
BY FinishOnly DEF LeaveToCollect, Ensuring, Buying

LEMMA NotCallingStep ==
  ASSUME IInv, NEW w \in Workers, NotCalling(w)
  PROVE  IInv'
BY FinishOnly DEF NotCalling, Finishing

LEMMA CloseAttemptsStep ==
  ASSUME IInv, NEW w \in Workers, CloseAttempts(w)
  PROVE  IInv'
<1>1. /\ at[w].pc # "idle" /\ LockFree /\ Current(w) /\ Finish(w) /\ FinaliseOpen(Attempts)
      /\ UNCHANGED <<session, transcript, standing, asked, count>>
  BY DEF CloseAttempts, Ensuring, Buying, Chunk
<1>2. BeingCollected = {}
  <2>1. CASE session /\ ~transcript
    BY <2>1 DEF CloseAttempts
  <2>2. CASE ~session
    BY <2>2 DEF IInv, BooksSound
  <2>3. CASE transcript
    BY <2>3 DEF IInv, BooksSound, BeingCollected, RowSound, Open
  <2> QED BY <2>1, <2>2, <2>3
<1>3. row' \in [Attempts -> Rows] /\ \A a \in Attempts : Closes(a)
  BY <1>1, <1>2, FinaliseCloses
<1>4. transcript' \in BOOLEAN
  BY <1>1 DEF IInv, TypeOK
<1> QED BY <1>1, <1>3, <1>4, FinishClosing

-----------------------------------------------------------------------------
(* Steps that open one.                                                    *)

\* The next row of a call without a gap.
LEMMA NextRow ==
  ASSUME IInv, Cardinality(Existing) < MaxRows
  PROVE  LET next == Cardinality(Existing) + 1 IN
         /\ next \in Attempts \ Existing
         /\ \A b \in 1..next : b # next => b \in Existing
<1> DEFINE n == Cardinality(Existing)
<1>1. Existing \in SUBSET Attempts
  BY DEF Existing
<1>2. IsFiniteSet(Existing) /\ n \in Nat
  BY <1>1, AttemptsFinite, FS_CardinalityType
<1>3. n + 1 \in Attempts
  BY <1>2 DEF Attempts
<1>4. \A a \in Existing : \A b \in 1..a : b \in Existing
  BY DEF IInv, BooksSound
<1>5. n + 1 \notin Existing
  <2> SUFFICES ASSUME n + 1 \in Existing PROVE FALSE
    OBVIOUS
  <2>1. 1..(n + 1) \in SUBSET Existing
    BY <1>4
  <2>2. Cardinality(1..(n + 1)) = n + 1
    <3>1. 1 \in Int /\ n + 1 \in Int /\ 1 <= n + 1
      BY <1>2
    <3> HIDE DEF n
    <3>2. Cardinality(1..(n + 1)) = (n + 1) - 1 + 1
      BY <3>1, FS_Interval
    <3> QED BY <3>2, <1>2
  <2>3. Cardinality(1..(n + 1)) <= n
    BY <1>2, <2>1, FS_Subset
  <2> QED BY <1>2, <2>2, <2>3
<1>6. ASSUME NEW b \in 1..(n + 1), b # n + 1, b \notin Existing PROVE FALSE
  <2>1. b \in Nat /\ b >= 1 /\ b <= n
    BY <1>2, <1>6
  <2>2. Existing \in SUBSET (1..(b - 1))
    BY <1>1, <1>4, <1>6, <2>1 DEF Attempts
  <2>3. IsFiniteSet(1..(b - 1)) /\ Cardinality(1..(b - 1)) = b - 1
    <3>1. 1 \in Int /\ b - 1 \in Int
      BY <2>1
    <3>2. IsFiniteSet(1..(b - 1)) /\ Cardinality(1..(b - 1)) = IF 1 > b - 1 THEN 0 ELSE (b - 1) - 1 + 1
      BY <3>1, FS_Interval
    <3> QED BY <2>1, <3>2
  <2>4. n <= b - 1
    <3>1. Cardinality(Existing) <= Cardinality(1..(b - 1))
      BY <2>2, <2>3, FS_Subset
    <3> QED BY <2>3, <3>1
  <2> QED BY <1>2, <2>1, <2>4
<1> QED BY <1>3, <1>5, <1>6

\* A row is reserved, whatever else this step closes; the caps counted it.
LEMMA BooksOpen ==
  ASSUME IInv, Cardinality(Existing) < MaxRows,
         NEW state \in {"reserved", "calling"}, NEW p \in Providers,
         NEW next, next = Cardinality(Existing) + 1,
         row'[next] = NewRow(state, p),
         \A a \in Attempts \ {next} : Closes(a) /\ ~Open(a)',
         NEW S \in SUBSET Attempts, Cardinality(S) < MaxPaid,
         \A a \in Existing \ S : row'[a].state = "released",
         ~transcript', ~ProviderJobFailed', session', UNCHANGED <<asked, standing>>
  PROVE  BooksSound' /\ \A a \in Attempts : Persists(a)
<1>1. /\ next \in Attempts \ Existing
      /\ \A b \in 1..next : b # next => b \in Existing
  BY NextRow
<1>2. \A a \in Attempts : RowSound(a)
  BY DEF IInv, BooksSound
<1>3. row[next].state = "absent" /\ row[next] = AbsentRow /\ asked[next] = <<>> /\ standing[next] = "none"
  BY <1>1, <1>2 DEF RowSound, Existing
<1>4. row'[next].state = state /\ row'[next].provider = p /\ row'[next].remote = "none"
  BY DEF NewRow, AbsentRow
<1>5. ASSUME NEW a \in Attempts PROVE RowSound(a)'
  <2>1. CASE a = next
    BY <1>3, <1>4, <2>1 DEF RowSound
  <2>2. CASE a # next /\ row'[a] = row[a]
    BY <1>2, <2>2 DEF RowSound
  <2>3. CASE a # next /\ row'[a] # row[a]
    <3>1. Closes(a) /\ RowSound(a)
      BY <1>2, <2>3
    <3> QED BY <2>3, <3>1 DEF RowSound, Closes, Over, Open
  <2> QED BY <2>1, <2>2, <2>3
<1>6. Existing' = Existing \cup {next}
  <2>1. \A a \in Attempts \ {next} : row'[a].state = "absent" <=> row[a].state = "absent"
    BY DEF Closes, Over, Open
  <2> QED BY <1>1, <1>4, <2>1 DEF Existing
<1>7. \A a \in Existing' : \A b \in 1..a : b \in Existing'
  <2>1. \A a \in Existing : \A b \in 1..a : b \in Existing
    BY DEF IInv, BooksSound
  <2> QED BY <1>1, <1>6, <2>1
<1>8. Cardinality(Paid(Existing)') <= MaxPaid
  <2>1. Paid(Existing)' \in SUBSET (S \cup {next})
    BY <1>6 DEF Paid
  <2>2. IsFiniteSet(S)
    BY AttemptsFinite
  <2>3. /\ IsFiniteSet(S \cup {next}) /\ Cardinality(S) \in Nat
        /\ Cardinality(S \cup {next}) <= Cardinality(S) + 1
    <3>1. Cardinality(S) \in Nat
      BY <2>2, FS_CardinalityType
    <3>2. /\ IsFiniteSet(S \cup {next})
          /\ \/ Cardinality(S \cup {next}) = Cardinality(S)
             \/ Cardinality(S \cup {next}) = Cardinality(S) + 1
      BY <2>2, FS_AddElement
    <3> QED BY <3>1, <3>2
  <2>4. /\ Cardinality(Paid(Existing)') <= Cardinality(S \cup {next})
        /\ Cardinality(Paid(Existing)') \in Nat /\ Cardinality(S \cup {next}) \in Nat
    BY <2>1, <2>3, FS_Subset, FS_CardinalityType
  <2> QED BY <2>3, <2>4
<1>9. \A a, b \in Attempts : Open(a)' /\ Open(b)' => a = b
  OBVIOUS
<1>10. \A a \in Attempts : Persists(a)
  <2>1. \A a \in Attempts \ {next} : Persists(a)
    BY ClosesPersists
  <2>2. Persists(next)
    BY <1>3 DEF Persists
  <2> QED BY <2>1, <2>2
<1> QED BY <1>5, <1>7, <1>8, <1>9, <1>10 DEF BooksSound

LEMMA ServesProvider ==
  ASSUME IInv, NEW w \in Workers, Starts(w)
  PROVE  at[w].serves \in Providers
BY DEF IInv, TypeOK, Places, Starts

LEMMA BeginCallTranscriptionStep ==
  ASSUME IInv, NEW w \in Workers, NEW fits \in BOOLEAN, BeginCallTranscription(w, fits)
  PROVE  IInv'
<1>1. /\ Chunk(w) /\ at[w].pc # "idle" /\ LockFree /\ Current(w) /\ Starts(w)
      /\ UNCHANGED <<session, transcript, standing, asked, count>>
  BY DEF BeginCallTranscription, Buying, Chunk
<1>2. CASE Finish(w) /\ UNCHANGED row
  BY <1>1, <1>2, FinishOnly
<1>3. CASE ~transcript /\ (Existing = {} => ClearAttempt(fits))
  <2>1. /\ Continue(w, "reserved", 1) /\ "reserved" \in Steps /\ 1 \in Attempts
        /\ {session', transcript'} \subseteq BOOLEAN
    BY <1>1, <1>3 DEF BeginCallTranscription, Steps, Attempts, IInv, TypeOK
  <2>2. CASE Existing # {}
    <3>1. UNCHANGED row /\ row \in [Attempts -> Rows]
      BY <1>3, <2>2 DEF BeginCallTranscription, IInv, TypeOK
    <3>2. \A a \in Attempts : Closes(a)
      BY <3>1 DEF Closes
    <3> QED BY <1>1, <2>1, <3>1, <3>2, ContinueClosing
  <2>3. CASE Existing = {}
    <3> DEFINE p == at[w].serves
               r == NewRow("reserved", p)
    <3>1. row' = [row EXCEPT ![1] = r] /\ row \in [Attempts -> Rows] /\ session' = TRUE
      BY <1>1, <1>3, <2>3 DEF BeginCallTranscription, IInv, TypeOK, ClearAttempt
    <3>2. p \in Providers
      BY <1>1, ServesProvider
    <3>3. r \in Rows /\ r.remote = "none"
      BY <3>2 DEF NewRow, AbsentRow, Rows, RowStates, RemoteStates
    <3>4. \A a \in Attempts : row[a] = AbsentRow
      BY <2>3 DEF Existing, IInv, BooksSound, RowSound
    <3>5. row' \in [Attempts -> Rows] /\ row'[1] = r /\ \A a \in Attempts \ {1} : row'[a] = row[a]
      <4> HIDE DEF r
      <4> QED BY <3>1, <3>3, <2>1
    <3>6. Cardinality(Existing) = 0
      BY <2>3, FS_EmptySet
    <3>7. \A a \in Attempts \ {1} : Closes(a) /\ ~Open(a)'
      BY <3>4, <3>5 DEF Closes, Open, AbsentRow
    <3>8. ~ProviderJobFailed'
      BY <3>3, <3>4, <3>5 DEF ProviderJobFailed, AbsentRow
    <3>9. BooksSound' /\ \A a \in Attempts : Persists(a)
      <4>1. Cardinality(Existing) < MaxRows /\ Cardinality(Existing) < MaxPaid
            /\ 1 = Cardinality(Existing) + 1 /\ Existing \in SUBSET Attempts /\ ~transcript'
        BY <3>6, <1>1, <1>3 DEF Existing
      <4> HIDE DEF p
      <4> QED BY <3>1, <3>2, <3>5, <3>7, <3>8, <1>1, <4>1, BooksOpen
    <3> QED BY <1>1, <2>1, <3>5, <3>9, ContinueKeeps
  <2> QED BY <2>2, <2>3
<1> QED BY <1>2, <1>3 DEF BeginCallTranscription

\* The reservation the claim goes on with is the only open row.
LEMMA MarkCallingStep ==
  ASSUME IInv, NEW w \in Workers, NEW a \in Attempts, MarkCalling(w, a)
  PROVE  IInv'
<1>1. /\ at[w].pc # "idle" /\ LockFree /\ Current(w) /\ Starts(w) /\ ~Closing
      /\ Continue(w, "calling", a) /\ "calling" \in Steps
      /\ row[a].state = "reserved" /\ row[a].provider = at[w].serves
      /\ UNCHANGED <<session, transcript, standing, asked, count>>
  BY DEF MarkCalling, Ensuring, Buying, Chunk, ReservedHere, Steps
<1>2. TypeOK /\ BooksSound /\ row \in [Attempts -> Rows]
  BY DEF IInv, TypeOK
<1>3. Mismatched(w) = {}
  BY <1>1, <1>2 DEF Mismatched, BooksSound, Open, Existing
<1> DEFINE r == [row[a] EXCEPT !.state = "calling"]
<1>4. r \in Rows /\ r.state = "calling" /\ r.provider = row[a].provider /\ r.remote = row[a].remote
  BY <1>2 DEF Rows, RowStates
<1>5. row' = [b \in Attempts |-> IF b = a THEN r ELSE row[b]]
  BY <1>3 DEF MarkCalling
<1> HIDE DEF r
<1>6. /\ row' \in [Attempts -> Rows] /\ row'[a] = r
      /\ \A b \in Attempts \ {a} : row'[b] = row[b]
  BY <1>2, <1>4, <1>5
<1>7. row[a].remote = "none" /\ asked[a] = <<>> /\ RowSound(a)
  BY <1>1, <1>2 DEF BooksSound, RowSound
<1>8. \A b \in Attempts : RowSound(b)'
  <2>1. RowSound(a)'
    BY <1>1, <1>4, <1>6, <1>7 DEF RowSound
  <2>2. \A b \in Attempts \ {a} : RowSound(b)'
    BY <1>1, <1>2, <1>6 DEF BooksSound, RowSound
  <2> QED BY <2>1, <2>2
<1>9. Existing' = Existing /\ Paid(Existing)' = Paid(Existing) /\ BeingCollected' = BeingCollected
  BY <1>1, <1>4, <1>6 DEF Existing, Paid, BeingCollected
<1>10. \A b \in Attempts : Open(b)' <=> Open(b)
  BY <1>1, <1>4, <1>6 DEF Open
<1>11. ~transcript' /\ ~ProviderJobFailed' /\ session'
  BY <1>1, <1>4, <1>6 DEF Closing, ProviderJobFailed
<1>12. BooksSound'
  BY <1>2, <1>8, <1>9, <1>10, <1>11 DEF BooksSound
<1>13. \A b \in Attempts : Persists(b)
  BY <1>1, <1>4, <1>6 DEF Persists
<1>14. at[w].serves \in Providers
  BY <1>1, ServesProvider
<1>15. \A v \in Workers \ {w} : Owns(v) => at[v].attempt # a
  BY <1>1 DEF IInv, Holds
<1>16. {session', transcript'} \subseteq BOOLEAN
  BY <1>1, <1>2 DEF TypeOK
<1> QED BY <1>1, <1>4, <1>6, <1>7, <1>12, <1>13, <1>14, <1>15, <1>16, ContinueKeeps

LEMMA BuyAttemptStep ==
  ASSUME IInv, NEW w \in Workers, NEW fits \in BOOLEAN, BuyAttempt(w, fits)
  PROVE  IInv'
<1> DEFINE next == Cardinality(Existing) + 1
           p == at[w].serves
<1>1. /\ at[w].pc # "idle" /\ LockFree /\ Current(w) /\ Starts(w) /\ ~Closing
      /\ BeingCollected = {} /\ ReservedHere(w) = {}
      /\ UNCHANGED <<session, transcript, standing, asked, count>>
  BY DEF BuyAttempt, Ensuring, Buying, Chunk
<1>2. TypeOK /\ BooksSound /\ row \in [Attempts -> Rows] /\ {session', transcript'} \subseteq BOOLEAN
  BY <1>1 DEF IInv, TypeOK
<1>3. CASE ~(UnderCaps(Existing \ Mismatched(w)) /\ ClearAttempt(fits))
  <2>1. FinaliseOpen(Resolved(w)) /\ Finish(w)
    BY <1>3 DEF BuyAttempt
  <2>2. Resolved(w) \in SUBSET Attempts
    BY DEF Resolved, Mismatched, Existing
  <2>3. row' \in [Attempts -> Rows] /\ \A a \in Attempts : Closes(a)
    BY <1>1, <2>1, <2>2, FinaliseCloses
  <2> QED BY <1>1, <1>2, <2>1, <2>3, FinishClosing
<1>4. CASE UnderCaps(Existing \ Mismatched(w)) /\ ClearAttempt(fits)
  <2> DEFINE S == Paid(Existing \ Mismatched(w))
  <2>1. /\ row' = [a \in Attempts |-> IF a = next THEN NewRow("calling", p)
                                     ELSE IF a \in Resolved(w) THEN Closed(row[a]) ELSE row[a]]
        /\ Continue(w, "calling", next) /\ "calling" \in Steps
    BY <1>4 DEF BuyAttempt, Steps
  <2>2. Cardinality(Existing) < MaxRows /\ Cardinality(S) < MaxPaid /\ S \in SUBSET Attempts
    BY <1>4 DEF UnderCaps, Paid, Existing
  <2>3. next \in Attempts \ Existing
    BY <2>2, NextRow
  <2>4. p \in Providers
    BY <1>1, ServesProvider
  <2>5. NewRow("calling", p) \in Rows /\ NewRow("calling", p).remote = "none"
        /\ NewRow("calling", p).state = "calling" /\ NewRow("calling", p).provider = p
    BY <2>4 DEF NewRow, AbsentRow, Rows, RowStates, RemoteStates
  <2> HIDE DEF next, p, S
  <2>6. row'[next] = NewRow("calling", p)
    BY <2>1, <2>3
  <2>7. ASSUME NEW a \in Attempts \ {next}
        PROVE  row'[a] \in Rows /\ Closes(a) /\ ~Open(a)' /\ row'[a].remote = row[a].remote
    <3>1. RowSound(a) /\ row[a] \in Rows /\ row[a].remote \notin {"submitting", "started"}
      BY <1>1, <1>2 DEF BooksSound, BeingCollected
    <3>2. CASE a \in Resolved(w)
      <4>1. row'[a] = Closed(row[a])
        BY <2>1, <3>2
      <4>2. /\ row'[a] \in Rows /\ row'[a].provider = row[a].provider
            /\ row'[a].remote = row[a].remote
            /\ row[a].state = "reserved" => row'[a].state = "released"
            /\ row[a].state = "calling" => row'[a].state = "estimated"
        BY <3>1, <4>1, ClosedRow
      <4>3. row[a].state \in {"reserved", "calling"}
        BY <3>2 DEF Resolved, Mismatched
      <4> QED BY <3>1, <4>2, <4>3 DEF Closes, Open, Over, RowSound
    <3>3. CASE a \notin Resolved(w)
      <4>1. row'[a] = row[a]
        BY <2>1, <3>3
      <4>2. ~Open(a)
        BY <1>1, <3>3 DEF Resolved, Mismatched, ReservedHere, Open, Existing
      <4> QED BY <3>1, <4>1, <4>2 DEF Closes, Open
    <3> QED BY <3>2, <3>3
  <2>8. row' \in [Attempts -> Rows]
    <3>1. \A a \in Attempts : row'[a] \in Rows
      BY <2>5, <2>6, <2>7
    <3> QED BY <2>1, <3>1
  <2>9. \A a \in Existing \ S : row'[a].state = "released"
    <3> SUFFICES ASSUME NEW a \in Existing \ S PROVE row'[a].state = "released"
      OBVIOUS
    <3>1. a \in Attempts /\ a # next /\ row[a] \in Rows
      BY <1>2, <2>3 DEF Existing
    <3>2. CASE a \in Mismatched(w)
      <4>1. row'[a] = Closed(row[a]) /\ row[a].state = "reserved"
        BY <2>1, <3>1, <3>2 DEF Resolved, Mismatched
      <4> QED BY <3>1, <4>1, ClosedRow
    <3>3. CASE a \notin Mismatched(w)
      <4>1. row[a].state = "released"
        BY <3>3 DEF S, Paid
      <4>2. Closes(a)
        BY <2>7, <3>1
      <4> QED BY <4>1, <4>2 DEF Closes, Open
    <3> QED BY <3>2, <3>3
  <2>10. ~transcript' /\ session' /\ ~ProviderJobFailed'
    <3>1. ~transcript' /\ session'
      BY <1>1 DEF Closing
    <3>2. \A a \in Attempts : row'[a].remote # "failed"
      BY <1>1, <2>5, <2>6, <2>7 DEF Closing, ProviderJobFailed
    <3> QED BY <3>1, <3>2 DEF ProviderJobFailed
  <2>11. BooksSound' /\ \A a \in Attempts : Persists(a)
    BY <1>1, <2>2, <2>4, <2>6, <2>7, <2>9, <2>10, BooksOpen DEF next
  <2>12. asked[next] = <<>> /\ \A v \in Workers \ {w} : Owns(v) => at[v].attempt # next
    <3>1. row[next].state = "absent"
      BY <2>3 DEF Existing
    <3>2. asked[next] = <<>>
      BY <1>2, <2>3, <3>1 DEF BooksSound, RowSound
    <3>3. \A v \in Workers \ {w} : Owns(v) => at[v].attempt # next
      BY <3>1 DEF IInv, Holds
    <3> QED BY <3>2, <3>3
  <2>13. /\ at[w].serves \in Providers /\ row'[next].provider = at[w].serves
         /\ row'[next].state \notin {"absent", "reserved"}
    BY <2>4, <2>5, <2>6 DEF p
  <2> QED BY <1>1, <1>2, <2>1, <2>3, <2>8, <2>11, <2>12, <2>13, ContinueKeeps
<1> QED BY <1>3, <1>4

-----------------------------------------------------------------------------
(* The chunk that asks.                                                    *)

\* What a claim knows of the attempt it marked and may still call.
LEMMA CallableFacts ==
  ASSUME IInv, NEW w \in Workers, Finishing(w), Callable(w)
  PROVE  /\ at[w].pc = "top" /\ LockFree /\ Current(w) /\ Owns(w)
         /\ at[w].attempt \in Attempts /\ row[at[w].attempt] \in Rows
         /\ row[at[w].attempt].state = "calling" /\ asked[at[w].attempt] = <<>>
         /\ row[at[w].attempt].provider = at[w].serves /\ at[w].serves \in Providers
         /\ row[at[w].attempt].remote =
              IF IsAsync(w) THEN row[at[w].attempt].remote ELSE "none"
<1> DEFINE a == at[w].attempt
<1>1. at[w].pc = "top" /\ LockFree /\ Current(w) /\ Owns(w)
  BY DEF Finishing, Chunk, Owns
<1>2. /\ a \in Attempts /\ at[w].serves \in Providers /\ row[a].provider = at[w].serves
      /\ asked[a] = <<>>
  BY <1>1 DEF IInv, Holds
<1>3. row[a] \in Rows /\ row[a].state = "calling"
  BY <1>2 DEF IInv, TypeOK, Callable
<1>4. ~IsAsync(w) => row[a].remote = "none"
  BY <1>2 DEF IInv, BooksSound, RowSound, IsAsync
<1> QED BY <1>1, <1>2, <1>3, <1>4

\* A slot in the chunk that asks.
LEMMA AskingFacts ==
  ASSUME IInv, NEW w \in Workers, Asking(w)
  PROVE  /\ at[w].pc # "idle" /\ Owns(w) /\ session /\ ~transcript
         /\ at[w].attempt \in Attempts /\ row[at[w].attempt] \in Rows
         /\ row[at[w].attempt].state = "calling"
         /\ row[at[w].attempt].provider = at[w].serves /\ at[w].serves \in Providers
         /\ row[at[w].attempt].remote = IF IsAsync(w) THEN "submitting" ELSE "none"
BY DEF IInv, TypeOK, Holds, Asking, IsAsync

LEMMA WithholdKeeps ==
  ASSUME IInv, NEW w \in Workers, at[w].pc # "idle", LockFree \/ Asking(w), Current(w),
         at[w].attempt \in Attempts, row[at[w].attempt].state = "calling",
         asked[at[w].attempt] = <<>>, Withhold(w)
  PROVE  IInv'
<1> DEFINE a == at[w].attempt
           r == NotCalled(row[a])
<1>1. /\ row' = [row EXCEPT ![a] = r] /\ Finish(w)
      /\ UNCHANGED <<session, transcript, standing, asked, count>>
  BY DEF Withhold
<1>2. row[a] \in Rows /\ transcript' \in BOOLEAN
  BY <1>1 DEF IInv, TypeOK
<1>3. /\ r \in Rows /\ r.provider = row[a].provider /\ r.state = "released"
      /\ r.remote = IF row[a].remote = "none" THEN "none" ELSE "estimated"
  BY <1>2, NotCalledRow
<1> HIDE DEF r
<1>4. row' \in [Attempts -> Rows] /\ \A b \in Attempts : Closes(b)
  BY <1>1, <1>3, OneRowCloses DEF Over
<1> QED BY <1>1, <1>2, <1>4, FinishClosing

LEMMA RefrainStep ==
  ASSUME IInv, NEW w \in Workers, Refrain(w)
  PROVE  IInv'
<1>1. Finishing(w) /\ Callable(w) /\ Withhold(w)
  BY DEF Refrain
<1> QED BY <1>1, CallableFacts, WithholdKeeps

LEMMA RefrainLateStep ==
  ASSUME IInv, NEW w \in Workers, RefrainLate(w)
  PROVE  IInv'
<1>1. Asking(w) /\ Current(w) /\ Withhold(w)
  BY DEF RefrainLate, Asking
<1>2. asked[at[w].attempt] = <<>>
  BY <1>1, AskingFacts DEF RefrainLate, IInv, Holds
<1> QED BY <1>1, <1>2, AskingFacts, WithholdKeeps

\* The provider job of a row that is `calling` gets or confirms its names.
LEMMA BooksMarked ==
  ASSUME IInv, NEW a \in Attempts, NEW remote \in {"submitting", "started"},
         row[a].state = "calling", row[a].provider \in Async, session,
         row' = [row EXCEPT ![a] = Marked(row[a], remote)],
         UNCHANGED <<session, transcript, standing, asked>>
  PROVE  /\ row' \in [Attempts -> Rows] /\ BooksSound' /\ \A b \in Attempts : Persists(b)
         /\ row'[a].state = "calling" /\ row'[a].provider = row[a].provider
<1> DEFINE r == Marked(row[a], remote)
<1>1. row \in [Attempts -> Rows] /\ BooksSound /\ row[a] \in Rows /\ remote \in RemoteStates
  BY DEF IInv, TypeOK, RemoteStates
<1>2. r \in Rows /\ r.state = "calling" /\ r.provider = row[a].provider /\ r.remote = remote
  BY <1>1, MarkedRow
<1> HIDE DEF r
<1>3. row' = [row EXCEPT ![a] = r]
  BY DEF r
<1>4. row' \in [Attempts -> Rows] /\ row'[a] = r /\ \A b \in Attempts \ {a} : row'[b] = row[b]
  BY <1>1, <1>2, <1>3
<1>5. RowSound(a)'
  BY <1>1, <1>2, <1>4 DEF BooksSound, RowSound
<1>6. \A b \in Attempts \ {a} : RowSound(b)'
  BY <1>1, <1>4 DEF BooksSound, RowSound
<1>7. Existing' = Existing /\ Paid(Existing)' = Paid(Existing)
  BY <1>2, <1>4 DEF Existing, Paid
<1>8. \A b \in Attempts : Open(b)' <=> Open(b)
  BY <1>2, <1>4 DEF Open
<1>9. ProviderJobFailed' => ProviderJobFailed
  BY <1>2, <1>4 DEF ProviderJobFailed
<1>10. BooksSound'
  BY <1>1, <1>5, <1>6, <1>7, <1>8, <1>9 DEF BooksSound
<1>11. \A b \in Attempts : Persists(b)
  BY <1>2, <1>4 DEF Persists
<1> QED BY <1>2, <1>4, <1>10, <1>11

LEMMA PrepareStep ==
  ASSUME IInv, NEW w \in Workers, Prepare(w)
  PROVE  IInv'
<1> DEFINE a == at[w].attempt
<1>1. /\ Finishing(w) /\ Callable(w) /\ IsAsync(w) /\ session
      /\ row' = [row EXCEPT ![a].remote = "submitting"]
      /\ Continue(w, "submit", a) /\ "submit" \in Steps
      /\ UNCHANGED <<session, transcript, standing, asked, count>>
  BY DEF Prepare, Authorized, Steps
<1>2. /\ at[w].pc # "idle" /\ LockFree /\ Current(w) /\ Owns(w) /\ a \in Attempts
      /\ row[a].state = "calling" /\ asked[a] = <<>>
      /\ row[a].provider = at[w].serves /\ at[w].serves \in Providers
  BY <1>1, CallableFacts
<1>3. row' = [row EXCEPT ![a] = Marked(row[a], "submitting")]
  BY <1>1, <1>2 DEF Marked, IInv, TypeOK
<1>4. row[a].provider \in Async
  BY <1>1, <1>2 DEF IsAsync
<1> HIDE DEF a
<1>5. /\ row' \in [Attempts -> Rows] /\ BooksSound' /\ \A b \in Attempts : Persists(b)
      /\ row'[a].state = "calling" /\ row'[a].provider = row[a].provider
  BY <1>1, <1>2, <1>3, <1>4, BooksMarked
<1>6. \A v \in Workers \ {w} : Owns(v) => at[v].attempt # a
  BY <1>2 DEF IInv, Apart, a
<1>7. {session', transcript'} \subseteq BOOLEAN
  BY <1>1 DEF IInv, TypeOK
<1> QED BY <1>1, <1>2, <1>5, <1>6, <1>7, ContinueKeeps

LEMMA OpenSendStep ==
  ASSUME IInv, NEW w \in Workers, OpenSend(w)
  PROVE  IInv'
<1> DEFINE p == [at[w] EXCEPT !.pc = "fetching"]
<1>1. /\ Finishing(w) /\ Callable(w) /\ session /\ ~transcript
      /\ IsAsync(w) => row[at[w].attempt].remote = "submitting"
      /\ UNCHANGED <<row, job, session, transcript, setting, standing, asked, count>>
  BY DEF OpenSend, Authorized
<1>2. /\ LockFree /\ Owns(w) /\ row[at[w].attempt].state = "calling"
      /\ at[w].attempt \in Attempts /\ at[w].serves \in Providers
      /\ row[at[w].attempt].provider = at[w].serves /\ asked[at[w].attempt] = <<>>
      /\ row[at[w].attempt].remote = IF IsAsync(w) THEN "submitting" ELSE "none"
      /\ at[w].pc = "top"
  BY <1>1, CallableFacts
<1>3. TypeOK /\ JobsSound /\ at[w] \in Places /\ Holds(w) /\ Apart(w)
  BY DEF IInv, TypeOK
<1>4. /\ p \in Places /\ p.pc = "fetching" /\ p.job = at[w].job /\ p.step = at[w].step
      /\ p.attempt = at[w].attempt /\ p.serves = at[w].serves
  BY <1>3 DEF Places
<1>5. at' = [at EXCEPT ![w] = p]
  BY <1>3 DEF OpenSend, TypeOK
<1> HIDE DEF p
<1>6. at'[w] = p /\ \A v \in Workers \ {w} : at'[v] = at[v]
  BY <1>3, <1>5 DEF TypeOK
<1>7. Holds(w)'
  BY <1>1, <1>2, <1>3, <1>4, <1>6 DEF Holds, Owns, Asking, IsAsync
<1>8. Apart(w)'
  BY <1>2, <1>3, <1>4, <1>6 DEF Apart, Owns, Asking, LockFree
<1>9. job' \in [Jobs -> JobRows] /\ JobsSound'
  BY <1>1, <1>3 DEF TypeOK, JobsSound
<1> QED BY <1>1, <1>4, <1>5, <1>7, <1>8, <1>9, SlotKeeps

LEMMA UploadFailsStep ==
  ASSUME IInv, NEW w \in Workers, UploadFails(w)
  PROVE  IInv'
<1> DEFINE p == [at[w] EXCEPT !.pc = "answered", !.answer = "refused"]
<1>1. /\ at[w].pc = "fetching" /\ Asking(w)
      /\ UNCHANGED <<row, job, session, transcript, setting, standing, asked, count>>
  BY DEF UploadFails, Asking
<1>2. TypeOK /\ JobsSound /\ at[w] \in Places /\ Holds(w) /\ Apart(w) /\ BooksSound
  BY DEF IInv, TypeOK
<1>3. at[w].attempt \in Attempts /\ asked[at[w].attempt] = <<>>
  BY <1>1, <1>2 DEF Holds
<1>4. standing[at[w].attempt] = "none"
  BY <1>2, <1>3 DEF BooksSound, RowSound
<1>5. /\ p \in Places /\ p.pc = "answered" /\ p.job = at[w].job /\ p.step = at[w].step
      /\ p.attempt = at[w].attempt /\ p.serves = at[w].serves
  BY <1>2 DEF Places
<1>6. at' = [at EXCEPT ![w] = p]
  BY <1>2 DEF UploadFails, TypeOK
<1> HIDE DEF p
<1>7. at'[w] = p /\ \A v \in Workers \ {w} : at'[v] = at[v]
  BY <1>2, <1>6 DEF TypeOK
<1>8. Holds(w)'
  BY <1>1, <1>2, <1>4, <1>5, <1>7 DEF Holds, Owns, Asking
<1>9. Apart(w)'
  BY <1>1, <1>2, <1>5, <1>7 DEF Apart, Owns, Asking
<1>10. job' \in [Jobs -> JobRows] /\ JobsSound'
  BY <1>1, <1>2 DEF TypeOK, JobsSound
<1> QED BY <1>1, <1>5, <1>6, <1>8, <1>9, <1>10, SlotKeeps

LEMMA FinalCheckStep ==
  ASSUME IInv, NEW w \in Workers, FinalCheck(w)
  PROVE  IInv'
<1> DEFINE p == [at[w] EXCEPT !.pc = "requesting"]
<1>1. /\ at[w].pc = "fetching" /\ Asking(w)
      /\ UNCHANGED <<row, job, session, transcript, setting, standing, asked, count>>
  BY DEF FinalCheck, Asking
<1>2. TypeOK /\ JobsSound /\ at[w] \in Places /\ Holds(w) /\ Apart(w)
  BY DEF IInv, TypeOK
<1>3. /\ p \in Places /\ p.pc = "requesting" /\ p.job = at[w].job /\ p.step = at[w].step
      /\ p.attempt = at[w].attempt /\ p.serves = at[w].serves
  BY <1>2 DEF Places
<1>4. at' = [at EXCEPT ![w] = p]
  BY <1>2 DEF FinalCheck, TypeOK
<1> HIDE DEF p
<1>5. at'[w] = p /\ \A v \in Workers \ {w} : at'[v] = at[v]
  BY <1>2, <1>4 DEF TypeOK
<1>6. Holds(w)'
  BY <1>1, <1>2, <1>3, <1>5 DEF Holds, Owns, Asking
<1>7. Apart(w)'
  BY <1>1, <1>2, <1>3, <1>5 DEF Apart, Owns, Asking
<1>8. job' \in [Jobs -> JobRows] /\ JobsSound'
  BY <1>1, <1>2 DEF TypeOK, JobsSound
<1> QED BY <1>1, <1>3, <1>4, <1>6, <1>7, <1>8, SlotKeeps

\* The paid request: its attempt is `calling`, and no other slot holds that attempt.
LEMMA AskProviderStep ==
  ASSUME IInv, NEW w \in Workers, NEW answer \in {"ok", "refused", "unknown"},
         AskProvider(w, answer)
  PROVE  IInv'
<1> DEFINE a == at[w].attempt
           p == [at[w] EXCEPT !.pc = "answered", !.answer = answer]
<1>1. /\ at[w].pc = "requesting" /\ Asking(w)
      /\ asked' = [asked EXCEPT ![a] = Append(asked[a], at[w].serves)]
      /\ UNCHANGED <<row, job, session, transcript, setting, count>>
  BY DEF AskProvider, Asking
<1>2. TypeOK /\ JobsSound /\ BooksSound /\ at[w] \in Places /\ Holds(w) /\ Apart(w)
  BY DEF IInv, TypeOK
<1>3. /\ a \in Attempts /\ asked[a] = <<>> /\ Owns(w) /\ row[a].state = "calling"
      /\ row[a].provider = at[w].serves /\ at[w].serves \in Providers
  BY <1>1, <1>2, AskingFacts DEF Holds
<1>4. standing[a] = "none"
  BY <1>2, <1>3 DEF BooksSound, RowSound
<1>5. /\ standing' \in [Attempts -> {"none", "flying", "running", "completed", "failed"}]
      /\ \A b \in Attempts \ {a} : standing'[b] = standing[b]
      /\ answer = "refused" => standing'[a] = "none"
  <2>1. standing \in [Attempts -> {"none", "flying", "running", "completed", "failed"}]
    BY <1>2 DEF TypeOK
  <2>2. CASE answer = "refused"
    BY <1>4, <2>1, <2>2 DEF AskProvider
  <2>3. CASE answer = "ok"
    <3>1. standing' = [standing EXCEPT ![a] = Accepted(a)] /\ Accepted(a) \in {"running", "completed"}
      BY <2>3 DEF AskProvider, Accepted
    <3> HIDE DEF a
    <3> QED BY <2>1, <2>3, <3>1, <1>3
  <2>4. CASE answer = "unknown"
    <3>1. standing' = [standing EXCEPT ![a] = "flying"]
      BY <2>4 DEF AskProvider
    <3> QED BY <2>1, <2>4, <3>1, <1>3
  <2> QED BY <2>2, <2>3, <2>4
<1>6. /\ p \in Places /\ p.pc = "answered" /\ p.answer = answer /\ p.job = at[w].job
      /\ p.step = at[w].step /\ p.attempt = at[w].attempt /\ p.serves = at[w].serves
  BY <1>2 DEF Places
<1>7. at' = [at EXCEPT ![w] = p] /\ at \in [Workers -> Places]
  BY <1>2 DEF AskProvider, TypeOK
<1> HIDE DEF p
<1>8. /\ at' \in [Workers -> Places] /\ at'[w] = p
      /\ \A v \in Workers \ {w} : at'[v] = at[v]
  BY <1>6, <1>7
<1>9. /\ asked' \in [Attempts -> Seq(Providers)] /\ asked'[a] = <<row[a].provider>>
      /\ \A b \in Attempts \ {a} : asked'[b] = asked[b]
  <2>1. Append(asked[a], at[w].serves) = <<at[w].serves>> /\ <<at[w].serves>> \in Seq(Providers)
    BY <1>3
  <2>2. asked \in [Attempts -> Seq(Providers)]
    BY <1>2 DEF TypeOK
  <2> HIDE DEF a
  <2> QED BY <1>1, <1>3, <2>1, <2>2
<1>10. TypeOK'
  BY <1>1, <1>2, <1>5, <1>8, <1>9 DEF TypeOK
<1>11. BooksSound'
  <2>1. ASSUME NEW b \in Attempts, b = a PROVE RowSound(b)'
    <3>1. asked'[b] = <<row[b].provider>> /\ asked'[b] # <<>>
      <4>1. asked'[b] = <<row[b].provider>>
        BY <1>9, <2>1
      <4>2. Len(<<row[b].provider>>) = 1 /\ Len(<<>>) = 0
        OBVIOUS
      <4> QED BY <4>1, <4>2
    <3>2. RowSound(b) /\ row'[b] = row[b] /\ row[b].state = "calling"
      BY <1>1, <1>2, <1>3, <2>1 DEF BooksSound
    <3> QED BY <3>1, <3>2 DEF RowSound
  <2>2. \A b \in Attempts \ {a} : RowSound(b)'
    BY <1>1, <1>2, <1>5, <1>9 DEF BooksSound, RowSound
  <2>3. /\ Existing' = Existing /\ Paid(Existing)' = Paid(Existing)
        /\ BeingCollected' = BeingCollected
        /\ ProviderJobFailed' <=> ProviderJobFailed
        /\ \A b \in Attempts : Open(b)' <=> Open(b)
    BY <1>1 DEF Existing, Paid, BeingCollected, ProviderJobFailed, Open
  <2> QED BY <1>1, <1>2, <2>1, <2>2, <2>3 DEF BooksSound
<1>12. JobsSound'
  BY <1>1, <1>2 DEF JobsSound
<1>13. Holds(w)' /\ Apart(w)'
  <2>1. Holds(w)'
    BY <1>1, <1>2, <1>3, <1>5, <1>6, <1>8 DEF Holds, Owns, Asking
  <2>2. Apart(w)'
    BY <1>1, <1>2, <1>6, <1>8 DEF Apart, Owns, Asking
  <2> QED BY <2>1, <2>2
<1>14. \A v \in Workers \ {w} : Untouched(v)
  <2> TAKE v \in Workers \ {w}
  <2>1. Owns(v) => at[v].attempt \in Attempts \ {a}
    BY <1>2, <1>3 DEF Apart, IInv, Holds
  <2> QED BY <1>1, <1>5, <1>8, <1>9, <2>1 DEF Untouched
<1>15. \A b \in Attempts : Persists(b)
  BY <1>1 DEF Persists
<1>16. \A v \in Workers : Holds(v)' /\ Apart(v)'
  <2>1. \A v \in Workers : Untouched(v) \/ (Holds(v)' /\ Apart(v)')
    BY <1>13, <1>14
  <2> QED BY <1>15, <2>1, SlotsKept
<1> QED BY <1>10, <1>11, <1>12, <1>16 DEF IInv

LEMMA RecordRefusedStep ==
  ASSUME IInv, NEW w \in Workers, RecordRefused(w)
  PROVE  IInv'
<1> DEFINE a == at[w].attempt
           r == IF IsAsync(w) THEN Marked(Settled(row[a], "waived"), "failed")
                ELSE Settled(row[a], "waived")
<1>1. /\ at[w].pc = "answered" /\ at[w].answer = "refused" /\ Asking(w) /\ Current(w)
      /\ row' = [row EXCEPT ![a] = r] /\ Finish(w)
      /\ UNCHANGED <<session, transcript, standing, asked, count>>
  BY DEF RecordRefused, Recording, Asking
<1>2. /\ at[w].pc # "idle" /\ a \in Attempts /\ row[a] \in Rows /\ row[a].state = "calling"
      /\ row[a].remote = IF IsAsync(w) THEN "submitting" ELSE "none"
  BY <1>1, AskingFacts
<1>3. /\ r \in Rows /\ r.provider = row[a].provider /\ r.state = "waived"
      /\ r.remote \notin {"submitting", "started"}
      /\ r.remote # "none" => row[a].remote # "none"
  <2>1. "waived" \in RowStates /\ "failed" \in RemoteStates
    BY DEF RowStates, RemoteStates
  <2>2. CASE IsAsync(w)
    BY <1>2, <2>1, <2>2, ConcludedRow
  <2>3. CASE ~IsAsync(w)
    BY <1>2, <2>1, <2>3, SettledRow
  <2> QED BY <2>2, <2>3
<1>4. standing[a] = "none"
  BY <1>1 DEF IInv, Holds
<1> HIDE DEF r
<1>5. row' \in [Attempts -> Rows] /\ \A b \in Attempts : Closes(b)
  BY <1>1, <1>2, <1>3, <1>4, OneRowCloses DEF Over
<1>6. transcript' \in BOOLEAN
  BY <1>1 DEF IInv, TypeOK
<1> QED BY <1>1, <1>2, <1>5, <1>6, FinishClosing

LEMMA RecordStartedStep ==
  ASSUME IInv, NEW w \in Workers, RecordStarted(w)
  PROVE  IInv'
<1> DEFINE a == at[w].attempt
<1>1. /\ Asking(w) /\ Current(w) /\ IsAsync(w) /\ Finish(w)
      /\ row' = [row EXCEPT ![a] = Marked(row[a], "started")]
      /\ UNCHANGED <<session, transcript, standing, asked, count>>
  BY DEF RecordStarted, Recording, Asking
<1>2. /\ at[w].pc # "idle" /\ a \in Attempts /\ row[a].state = "calling" /\ session
      /\ row[a].provider \in Async
  BY <1>1, AskingFacts DEF IsAsync
<1> HIDE DEF a
<1>3. row' \in [Attempts -> Rows] /\ BooksSound' /\ \A b \in Attempts : Persists(b)
  BY <1>1, <1>2, BooksMarked
<1>4. {session', transcript'} \subseteq BOOLEAN
  BY <1>1 DEF IInv, TypeOK
<1> QED BY <1>1, <1>2, <1>3, <1>4, FinishKeeps

\* The transcript arrives as the last open attempt is settled.
LEMMA RecordTranscriptStep ==
  ASSUME IInv, NEW w \in Workers, RecordTranscript(w)
  PROVE  IInv'
<1> DEFINE a == at[w].attempt
           r == Settled(row[a], "settled")
<1>1. /\ Asking(w) /\ Current(w) /\ ~IsAsync(w) /\ transcript' = TRUE
      /\ row' = [row EXCEPT ![a] = r] /\ Finish(w)
      /\ UNCHANGED <<session, standing, asked, count>>
  BY DEF RecordTranscript, Recording, Asking
<1>2. /\ at[w].pc # "idle" /\ a \in Attempts /\ row[a] \in Rows /\ row[a].state = "calling"
      /\ row[a].remote = "none"
  BY <1>1, AskingFacts
<1>3. r \in Rows /\ r.provider = row[a].provider /\ r.state = "settled" /\ r.remote = "none"
  <2>1. "settled" \in RowStates
    BY DEF RowStates
  <2> QED BY <1>2, <2>1, SettledRow
<1> HIDE DEF r
<1>4. /\ row' \in [Attempts -> Rows] /\ \A b \in Attempts : Closes(b)
      /\ \A b \in Attempts : ~Open(b)'
  BY <1>1, <1>2, <1>3, OneRowCloses DEF Over
<1> QED BY <1>1, <1>2, <1>4, FinishClosing

LEMMA RecordAmbiguousStep ==
  ASSUME IInv, NEW w \in Workers, RecordAmbiguous(w)
  PROVE  IInv'
<1> DEFINE a == at[w].attempt
           r == Settled(row[a], "estimated")
<1>1. /\ Asking(w) /\ Current(w) /\ ~IsAsync(w)
      /\ row' = [row EXCEPT ![a] = r]
      /\ UNCHANGED <<session, transcript, standing, asked, count>>
  BY DEF RecordAmbiguous, Recording, Asking
<1>2. /\ at[w].pc # "idle" /\ a \in Attempts /\ row[a] \in Rows /\ row[a].state = "calling"
      /\ row[a].remote = "none"
  BY <1>1, AskingFacts
<1>3. r \in Rows /\ r.provider = row[a].provider /\ r.state = "estimated" /\ r.remote = "none"
  <2>1. "estimated" \in RowStates
    BY DEF RowStates
  <2> QED BY <1>2, <2>1, SettledRow
<1> HIDE DEF r
<1>4. row' \in [Attempts -> Rows] /\ \A b \in Attempts : Closes(b)
  BY <1>1, <1>2, <1>3, OneRowCloses DEF Over
<1>5. CASE UnderCaps(Existing)
  <2>1. Continue(w, "retry", a) /\ "retry" \in Steps
    BY <1>5 DEF RecordAmbiguous, Steps
  <2> HIDE DEF a
  <2> QED BY <1>1, <1>2, <1>4, <2>1, ContinueClosing
<1>6. CASE ~UnderCaps(Existing)
  <2>1. Finish(w) /\ transcript' \in BOOLEAN
    BY <1>1, <1>6 DEF RecordAmbiguous, IInv, TypeOK
  <2> QED BY <1>1, <1>2, <1>4, <2>1, FinishClosing
<1> QED BY <1>5, <1>6

-----------------------------------------------------------------------------
(* Jobs.                                                                   *)

\* A job is added, under a key nobody used: whatever was owed, the call has work again.
LEMMA JobAdded ==
  ASSUME IInv, NEW k \in Jobs, job[k].state = "absent", job' = [job EXCEPT ![k].state = "queued"],
         count.resumed' <= count.changes', UNCHANGED setting,
         UNCHANGED count \/ \A i \in Jobs : job[i].state \in {"absent", "done"}
  PROVE  job' \in [Jobs -> JobRows] /\ JobsSound'
<1> DEFINE r == [job[k] EXCEPT !.state = "queued"]
<1>1. job \in [Jobs -> JobRows] /\ JobsSound /\ job[k] \in JobRows
  BY DEF IInv, TypeOK
<1>2. r \in JobRows /\ r.state = "queued" /\ r.token = job[k].token /\ ~r.older
  BY <1>1 DEF JobRows, JobsSound
<1>3. job' = [job EXCEPT ![k] = r]
  BY <1>1
<1> HIDE DEF r
<1>4. job' \in [Jobs -> JobRows] /\ job'[k] = r /\ \A i \in Jobs \ {k} : job'[i] = job[i]
  BY <1>1, <1>2, <1>3
<1>5. r.token = 0 /\ 0 < MaxClaims
  BY <1>1, <1>2 DEF JobsSound
<1>6. JobsSound'
  BY <1>1, <1>2, <1>4, <1>5 DEF JobsSound
<1> QED BY <1>4, <1>6

LEMMA EnqueueCallTranscriptionStep ==
  ASSUME IInv, EnqueueCallTranscription
  PROVE  IInv'
<1>1. /\ 1 \in Jobs /\ job[1].state = "absent" /\ job' = [job EXCEPT ![1].state = "queued"]
      /\ UNCHANGED <<row, at, session, transcript, setting, standing, asked, count>>
  BY DEF EnqueueCallTranscription, Jobs
<1>2. count.resumed' <= count.changes'
  BY <1>1 DEF IInv, JobsSound
<1>3. job' \in [Jobs -> JobRows] /\ JobsSound'
  BY <1>1, <1>2, JobAdded
<1>4. TypeOK' /\ BooksSound'
  BY <1>1, <1>3 DEF IInv, TypeOK, BooksSound, RowSound, Existing, Paid, Open, BeingCollected,
    ProviderJobFailed
<1> QED BY <1>1, <1>3, <1>4, OutsideKeeps DEF Persists

LEMMA ScheduleLookStep ==
  ASSUME IInv, NEW a \in Attempts, NEW k \in Jobs, ScheduleLook(a, k)
  PROVE  IInv'
<1>1. /\ job[k].state = "absent" /\ job' = [job EXCEPT ![k].state = "queued"]
      /\ UNCHANGED <<row, at, session, transcript, setting, standing, asked, count>>
  BY DEF ScheduleLook, NextKey
<1>2. count.resumed' <= count.changes'
  BY <1>1 DEF IInv, JobsSound
<1>3. job' \in [Jobs -> JobRows] /\ JobsSound'
  BY <1>1, <1>2, JobAdded
<1>4. TypeOK' /\ BooksSound'
  BY <1>1, <1>3 DEF IInv, TypeOK, BooksSound, RowSound, Existing, Paid, Open, BeingCollected,
    ProviderJobFailed
<1> QED BY <1>1, <1>3, <1>4, OutsideKeeps DEF Persists

\* A resumption is paid for by a change no resumption has used.
LEMMA ResumeHeldStep ==
  ASSUME IInv, NEW k \in Jobs, ResumeHeld(k)
  PROVE  IInv'
<1>1. /\ job[k].state = "absent" /\ job' = [job EXCEPT ![k].state = "queued"]
      /\ setting.fresh /\ \A i \in Jobs : job[i].state \in {"absent", "done"}
      /\ count' = [count EXCEPT !.resumed = count.resumed + 1]
      /\ UNCHANGED <<row, at, session, transcript, setting, standing, asked>>
  BY DEF ResumeHeld, NextKey, Owed
<1>2. count.resumed < count.changes /\ count \in [changes : 0..MaxChanges, resumed : Nat]
  BY <1>1 DEF IInv, JobsSound, TypeOK
<1>3. /\ count' \in [changes : 0..MaxChanges, resumed : Nat]
      /\ count'.resumed <= count'.changes
  BY <1>1, <1>2
<1>4. job' \in [Jobs -> JobRows] /\ JobsSound'
  BY <1>1, <1>3, JobAdded
<1>5. TypeOK' /\ BooksSound'
  BY <1>1, <1>3, <1>4 DEF IInv, TypeOK, BooksSound, RowSound, Existing, Paid, Open, BeingCollected,
    ProviderJobFailed
<1> QED BY <1>1, <1>4, <1>5, OutsideKeeps DEF Persists

LEMMA ClaimStep ==
  ASSUME IInv, NEW w \in Workers, NEW k \in Jobs, NEW d \in Serves[w], Claim(w, k, d)
  PROVE  IInv'
<1> DEFINE t == job[k].token + 1
           r == [job[k] EXCEPT !.state = "running", !.token = t]
           p == [Idle EXCEPT !.pc = "top", !.job = k, !.token = t,
                             !.serves = d.provider, !.collects = d.collects,
                             !.step = IF job[k].begun THEN "foreign" ELSE "fresh"]
<1>1. /\ at[w].pc = "idle" /\ job[k].state = "queued"
      /\ UNCHANGED <<row, session, transcript, setting, standing, asked, count>>
  BY DEF Claim
<1>2. TypeOK /\ JobsSound /\ job \in [Jobs -> JobRows] /\ job[k] \in JobRows
  BY DEF IInv, TypeOK
<1>3. t \in 0..MaxClaims
  <2>1. job[k].token \in 0..MaxClaims /\ job[k].token < MaxClaims
    BY <1>1, <1>2 DEF JobRows, JobsSound
  <2> QED BY <2>1
<1>4. job' = [job EXCEPT ![k] = r]
  BY <1>2 DEF Claim
<1>5. at' = [at EXCEPT ![w] = p]
  BY DEF Claim
<1> HIDE DEF t
<1>6. r \in JobRows /\ r.state = "running" /\ ~r.older
  BY <1>1, <1>2, <1>3 DEF JobRows, JobsSound
<1>7. d \in Deployments
  OBVIOUS
<1>8. p \in Places /\ p.pc = "top" /\ p.job = k /\ p.step \in {"foreign", "fresh"}
  BY <1>3, <1>7 DEF Idle, Places, Steps, Deployments
<1> HIDE DEF r, p
<1>9. job' \in [Jobs -> JobRows] /\ job'[k] = r /\ \A i \in Jobs \ {k} : job'[i] = job[i]
  BY <1>2, <1>4, <1>6
<1>10. JobsSound'
  BY <1>1, <1>2, <1>6, <1>9 DEF JobsSound
<1>11. at'[w] = p
  BY <1>2, <1>5 DEF TypeOK
<1>12. Holds(w)' /\ Apart(w)'
  BY <1>8, <1>11 DEF Holds, Apart, Owns, Asking
<1> QED BY <1>1, <1>5, <1>8, <1>9, <1>10, <1>12, SlotKeeps

LEMMA LeaseLostStep ==
  ASSUME IInv, NEW k \in Jobs, LeaseLost(k)
  PROVE  IInv'
<1> DEFINE r == [job[k] EXCEPT !.state = AfterLease(k), !.older = FALSE]
<1>1. /\ job[k].state = "running"
      /\ at' = [w \in Workers |-> IF at[w].pc = "top" /\ at[w].job = k THEN Idle ELSE at[w]]
      /\ UNCHANGED <<row, session, transcript, setting, standing, asked, count>>
  BY DEF LeaseLost
<1>2. /\ TypeOK /\ JobsSound /\ BooksSound /\ job \in [Jobs -> JobRows] /\ job[k] \in JobRows
      /\ at \in [Workers -> Places]
  BY DEF IInv, TypeOK
<1>3. /\ r \in JobRows /\ r.token = job[k].token /\ r.state \in {"queued", "dead"}
      /\ r.state = "queued" => r.token < MaxClaims
      /\ ~r.older
  BY <1>2 DEF AfterLease, JobRows
<1>4. job' = [job EXCEPT ![k] = r]
  BY DEF LeaseLost
<1> HIDE DEF r
<1>5. job' \in [Jobs -> JobRows] /\ job'[k] = r /\ \A i \in Jobs \ {k} : job'[i] = job[i]
  BY <1>2, <1>3, <1>4
<1>6. JobsSound'
  BY <1>1, <1>2, <1>3, <1>5 DEF JobsSound
<1>7. Idle \in Places
  BY DEF Idle, Places, Steps
<1>8. at' \in [Workers -> Places] /\ \A w \in Workers : at'[w] \in {at[w], Idle}
  BY <1>1, <1>2, <1>7
<1>9. TypeOK' /\ BooksSound'
  BY <1>1, <1>2, <1>5, <1>8 DEF TypeOK, BooksSound, RowSound, Existing, Paid, Open,
    BeingCollected, ProviderJobFailed
<1>10. \A a \in Attempts : Persists(a)
  BY <1>1 DEF Persists
<1>11. ASSUME NEW w \in Workers PROVE Untouched(w) \/ (Holds(w)' /\ Apart(w)')
  <2>1. CASE at'[w] = at[w]
    BY <1>1, <2>1 DEF Untouched
  <2>2. CASE at'[w] = Idle
    BY <2>2 DEF Idle, Holds, Apart, Owns, Asking
  <2> QED BY <1>8, <2>1, <2>2
<1>12. \A w \in Workers : Holds(w)' /\ Apart(w)'
  BY <1>10, <1>11, SlotsKept
<1> QED BY <1>6, <1>9, <1>12 DEF IInv

LEMMA AbandonStep ==
  ASSUME IInv, NEW w \in Workers, Abandon(w)
  PROVE  IInv'
<1>1. /\ at' = [at EXCEPT ![w] = Idle]
      /\ UNCHANGED <<row, job, session, transcript, setting, standing, asked, count>>
  BY DEF Abandon
<1>2. Idle \in Places
  BY DEF Idle, Places, Steps
<1>3. at'[w] = Idle
  BY <1>1 DEF IInv, TypeOK
<1>4. Holds(w)' /\ Apart(w)'
  BY <1>3 DEF Idle, Holds, Apart, Owns, Asking
<1>5. job' \in [Jobs -> JobRows] /\ JobsSound'
  BY <1>1 DEF IInv, TypeOK, JobsSound
<1> QED BY <1>1, <1>2, <1>4, <1>5, SlotKeeps

-----------------------------------------------------------------------------
(* The scheduler pass, the deletion, the admin and the provider.           *)

\* Nobody asks, and rows are closed.
LEMMA OutsideClosing ==
  ASSUME IInv, LockFree, row' \in [Attempts -> Rows], \A a \in Attempts : Closes(a),
         UNCHANGED <<job, at, setting, standing, asked, count>>,
         {session', transcript'} \subseteq BOOLEAN, transcript' => transcript,
         ~session' => ~session \/ BeingCollected' = {}
  PROVE  IInv'
<1>1. TypeOK' /\ JobsSound'
  BY DEF IInv, TypeOK, JobsSound
<1>2. BooksSound'
  BY BooksClose DEF IInv
<1>3. \A a \in Attempts : Persists(a)
  BY ClosesPersists
<1> QED BY <1>1, <1>2, <1>3, OutsideKeeps

LEMMA GiveUpExpiredStep ==
  ASSUME IInv, NEW a \in Attempts, GiveUpExpired(a)
  PROVE  IInv'
<1> DEFINE r == GivenUp(row[a])
<1>1. /\ LockFree /\ a \in Unfinished /\ row' = [row EXCEPT ![a] = r]
      /\ UNCHANGED <<job, at, session, transcript, setting, standing, asked, count>>
  BY DEF GiveUpExpired
<1>2. row[a] \in Rows /\ row[a].state = "calling" /\ row[a].remote # "none"
  BY <1>1 DEF Unfinished, IInv, TypeOK, BooksSound, RowSound
<1>3. r \in Rows /\ r.provider = row[a].provider /\ r.state = "estimated" /\ r.remote = "failed"
  BY <1>2, GivenUpRow
<1> HIDE DEF r
<1>4. row' \in [Attempts -> Rows] /\ \A b \in Attempts : Closes(b)
  BY <1>1, <1>2, <1>3, OneRowCloses DEF Over
<1>5. {session', transcript'} \subseteq BOOLEAN
  BY <1>1 DEF IInv, TypeOK
<1> QED BY <1>1, <1>4, <1>5, OutsideClosing

LEMMA SweepStep ==
  ASSUME IInv, NEW S \in SUBSET Sweepable, SweepTranscriptionReservations(S)
  PROVE  IInv'
<1>1. /\ LockFree /\ FinaliseOpen(S) /\ S \in SUBSET Attempts /\ S \cap BeingCollected = {}
      /\ UNCHANGED <<job, at, session, transcript, setting, standing, asked, count>>
  BY DEF SweepTranscriptionReservations, Sweepable
<1>2. row' \in [Attempts -> Rows] /\ \A b \in Attempts : Closes(b)
  BY <1>1, FinaliseCloses
<1>3. {session', transcript'} \subseteq BOOLEAN
  BY <1>1 DEF IInv, TypeOK
<1> QED BY <1>1, <1>2, <1>3, OutsideClosing

LEMMA DeleteSessionStep ==
  ASSUME IInv, DeleteSession
  PROVE  IInv'
<1>1. /\ LockFree /\ session' = FALSE /\ transcript' = FALSE
      /\ row' = [a \in Attempts |-> IF a \in BeingCollected
                                    THEN Marked(Closed(row[a]), "estimated") ELSE Closed(row[a])]
      /\ UNCHANGED <<job, at, setting, standing, asked, count>>
  BY DEF DeleteSession
<1>2. "estimated" \in RemoteStates
  BY DEF RemoteStates
<1>3. ASSUME NEW a \in Attempts
      PROVE  row'[a] \in Rows /\ Closes(a) /\ row'[a].remote \notin {"submitting", "started"}
  <2> DEFINE c == Closed(row[a])
  <2>1. RowSound(a) /\ row[a] \in Rows
    BY DEF IInv, TypeOK, BooksSound
  <2>2. /\ c \in Rows /\ c.provider = row[a].provider /\ c.remote = row[a].remote
        /\ row[a].state = "reserved" => c.state = "released"
        /\ row[a].state = "calling" => c.state = "estimated"
        /\ row[a].state \notin {"reserved", "calling"} => c = row[a]
    BY <2>1, ClosedRow
  <2>3. row'[a] = IF a \in BeingCollected THEN Marked(c, "estimated") ELSE c
    BY <1>1
  <2> HIDE DEF c
  <2>4. CASE a \in BeingCollected
    <3>1. row[a].state = "calling" /\ row[a].remote # "none"
      BY <2>1, <2>4 DEF RowSound, BeingCollected
    <3>2. /\ row'[a] \in Rows /\ row'[a].provider = row[a].provider
          /\ row'[a].state = "estimated" /\ row'[a].remote = "estimated"
      BY <1>2, <2>2, <2>3, <2>4, <3>1, MarkedRow
    <3> QED BY <3>1, <3>2 DEF Closes, Open, Over
  <2>5. CASE a \notin BeingCollected
    <3>1. row'[a] = c /\ row[a].remote \notin {"submitting", "started"}
      BY <2>3, <2>5 DEF BeingCollected
    <3> QED BY <2>1, <2>2, <3>1 DEF Closes, Open, Over, RowSound
  <2> QED BY <2>4, <2>5
<1>4. row' \in [Attempts -> Rows]
  BY <1>1, <1>3
<1>5. BeingCollected' = {}
  BY <1>3 DEF BeingCollected
<1> QED BY <1>1, <1>3, <1>4, <1>5, OutsideClosing

LEMMA ChangeSettingStep ==
  ASSUME IInv, NEW on \in BOOLEAN, NEW begun \in SUBSET HeldJobs, ChangeSetting(on, begun)
  PROVE  IInv'
<1>1. /\ count.changes < MaxChanges /\ setting' = [on |-> on, fresh |-> on]
      /\ job' = [k \in Jobs |-> [job[k] EXCEPT !.older = on /\ k \in begun]]
      /\ count' = [count EXCEPT !.changes = count.changes + 1]
      /\ UNCHANGED <<row, at, session, transcript, standing, asked>>
  BY DEF ChangeSetting
<1>2. \A k \in begun : job[k].state = "running"
  BY DEF HeldJobs, Current
<1>3. count \in [changes : 0..MaxChanges, resumed : Nat] /\ count.resumed <= count.changes
  BY DEF IInv, TypeOK, JobsSound
<1>4. /\ count' \in [changes : 0..MaxChanges, resumed : Nat]
      /\ count'.resumed < count'.changes
  BY <1>1, <1>3
<1>5. ASSUME NEW k \in Jobs
      PROVE  /\ job'[k] \in JobRows /\ job'[k].state = job[k].state
             /\ job'[k].token = job[k].token /\ (job'[k].older <=> on /\ k \in begun)
  <2> DEFINE b == on /\ k \in begun
  <2>1. job[k] \in JobRows /\ job'[k] = [job[k] EXCEPT !.older = b] /\ b \in BOOLEAN
    BY <1>1 DEF IInv, TypeOK
  <2> HIDE DEF b
  <2>2. /\ job'[k] \in JobRows /\ job'[k].state = job[k].state
        /\ job'[k].token = job[k].token /\ (job'[k].older <=> b)
    BY <2>1 DEF JobRows
  <2> QED BY <2>2 DEF b
<1>6. job' \in [Jobs -> JobRows]
  BY <1>1, <1>5
<1>7. TypeOK' /\ BooksSound'
  BY <1>1, <1>4, <1>6 DEF IInv, TypeOK, BooksSound, RowSound, Existing, Paid, Open,
    BeingCollected, ProviderJobFailed
<1>8. JobsSound'
  <2>1. count'.resumed <= count'.changes
    BY <1>4
  <2> QED BY <1>2, <1>4, <1>5, <2>1 DEF IInv, JobsSound
<1> QED BY <1>1, <1>7, <1>8, OutsideKeeps DEF Persists

\* At the provider, a request that may be billed stays one that may.
LEMMA ProviderKeeps ==
  ASSUME IInv, NEW a \in Attempts, NEW s \in {"running", "completed", "failed"},
         standing[a] \in {"flying", "running"}, standing' = [standing EXCEPT ![a] = s],
         UNCHANGED <<row, job, at, session, transcript, setting, asked, count>>
  PROVE  IInv'
<1>1. /\ standing' \in [Attempts -> {"none", "flying", "running", "completed", "failed"}]
      /\ standing'[a] = s /\ \A b \in Attempts \ {a} : standing'[b] = standing[b]
  BY DEF IInv, TypeOK
<1>2. \A b \in Attempts : RowSound(b)'
  BY <1>1 DEF IInv, BooksSound, RowSound
<1>3. BooksSound'
  BY <1>2 DEF IInv, BooksSound, Existing, Paid, Open, BeingCollected, ProviderJobFailed
<1>4. TypeOK' /\ JobsSound'
  BY <1>1 DEF IInv, TypeOK, JobsSound
<1> QED BY <1>1, <1>3, <1>4, OutsideKeeps DEF Persists

LEMMA LandStep ==
  ASSUME IInv, NEW a \in Attempts, Land(a)
  PROVE  IInv'
<1>1. Accepted(a) \in {"running", "completed"}
  BY DEF Accepted
<1> QED BY <1>1, ProviderKeeps DEF Land

LEMMA ProviderEndsStep ==
  ASSUME IInv, NEW a \in Attempts, NEW outcome \in {"completed", "failed"}, ProviderEnds(a, outcome)
  PROVE  IInv'
BY ProviderKeeps DEF ProviderEnds

LEMMA StutterStep ==
  ASSUME IInv, UNCHANGED vars
  PROVE  IInv'
BY DEF vars, IInv, TypeOK, JobsSound, BooksSound, RowSound, Existing, Paid, Open, BeingCollected,
  ProviderJobFailed, Holds, Apart, Owns, Asking

LEMMA HandleStep ==
  ASSUME IInv, NEW w \in Workers, Handle(w)
  PROVE  IInv'
<1>1. CASE Look(w)
  BY <1>1, LookPendingStep, LookAmbiguousStep, LookFailedStep, LookCompletedStep DEF Look
<1>2. CASE NothingToStart(w) \/ LeaveToCollect(w) \/ CloseAttempts(w) \/ NotCalling(w)
  BY <1>2, NothingToStartStep, LeaveToCollectStep, CloseAttemptsStep, NotCallingStep
<1>3. CASE \E fits \in BOOLEAN : BeginCallTranscription(w, fits) \/ BuyAttempt(w, fits)
  BY <1>3, BeginCallTranscriptionStep, BuyAttemptStep
<1>4. CASE \E a \in Attempts : MarkCalling(w, a)
  BY <1>4, MarkCallingStep
<1>5. CASE Refrain(w) \/ Prepare(w) \/ OpenSend(w)
  BY <1>5, RefrainStep, PrepareStep, OpenSendStep
<1> QED BY <1>1, <1>2, <1>3, <1>4, <1>5 DEF Handle

LEMMA SendStep ==
  ASSUME IInv, NEW w \in Workers, Send(w)
  PROVE  IInv'
<1>1. CASE RefrainLate(w) \/ UploadFails(w) \/ FinalCheck(w)
  BY <1>1, RefrainLateStep, UploadFailsStep, FinalCheckStep
<1>2. CASE \E answer \in {"ok", "refused", "unknown"} : AskProvider(w, answer)
  BY <1>2, AskProviderStep
<1>3. CASE RecordRefused(w) \/ RecordStarted(w) \/ RecordTranscript(w) \/ RecordAmbiguous(w)
  BY <1>3, RecordRefusedStep, RecordStartedStep, RecordTranscriptStep, RecordAmbiguousStep
<1> QED BY <1>1, <1>2, <1>3 DEF Send

LEMMA NextStep == IInv /\ [Next]_vars => IInv'
<1> SUFFICES ASSUME IInv, [Next]_vars PROVE IInv'
  OBVIOUS
<1>1. ASSUME NEW w \in Workers,
             \/ \E k \in Jobs : \E d \in Serves[w] : Claim(w, k, d)
             \/ Handle(w) \/ Send(w) \/ Abandon(w)
      PROVE  IInv'
  <2>1. ASSUME NEW k \in Jobs, NEW d \in Serves[w], Claim(w, k, d) PROVE IInv'
    BY <2>1, ClaimStep
  <2>2. CASE Handle(w) \/ Send(w) \/ Abandon(w)
    BY <2>2, HandleStep, SendStep, AbandonStep
  <2> QED BY <1>1, <2>1, <2>2
<1>2. CASE Scheduler
  BY <1>2, ResumeHeldStep, ScheduleLookStep, GiveUpExpiredStep, SweepStep DEF Scheduler
<1>3. CASE Environment
  BY <1>3, EnqueueCallTranscriptionStep, DeleteSessionStep, LeaseLostStep, ChangeSettingStep,
    LandStep, ProviderEndsStep DEF Environment
<1>4. CASE UNCHANGED vars
  BY <1>4, StutterStep
<1> QED BY <1>1, <1>2, <1>3, <1>4 DEF Next

-----------------------------------------------------------------------------
(* The theorems.                                                           *)

\* Every state of the call's rows, jobs and slots satisfies the inductive invariant
\* (transcription.ts, callTranscribe.ts).
THEOREM Invariance == Spec => []IInv
BY InitInv, NextStep, PTL DEF Spec

\* Types, and with them the cap on the claims of a job.
THEOREM TypeCorrect == Spec => []TypeOK
<1>1. IInv => TypeOK
  BY DEF IInv
<1> QED BY <1>1, Invariance, PTL

\* A request the provider accepted, or may still accept, stays on the books whoever closes
\* its attempt (settleAttempt, finaliseOpenAttempts).
THEOREM ChargedIfBilled == Spec => []BilledIsCharged
<1>1. IInv => BilledIsCharged
  BY DEF IInv, BooksSound, RowSound, BilledIsCharged
<1> QED BY <1>1, Invariance, PTL

\* One request for an attempt, to the provider it was priced for, and no more paid attempts
\* than the cap; one resumption for each change of the setting (paidAttempts,
\* listHeldTranscriptions).
THEOREM PaidWithinCap == Spec => []PaidAtMostTwice
<1>1. IInv => PaidAtMostTwice
  <2> SUFFICES ASSUME IInv PROVE PaidAtMostTwice
    OBVIOUS
  <2> DEFINE A == {a \in Attempts : asked[a] # <<>>}
  <2>1. A \in SUBSET Paid(Existing) /\ Paid(Existing) \in SUBSET Attempts
    BY DEF IInv, BooksSound, RowSound, Paid, Existing
  <2>2. IsFiniteSet(Paid(Existing)) /\ IsFiniteSet(A)
    BY <2>1, AttemptsFinite
  <2>3. /\ Cardinality(A) <= Cardinality(Paid(Existing))
        /\ Cardinality(A) \in Nat /\ Cardinality(Paid(Existing)) \in Nat
    <3> HIDE DEF A
    <3> QED BY <2>1, <2>2, FS_Subset, FS_CardinalityType
  <2>4. Cardinality(Paid(Existing)) <= MaxPaid /\ MaxPaid \in Nat
    BY DEF IInv, BooksSound
  <2>5. Cardinality(A) <= MaxPaid
    <3> HIDE DEF A
    <3> QED BY <2>3, <2>4
  <2>6. \A a \in Attempts : asked[a] # <<>> => asked[a] = <<row[a].provider>>
    BY DEF IInv, BooksSound, RowSound
  <2>7. count.resumed <= count.changes
    BY DEF IInv, JobsSound
  <2> QED BY <2>5, <2>6, <2>7 DEF PaidAtMostTwice
<1> QED BY <1>1, Invariance, PTL

\* One open attempt at most and none after a terminal outcome; a provider job to collect
\* owns an attempt still `calling` (ensureTranscriptionCalling, finaliseOpenAttempts).
THEOREM AtMostOneOpen == Spec => []OneOpenAttempt
<1>1. IInv => OneOpenAttempt
  <2> SUFFICES ASSUME IInv PROVE OneOpenAttempt
    OBVIOUS
  <2> DEFINE O == {a \in Attempts : Open(a)}
  <2>1. Cardinality(O) <= 1
    <3>1. CASE O = {}
      BY <3>1, FS_EmptySet
    <3>2. CASE O # {}
      <4>1. PICK a \in O : TRUE
        BY <3>2
      <4>2. O = {a}
        BY <4>1 DEF IInv, BooksSound
      <4>3. Cardinality({a}) = 1
        BY FS_Singleton
      <4> HIDE DEF O
      <4> QED BY <4>2, <4>3
    <3> QED BY <3>1, <3>2
  <2>2. transcript \/ (\E a \in Attempts : row[a].remote = "failed") => \A a \in Attempts : ~Open(a)
    BY DEF IInv, BooksSound, ProviderJobFailed
  <2>3. \A a \in BeingCollected : row[a].state = "calling"
    BY DEF IInv, BooksSound, RowSound, BeingCollected
  <2> QED BY <2>1, <2>2, <2>3 DEF OneOpenAttempt
<1> QED BY <1>1, Invariance, PTL

=============================================================================
