--------------------------- MODULE MailSyncProofs ---------------------------
(***************************************************************************)
(* What holds of the mail lane of one mailbox for any accounts, any number *)
(* of messages, grants, expiries and faults, and any overlap and baseline. *)
(***************************************************************************)
EXTENDS MailSync, FiniteSetTheorems, WellFoundedInduction, TLAPS

-----------------------------------------------------------------------------
(* The inductive invariant.                                                *)

Places == {"idle", "begun", "inactive", "granted", "unready", "refused", "expired",
           "listed", "walked"}

RunRows == [pc : Places, row : {None} \cup MailboxRows, account : {None} \cup Accounts,
            answer : {None} \cup Instants, found : SUBSET Messages,
            binding : {None, 0} \cup Generations]

Grants == [account : Accounts, handoff : Instants]

\* What TypeOK leaves out: the rows of the jobs and of the runs, the grant, the bounds.
Typed ==
  /\ job \in [Kinds -> [Generations -> JobStates]]
  /\ run \in [Kinds -> [Generations -> RunRows]]
  /\ grant \in {None} \cup Grants
  /\ used \in [grants : 0..MaxGrants, expiries : 0..MaxExpiries, faults : 0..MaxFaults]

\* Every message of the account from `from` up to, not including, `end` has a row.
ReadIn(arrived, rows, a, from, end) ==
  \A m \in 1..Len(arrived) :
    arrived[m] = a /\ from <= m /\ m < end => rows[m] # 0

Read(a, from, end) == ReadIn(arrivals, recorded, a, from, end)

\* A watermark never runs ahead of what was read by more than the overlap.
TrustedIn(arrived, rows, a, from, watermark) ==
  watermark # None =>
    /\ watermark <= Len(arrived)
    /\ ReadIn(arrived, rows, a, from, Less(watermark, Overlap))

Trusted(watermark) ==
  TrustedIn(arrivals, recorded, Account, mailbox.baselineFrom, watermark)

\* The mailbox row: it exists from the first grant on, and it is ready only when the
\* recovery of its generation was completed.
MailboxSound ==
  /\ (mailbox.status = "absent") <=> (mailbox.generation = 0)
  /\ mailbox.generation = 0 => mailbox.watermark = None
  /\ mailbox.baselineFrom <= Less(Now, BaselineSpan)
  /\ mailbox.generation > 0 =>
       /\ mailbox.historyId \in Instants
       /\ mailbox.historyId <= Now
       /\ Trusted(mailbox.watermark)
  /\ mailbox.syncState = "ready" =>
       mailbox.generation > 0 /\ recovery[mailbox.generation].state = "completed"

\* The recovery of the current generation: what lies before its interval was read, the
\* cursor lies within it, and once it is completed everything up to the cursor was read.
RecoverySound ==
  mailbox.generation > 0 =>
    LET v == recovery[mailbox.generation] IN
    /\ v.from <= v.to
    /\ v.to <= Now
    /\ v.state = "open" =>
         mailbox.historyId <= v.to /\ Read(Account, mailbox.baselineFrom, v.from)
    /\ v.state = "completed" =>
         Read(Account, mailbox.baselineFrom, mailbox.historyId + 1)

\* A grant on its way was asked for after the baseline of the mailbox was set.
GrantSound ==
  grant # None =>
    /\ grant.handoff <= Now
    /\ floor <= grant.handoff
    /\ mailbox.baselineFrom <= Less(grant.handoff, BaselineSpan)

\* The mailbox or a run that read it at its generation has a cursor Gmail has forgotten.
Behind(k, g) ==
  /\ run[k][g].pc # "idle"
  /\ run[k][g].row.generation = mailbox.generation
  /\ run[k][g].row.historyId < floor

Owing ==
  /\ mailbox.generation > 0
  /\ \/ mailbox.historyId < floor
     \/ \E k \in Kinds, g \in Generations : Behind(k, g)

Pending == IF grant = None THEN 0 ELSE 1

\* Each generation is paid for by a grant or by an expiry, one that is due included.
Spent ==
  /\ mailbox.generation + Pending <= used.grants + used.expiries
  /\ Owing => mailbox.generation + Pending + 1 <= used.grants + used.expiries

\* What a run knows whatever became of the mailbox.
RunSound(k, g) ==
  LET r == run[k][g] IN
  /\ (r.pc = "idle") <=> (r = Idle)
  /\ r.pc # "idle" =>
       /\ r.row \in MailboxRows
       /\ r.row.generation \in 1..mailbox.generation
       /\ r.row.historyId \in Instants
       /\ r.row.historyId <= Now
  /\ (r.answer # None) <=> (r.pc \in {"listed", "expired"})
  /\ r.answer # None =>
       /\ r.answer <= Now
       /\ Now <= r.answer + Overlap
       /\ floor <= r.answer
  /\ k = "recover" /\ r.pc # "idle" =>
       r.row.generation = g /\ recovery[g].state = "open"
  /\ k = "sync" /\ r.pc \in {"granted", "listed", "expired"} => r.row.syncState = "ready"
  /\ r.pc \in {"granted", "listed", "walked"} => r.account \in Accounts
  /\ r.pc = "listed" =>
       /\ r.row.historyId <= r.answer
       /\ r.found = {m \in Inbox(r.account) : r.row.historyId < m /\ m <= r.answer}
  /\ r.pc = "expired" => r.row.historyId < floor

\* What a run of the current generation still may rely on.
RunCurrent(k, g) ==
  LET r == run[k][g] IN
  r.pc # "idle" /\ r.row.generation = mailbox.generation =>
    /\ r.row.baselineFrom = mailbox.baselineFrom
    /\ r.row.historyId <= mailbox.historyId
    /\ r.account # None => r.account = Account
    /\ r.row.syncState = "ready" => recovery[mailbox.generation].state = "completed"
    /\ Trusted(r.row.watermark)
    /\ r.pc = "inactive" => mailbox.status # "connected"
    /\ k = "recover" /\ r.pc = "walked" =>
         \A m \in Inbox(Account) :
           recovery[g].from <= m /\ m <= recovery[g].to => recorded[m] # 0 \/ m \in r.found

Runs == \A k \in Kinds, g \in Generations : RunSound(k, g) /\ RunCurrent(k, g)

IInv ==
  TypeOK /\ Typed /\ MailboxSound /\ RecoverySound /\ GrantSound /\ Spent /\ Runs
    /\ HoldsMatchMailbox

-----------------------------------------------------------------------------
(* Numbers, intervals and first messages.                                  *)

LEMMA ConstantTypes ==
  /\ MaxMessages \in Nat /\ MaxGrants \in Nat /\ MaxExpiries \in Nat /\ MaxFaults \in Nat
  /\ Overlap \in Nat /\ BaselineSpan \in Nat
  /\ None \notin Accounts /\ None \notin Instants
BY ConstantsAssumption DEF Instants

\* Going back by a span ends at zero, keeps the order, and is undone by the span.
LEMMA LessFacts ==
  ASSUME NEW x \in Nat, NEW span \in Nat
  PROVE  /\ Less(x, span) \in Nat
         /\ Less(x, span) <= x
         /\ \A y \in Nat : x <= y => Less(x, span) <= Less(y, span)
         /\ \A y \in Nat : x <= y + span => Less(x, span) <= y
BY DEF Less

LEMMA LeastNatural ==
  ASSUME NEW S \in SUBSET Nat, S # {}
  PROVE  \E m \in S : \A n \in S : m <= n
<1> DEFINE R == OpToRel(<, Nat)
<1>1. \A a, b \in Nat : <<a, b>> \in R <=> a < b
  BY DEF OpToRel
<1>2. \E a \in S : \A b \in S : ~(<<b, a>> \in R)
  <2> HIDE DEF R
  <2>1. IsWellFoundedOn(R, Nat)
    BY NatLessThanWellFounded DEF R
  <2> QED BY <2>1, WFMin
<1>3. PICK m \in S : \A n \in S : ~(<<n, m>> \in R)
  BY <1>2
<1>4. ASSUME NEW n \in S PROVE m <= n
  <2>1. ~(n < m)
    BY <1>1, <1>3
  <2> QED BY <2>1
<1> QED BY <1>4

\* takeWholeRecords takes a prefix: with a message, every earlier one.
LEMMA FirstPrefix ==
  ASSUME NEW S \in SUBSET Nat, IsFiniteSet(S), NEW n \in Nat,
         NEW m \in FirstOf(S, n), NEW l \in S, l <= m
  PROVE  l \in FirstOf(S, n)
<1> DEFINE M == {other \in S : other <= m}
           L == {other \in S : other <= l}
<1>0. m \in S
  BY DEF FirstOf
<1>1. L \subseteq M /\ M \subseteq S
  <2>1. ASSUME NEW other \in S, other <= l PROVE other <= m
    BY <1>0, <2>1
  <2> QED BY <2>1
<1>2. IsFiniteSet(M)
  BY <1>1, FS_Subset
<1>3. IsFiniteSet(L) /\ Cardinality(L) <= Cardinality(M)
  BY <1>1, <1>2, FS_Subset
<1>4. Cardinality(L) \in Nat /\ Cardinality(M) \in Nat
  BY <1>2, <1>3, FS_CardinalityType
<1>5. Cardinality(M) <= n
  BY DEF FirstOf
<1>6. Cardinality(L) <= n
  BY <1>3, <1>4, <1>5
<1> QED BY <1>6 DEF FirstOf

\* As many as there are is all of them.
LEMMA FirstAll ==
  ASSUME NEW S \in SUBSET Nat, IsFiniteSet(S)
  PROVE  FirstOf(S, Cardinality(S)) = S
<1>1. ASSUME NEW m \in S
      PROVE  Cardinality({other \in S : other <= m}) <= Cardinality(S)
  <2>1. {other \in S : other <= m} \subseteq S
    OBVIOUS
  <2> QED BY <2>1, FS_Subset
<1> QED BY <1>1 DEF FirstOf

\* One is never none, unless there are none.
LEMMA FirstSome ==
  ASSUME NEW S \in SUBSET Nat, S # {}, NEW n \in Nat, n > 0
  PROVE  FirstOf(S, n) # {}
<1>1. PICK m \in S : \A other \in S : m <= other
  BY LeastNatural
<1>2. {other \in S : other <= m} = {m}
  <2>1. m <= m
    OBVIOUS
  <2>2. ASSUME NEW other \in S, other <= m PROVE other = m
    BY <1>1, <2>2
  <2> QED BY <2>1, <2>2
<1>3. Cardinality({other \in S : other <= m}) = 1
  BY <1>2, FS_Singleton
<1> QED BY <1>3 DEF FirstOf

\* The newest of some messages is one of them.
LEMMA LatestIs ==
  ASSUME NEW S \in SUBSET Nat, S # {}, NEW bound \in Nat, \A n \in S : n <= bound
  PROVE  Latest(S) \in S /\ \A n \in S : n <= Latest(S)
<1> DEFINE T == {bound - n : n \in S}
<1>1. T \in SUBSET Nat /\ T # {}
  <2>1. \A n \in S : bound - n \in Nat
    OBVIOUS
  <2> QED BY <2>1
<1>2. PICK a \in T : \A b \in T : a <= b
  <2> HIDE DEF T
  <2> QED BY <1>1, LeastNatural
<1>3. PICK m \in S : a = bound - m
  OBVIOUS
<1>4. ASSUME NEW n \in S PROVE n <= m
  <2>1. bound - n \in T
    BY DEF T
  <2> HIDE DEF T
  <2>2. a <= bound - n
    BY ONLY <1>2, <2>1
  <2>3. m \in Int /\ n \in Int
    OBVIOUS
  <2> QED BY ONLY <1>3, <2>2, <2>3, bound \in Nat
<1>5. \E l \in S : \A other \in S : other <= l
  BY <1>4
<1> QED BY <1>5 DEF Latest

-----------------------------------------------------------------------------
(* What was read stays read.                                               *)

\* Messages that arrive later lie past an interval that ends in the past, and no row is
\* ever taken back.
LEMMA ReadGrows ==
  ASSUME NEW old, NEW new, NEW rows, NEW newRows, NEW a, NEW from \in Nat, NEW end \in Nat,
         Len(old) \in Nat, Len(new) \in Nat,
         end <= Len(old) + 1,
         \A m \in 1..Len(old) : new[m] = old[m],
         \A m \in 1..Len(old) : rows[m] # 0 => newRows[m] # 0,
         ReadIn(old, rows, a, from, end)
  PROVE  ReadIn(new, newRows, a, from, end)
<1> SUFFICES ASSUME NEW m \in 1..Len(new), new[m] = a, from <= m, m < end
             PROVE  newRows[m] # 0
  BY DEF ReadIn
<1>1. m \in 1..Len(old)
  OBVIOUS
<1>2. old[m] = a
  BY <1>1
<1>3. rows[m] # 0
  BY <1>1, <1>2 DEF ReadIn
<1> QED BY <1>1, <1>3

\* A shorter interval.
LEMMA ReadLess ==
  ASSUME NEW arrived, NEW rows, NEW a, NEW from \in Nat, NEW end \in Nat,
         NEW from2 \in Nat, NEW end2 \in Nat, from <= from2, end2 <= end,
         Len(arrived) \in Nat,
         ReadIn(arrived, rows, a, from, end)
  PROVE  ReadIn(arrived, rows, a, from2, end2)
BY DEF ReadIn

\* An interval that ends where it starts.
LEMMA ReadNothing ==
  ASSUME NEW arrived, NEW rows, NEW a, NEW from \in Nat, NEW end \in Nat, end <= from,
         Len(arrived) \in Nat
  PROVE  ReadIn(arrived, rows, a, from, end)
BY DEF ReadIn

\* The same of a watermark.
LEMMA TrustedGrows ==
  ASSUME NEW old, NEW new, NEW rows, NEW newRows, NEW a, NEW from \in Nat,
         NEW watermark \in {None} \cup Nat,
         Len(old) \in Nat, Len(new) \in Nat, Len(old) <= Len(new),
         \A m \in 1..Len(old) : new[m] = old[m],
         \A m \in 1..Len(old) : rows[m] # 0 => newRows[m] # 0,
         TrustedIn(old, rows, a, from, watermark)
  PROVE  TrustedIn(new, newRows, a, from, watermark)
<1> SUFFICES ASSUME watermark # None
             PROVE  /\ watermark <= Len(new)
                    /\ ReadIn(new, newRows, a, from, Less(watermark, Overlap))
  BY DEF TrustedIn
<1>1. watermark \in Nat /\ watermark <= Len(old)
  BY DEF TrustedIn
<1>2. ReadIn(old, rows, a, from, Less(watermark, Overlap))
  BY DEF TrustedIn
<1>3. Less(watermark, Overlap) \in Nat /\ Less(watermark, Overlap) <= watermark
  BY <1>1, LessFacts, ConstantTypes
<1> DEFINE end == Less(watermark, Overlap)
<1>4. end \in Nat /\ end <= Len(old) + 1
  BY <1>1, <1>3
<1>5. ReadIn(old, rows, a, from, end)
  BY <1>2
<1> HIDE DEF end
<1>6. ReadIn(new, newRows, a, from, end)
  BY <1>4, <1>5, ReadGrows
<1> QED BY <1>1, <1>6 DEF end

-----------------------------------------------------------------------------
(* What a step leaves to the runs it does not end.                         *)

\* Messages only arrive, and no row of a message is taken back.
Grown ==
  /\ Now <= Now'
  /\ \A m \in 1..Now : arrivals'[m] = arrivals[m]
  /\ \A m \in Messages : recorded[m] # 0 => recorded'[m] # 0

\* Within a generation the account and the baseline stay, the cursor goes forward, and
\* neither a connection nor an unfinished recovery comes back.
SameGeneration ==
  mailbox'.generation = mailbox.generation =>
    /\ Account' = Account
    /\ mailbox'.baselineFrom = mailbox.baselineFrom
    /\ mailbox.generation > 0 =>
         /\ mailbox.historyId <= mailbox'.historyId
         /\ mailbox'.status = "connected" => mailbox.status = "connected"
         /\ recovery[mailbox.generation].state = "completed" =>
              recovery'[mailbox.generation].state = "completed"

Onward ==
  /\ Grown
  /\ mailbox.generation <= mailbox'.generation
  /\ SameGeneration
  /\ floor <= floor'

\* The step does not touch the run, nor Gmail's answer to it, nor the recovery it works on.
Carries(k, g) ==
  /\ run'[k][g] = run[k][g]
  /\ run[k][g].answer # None => floor' = floor /\ Now' <= run[k][g].answer + Overlap
  /\ k = "recover" /\ run[k][g].pc # "idle" => recovery'[g] = recovery[g]

\* The types a step is reasoned with.
Rows ==
  /\ Now \in 0..MaxMessages
  /\ floor \in 0..Now
  /\ mailbox \in MailboxRows
  /\ recovery \in [Generations -> RecoveryRows]
  /\ recorded \in [Messages -> {0} \cup Generations]
  /\ run \in [Kinds -> [Generations -> RunRows]]
  /\ mailbox.generation > 0 => mailbox.historyId \in Instants

LEMMA RowsTyped == TypeOK /\ Typed /\ MailboxSound => Rows
<1> SUFFICES ASSUME TypeOK, Typed, MailboxSound PROVE Rows
  OBVIOUS
<1>1. Now \in Nat
  BY DEF TypeOK, Now
<1> QED BY <1>1, ConstantTypes DEF Rows, TypeOK, Typed, MailboxSound

LEMMA RunSoundCarries ==
  ASSUME Rows, Rows', Onward, NEW k \in Kinds, NEW g \in Generations,
         RunSound(k, g), Carries(k, g)
  PROVE  RunSound(k, g)'
<1> DEFINE r == run[k][g]
<1>1. run'[k][g] = r
  BY DEF Carries
<1>2. r \in RunRows
  BY DEF Rows
<1>3. /\ Now \in Nat /\ Now' \in Nat /\ Now <= Now'
      /\ floor \in Nat /\ floor' \in Nat /\ floor <= floor'
  BY ConstantTypes DEF Rows, Onward, Grown
<1>4. mailbox.generation \in Nat /\ mailbox'.generation \in Nat
  <2>1. {0} \cup Generations \subseteq Nat
    BY ConstantTypes DEF Generations
  <2> QED BY <2>1 DEF Rows, MailboxRows
<1>5. mailbox.generation <= mailbox'.generation
  BY DEF Onward
<1>6. ASSUME r.pc # "idle"
      PROVE  /\ r.row \in MailboxRows
             /\ r.row.generation \in 1..mailbox'.generation
             /\ r.row.historyId \in Instants
             /\ r.row.historyId <= Now'
  <2>1. /\ r.row \in MailboxRows
        /\ r.row.generation \in 1..mailbox.generation
        /\ r.row.historyId \in Instants
        /\ r.row.historyId <= Now
    BY <1>6 DEF RunSound
  <2>2. r.row.historyId \in Nat
    BY <2>1, ConstantTypes DEF Instants
  <2> QED BY <1>3, <1>4, <1>5, <2>1, <2>2
<1>7. ASSUME r.answer # None
      PROVE  r.answer <= Now' /\ Now' <= r.answer + Overlap /\ floor' <= r.answer
  <2>1. r.answer <= Now /\ floor <= r.answer
    BY <1>7 DEF RunSound
  <2>2. r.answer \in Nat
    BY <1>2, <1>7, ConstantTypes DEF RunRows, Instants
  <2>3. floor' = floor /\ Now' <= r.answer + Overlap
    BY <1>7 DEF Carries
  <2> QED BY <1>3, <2>1, <2>2, <2>3
<1>8. ASSUME k = "recover", r.pc # "idle"
      PROVE  r.row.generation = g /\ recovery'[g].state = "open"
  BY <1>8 DEF RunSound, Carries
<1>9. ASSUME r.pc = "listed"
      PROVE  r.found = {m \in {i \in 1..Now' : arrivals'[i] = r.account} :
                          r.row.historyId < m /\ m <= r.answer}
  <2>1. r.found = {m \in Inbox(r.account) : r.row.historyId < m /\ m <= r.answer}
    BY <1>9 DEF RunSound
  <2>2. r.answer # None /\ r.answer <= Now
    BY <1>9 DEF RunSound
  <2>3. r.answer \in Nat
    BY <1>2, <2>2, ConstantTypes DEF RunRows, Instants
  <2>4. \A m \in 1..Now' : m <= r.answer => m \in 1..Now /\ arrivals'[m] = arrivals[m]
    BY <1>3, <2>2, <2>3 DEF Onward, Grown
  <2>5. \A m \in 1..Now : m \in 1..Now' /\ arrivals'[m] = arrivals[m]
    BY <1>3 DEF Onward, Grown
  <2>6. Inbox(r.account) = {m \in 1..Now : arrivals[m] = r.account}
    BY DEF Inbox
  <2> QED BY <2>1, <2>4, <2>5, <2>6
<1>10. ASSUME r.pc = "expired" PROVE r.row.historyId < floor'
  <2>1. r.row.historyId < floor /\ r.row.historyId \in Nat
    BY <1>10, ConstantTypes DEF RunSound, Instants
  <2> QED BY <1>3, <2>1
<1>11. /\ (r.pc = "idle") <=> (r = Idle)
       /\ (r.answer # None) <=> (r.pc \in {"listed", "expired"})
       /\ k = "sync" /\ r.pc \in {"granted", "listed", "expired"} => r.row.syncState = "ready"
       /\ r.pc \in {"granted", "listed", "walked"} => r.account \in Accounts
       /\ r.pc = "listed" => r.row.historyId <= r.answer
  BY DEF RunSound
<1> HIDE DEF r
<1> QED BY <1>1, <1>6, <1>7, <1>8, <1>9, <1>10, <1>11 DEF RunSound, Inbox

LEMMA RunCurrentCarries ==
  ASSUME Rows, Rows', Onward, RecoverySound, NEW k \in Kinds, NEW g \in Generations,
         RunSound(k, g), RunCurrent(k, g), Carries(k, g)
  PROVE  RunCurrent(k, g)'
<1> DEFINE r == run[k][g]
           b == mailbox.baselineFrom
<1>1. run'[k][g] = r
  BY DEF Carries
<1> SUFFICES ASSUME r.pc # "idle", r.row.generation = mailbox'.generation
             PROVE  RunCurrent(k, g)'
  BY <1>1 DEF RunCurrent
<1>2. r \in RunRows
  BY DEF Rows
<1>3. /\ Now \in Nat /\ Now' \in Nat /\ Now <= Now'
      /\ Len(arrivals) = Now /\ Len(arrivals') = Now'
  BY ConstantTypes DEF Rows, Onward, Grown, Now
<1>4. mailbox.generation \in Nat /\ mailbox'.generation \in Nat
  <2>1. {0} \cup Generations \subseteq Nat
    BY ConstantTypes DEF Generations
  <2> QED BY <2>1 DEF Rows, MailboxRows
<1>5. /\ r.row \in MailboxRows
      /\ r.row.generation \in 1..mailbox.generation
      /\ r.row.historyId \in Instants
  BY DEF RunSound
<1>6. mailbox'.generation = mailbox.generation /\ mailbox.generation > 0
  BY <1>4, <1>5 DEF Onward
<1>7. r.row.generation = mailbox.generation
  BY <1>6
<1>8. /\ Account' = Account
      /\ mailbox'.baselineFrom = b
      /\ mailbox.historyId <= mailbox'.historyId
      /\ mailbox'.status = "connected" => mailbox.status = "connected"
      /\ recovery[mailbox.generation].state = "completed" =>
              recovery'[mailbox.generation].state = "completed"
  BY <1>6 DEF Onward, SameGeneration
<1>9. /\ r.row.baselineFrom = b
      /\ r.row.historyId <= mailbox.historyId
      /\ r.account # None => r.account = Account
      /\ r.row.syncState = "ready" => recovery[mailbox.generation].state = "completed"
      /\ Trusted(r.row.watermark)
      /\ r.pc = "inactive" => mailbox.status # "connected"
      /\ k = "recover" /\ r.pc = "walked" =>
           \A m \in Inbox(Account) :
             recovery[g].from <= m /\ m <= recovery[g].to => recorded[m] # 0 \/ m \in r.found
  BY <1>7 DEF RunCurrent
<1>10. r.row.historyId <= mailbox'.historyId
  <2>1. r.row.historyId \in Nat /\ mailbox.historyId \in Nat /\ mailbox'.historyId \in Nat
    BY <1>5, <1>6, ConstantTypes DEF Rows, Instants
  <2> QED BY <1>8, <1>9, <2>1
<1>11. \A m \in 1..Now : m \in Messages
  BY <1>3, ConstantTypes DEF Rows, Messages
<1>12. Trusted(r.row.watermark)'
  <2> DEFINE w == r.row.watermark
             a == Account
  <2>1. TrustedIn(arrivals, recorded, a, b, w)
    BY <1>9 DEF Trusted
  <2>2. w \in {None} \cup Nat /\ b \in Nat
    BY <1>5, ConstantTypes DEF MailboxRows, Instants, Rows
  <2>3. /\ \A m \in 1..Len(arrivals) : arrivals'[m] = arrivals[m]
        /\ \A m \in 1..Len(arrivals) : recorded[m] # 0 => recorded'[m] # 0
    BY <1>3, <1>11 DEF Onward, Grown
  <2> HIDE DEF w, a, b
  <2>4. TrustedIn(arrivals', recorded', a, b, w)
    BY <1>3, <2>1, <2>2, <2>3, TrustedGrows
  <2>5. TrustedIn(arrivals', recorded', Account', mailbox'.baselineFrom, r.row.watermark)
    BY <1>8, <2>4 DEF a, w
  <2>6. r' = r
    BY <1>1
  <2> HIDE DEF r
  <2> QED BY <2>5, <2>6 DEF Trusted
<1>13. ASSUME k = "recover", r.pc = "walked", NEW m \in 1..Now', arrivals'[m] = Account',
              recovery'[g].from <= m, m <= recovery'[g].to
       PROVE  recorded'[m] # 0 \/ m \in r.found
  <2>1. r.row.generation = g
    BY <1>13 DEF RunSound
  <2>2. recovery'[g] = recovery[g]
    BY <1>13 DEF Carries
  <2>3. recovery[g].to <= Now /\ recovery[g].to \in Nat
    <3>1. recovery[g].to <= Now
      BY <1>6, <1>7, <2>1 DEF RecoverySound
    <3> QED BY <3>1, ConstantTypes DEF Rows, RecoveryRows, Instants
  <2>4. m \in 1..Now /\ arrivals[m] = Account
    BY <1>3, <1>8, <1>13, <2>2, <2>3 DEF Onward, Grown
  <2>5. recorded[m] # 0 \/ m \in r.found
    BY <1>9, <1>13, <2>2, <2>4 DEF Inbox
  <2> QED BY <1>11, <2>4, <2>5 DEF Onward, Grown
<1>14. r' = r
  BY <1>1
<1> HIDE DEF r
<1> QED BY <1>6, <1>8, <1>9, <1>10, <1>12, <1>13, <1>14 DEF RunCurrent, Inbox, r

\* A run that ended knows nothing.
LEMMA RunEnded ==
  ASSUME NEW k \in Kinds, NEW g \in Generations, run'[k][g] = Idle
  PROVE  RunSound(k, g)' /\ RunCurrent(k, g)'
<1>1. Idle.pc = "idle" /\ Idle.answer = None
  BY DEF Idle
<1> QED BY <1>1 DEF RunSound, RunCurrent

\* A step that ends some runs and leaves the others alone.
LEMMA RunsCarry ==
  ASSUME Rows, Rows', Onward, RecoverySound, Runs,
         \A k \in Kinds, g \in Generations : Carries(k, g) \/ run'[k][g] = Idle
  PROVE  Runs'
<1>1. ASSUME NEW k \in Kinds, NEW g \in Generations
      PROVE  RunSound(k, g)' /\ RunCurrent(k, g)'
  <2>1. RunSound(k, g) /\ RunCurrent(k, g)
    BY DEF Runs
  <2> QED BY <2>1, RunSoundCarries, RunCurrentCarries, RunEnded
<1> QED BY <1>1 DEF Runs

-----------------------------------------------------------------------------
(* Steps that write nothing but the run, its job and the holds.            *)

\* What TypeOK says of the jobs.
JobsSound ==
  \A k \in Kinds, g \in Generations :
    /\ job[k][g] \in JobStates
    /\ (job[k][g] = "running") <=> (run[k][g] # Idle)
    /\ job[k][g] # "absent" => g <= mailbox.generation

LEMMA RunPut ==
  ASSUME run \in [Kinds -> [Generations -> RunRows]], NEW k \in Kinds, NEW g \in Generations,
         NEW r \in RunRows, Goes(k, g, r)
  PROVE  /\ run' \in [Kinds -> [Generations -> RunRows]]
         /\ run'[k][g] = r
         /\ \A l \in Kinds, i \in Generations : l # k \/ i # g => run'[l][i] = run[l][i]
BY DEF Goes

LEMMA JobPut ==
  ASSUME job \in [Kinds -> [Generations -> JobStates]], NEW k \in Kinds,
         NEW g \in Generations, NEW s \in JobStates, job' = [job EXCEPT ![k][g] = s]
  PROVE  /\ job' \in [Kinds -> [Generations -> JobStates]]
         /\ job'[k][g] = s
         /\ \A l \in Kinds, i \in Generations : l # k \/ i # g => job'[l][i] = job[l][i]
OBVIOUS

\* A job is running when its run is under way, whatever the run does next.
LEMMA JobsFollow ==
  ASSUME Typed, JobsSound, NEW k \in Kinds, NEW g \in Generations, g <= mailbox'.generation,
         mailbox.generation \in Nat, mailbox'.generation \in Nat,
         mailbox.generation <= mailbox'.generation,
         NEW s \in JobStates, job' = [job EXCEPT ![k][g] = s],
         NEW r \in RunRows, Goes(k, g, r), (s = "running") <=> (r # Idle)
  PROVE  JobsSound'
<1> USE ConstantTypes
<1>1. /\ job'[k][g] = s
      /\ \A l \in Kinds, i \in Generations : l # k \/ i # g => job'[l][i] = job[l][i]
  BY JobPut DEF Typed
<1>2. /\ run'[k][g] = r
      /\ \A l \in Kinds, i \in Generations : l # k \/ i # g => run'[l][i] = run[l][i]
  BY RunPut DEF Typed
<1>3. ASSUME NEW l \in Kinds, NEW i \in Generations
      PROVE  /\ job'[l][i] \in JobStates
             /\ (job'[l][i] = "running") <=> (run'[l][i] # Idle)
             /\ job'[l][i] # "absent" => i <= mailbox'.generation
  <2>1. CASE l = k /\ i = g
    BY <1>1, <1>2, <2>1
  <2>2. CASE l # k \/ i # g
    <3>1. job'[l][i] = job[l][i] /\ run'[l][i] = run[l][i]
      BY <1>1, <1>2, <2>2
    <3>2. i \in Nat
      BY DEF Generations
    <3>3. /\ job[l][i] \in JobStates
          /\ (job[l][i] = "running") <=> (run[l][i] # Idle)
          /\ job[l][i] # "absent" => i <= mailbox.generation
      BY DEF JobsSound
    <3> QED BY <3>1, <3>2, <3>3
  <2> QED BY <2>1, <2>2
<1>4. Idle' = Idle
  BY DEF Idle
<1> QED BY <1>3, <1>4 DEF JobsSound

LEMMA IdleTyped == Idle \in RunRows /\ Idle.pc = "idle" /\ Idle.answer = None
BY DEF Idle, RunRows, Places

\* The generation is a number, and so is that of whatever row a run holds.
LEMMA GenerationTyped ==
  ASSUME Rows
  PROVE  /\ mailbox.generation \in Nat
         /\ mailbox.generation \in {0} \cup Generations
         /\ \A g \in Generations : g \in Nat /\ g > 0
<1>1. \A g \in Generations : g \in Nat /\ g > 0
  BY ConstantTypes DEF Generations
<1> QED BY <1>1 DEF Rows, MailboxRows

Books == <<arrivals, floor, addresses, mailbox, recovery, recorded, grant>>

\* Nothing moved, so every other run goes on.
LEMMA QuietRuns ==
  ASSUME Rows, Rows', RecoverySound, Runs, UNCHANGED Books,
         NEW k \in Kinds, NEW g \in Generations, NEW r \in RunRows, Goes(k, g, r),
         RunSound(k, g)', RunCurrent(k, g)'
  PROVE  Runs'
<1>1. Now' = Now /\ Account' = Account
  BY DEF Books, Now, Account
<1>2. mailbox.generation \in Nat /\ floor \in Nat /\ Now \in Nat
  BY GenerationTyped, ConstantTypes DEF Rows
<1>3. mailbox.generation > 0 => mailbox.historyId <= mailbox.historyId
  BY ConstantTypes DEF Rows, Instants
<1>4. Onward
  BY <1>1, <1>2, <1>3 DEF Onward, Grown, SameGeneration, Books
<1>5. ASSUME NEW l \in Kinds, NEW i \in Generations
      PROVE  RunSound(l, i)' /\ RunCurrent(l, i)'
  <2>1. CASE l = k /\ i = g
    BY <2>1
  <2>2. CASE l # k \/ i # g
    <3>1. run'[l][i] = run[l][i]
      BY <2>2, RunPut DEF Rows
    <3>2. RunSound(l, i) /\ RunCurrent(l, i)
      BY DEF Runs
    <3>3. run[l][i].answer # None => Now' <= run[l][i].answer + Overlap
      BY <1>1, <3>2 DEF RunSound
    <3>4. Carries(l, i)
      BY <3>1, <3>3 DEF Carries, Books
    <3> QED BY <1>4, <3>2, <3>4, RunSoundCarries, RunCurrentCarries
  <2> QED BY <2>1, <2>2
<1> QED BY <1>5 DEF Runs

\* A run owes an expiry only if it, or the mailbox it just read, did before.
LEMMA QuietSpent ==
  ASSUME Rows, Spent, UNCHANGED Books, NEW k \in Kinds, NEW g \in Generations,
         NEW r \in RunRows, Goes(k, g, r),
         used'.grants = used.grants, used'.expiries = used.expiries,
         \/ r.pc = "idle"
         \/ r.row = mailbox
         \/ run[k][g].pc # "idle" /\ r.row = run[k][g].row
  PROVE  Spent'
<1>1. Pending' = Pending
  BY DEF Pending, Books
<1>2. ASSUME Owing' PROVE Owing
  <2>1. mailbox.generation > 0
    BY <1>2 DEF Owing, Books
  <2>2. CASE mailbox'.historyId < floor'
    BY <2>1, <2>2 DEF Owing, Books
  <2>3. CASE \E l \in Kinds, i \in Generations : Behind(l, i)'
    <3>1. PICK l \in Kinds, i \in Generations : Behind(l, i)'
      BY <2>3
    <3>2. /\ run'[l][i].pc # "idle"
          /\ run'[l][i].row.generation = mailbox.generation
          /\ run'[l][i].row.historyId < floor
      BY <3>1 DEF Behind, Books
    <3>3. CASE l = k /\ i = g
      <4>1. run'[l][i] = r
        BY <3>3, RunPut DEF Rows
      <4>2. CASE r.row = mailbox
        BY <2>1, <3>2, <4>1, <4>2 DEF Owing
      <4>3. CASE run[k][g].pc # "idle" /\ r.row = run[k][g].row
        BY <2>1, <3>2, <4>1, <4>3 DEF Owing, Behind
      <4> QED BY <3>2, <4>1, <4>2, <4>3
    <3>4. CASE l # k \/ i # g
      <4>1. run'[l][i] = run[l][i]
        BY <3>4, RunPut DEF Rows
      <4> QED BY <2>1, <3>2, <4>1 DEF Owing, Behind
    <3> QED BY <3>3, <3>4
  <2> QED BY <1>2, <2>2, <2>3 DEF Owing
<1> QED BY <1>1, <1>2 DEF Spent, Books

\* A step of one run that leaves the books alone keeps the invariant when the run
\* knows what is true and the holds still match.
LEMMA QuietStep ==
  ASSUME IInv, UNCHANGED Books, NEW k \in Kinds, NEW g \in Generations,
         NEW r \in RunRows, Goes(k, g, r), RunSound(k, g)', RunCurrent(k, g)',
         \/ r.pc = "idle"
         \/ r.row = mailbox
         \/ run[k][g].pc # "idle" /\ r.row = run[k][g].row,
         NEW s \in JobStates, job' = [job EXCEPT ![k][g] = s],
         (s = "running") <=> (r # Idle), g <= mailbox.generation,
         UNCHANGED used \/ Fault,
         holds' \subseteq {"coverage_incomplete", "mailbox_disconnected"},
         HoldsMatchMailbox'
  PROVE  IInv'
<1>1. TypeOK /\ Typed /\ MailboxSound /\ RecoverySound /\ GrantSound /\ Spent /\ Runs
  BY DEF IInv
<1>2. Rows
  BY <1>1, RowsTyped
<1>3. run' \in [Kinds -> [Generations -> RunRows]]
  BY <1>1, RunPut DEF Typed
<1>4. Rows'
  <2>1. Now' = Now
    BY DEF Books, Now
  <2> QED BY <1>2, <1>3, <2>1 DEF Rows, Books
<1>5. /\ used'.grants = used.grants /\ used'.expiries = used.expiries
      /\ used' \in [grants : 0..MaxGrants, expiries : 0..MaxExpiries, faults : 0..MaxFaults]
  <2>1. CASE UNCHANGED used
    BY <1>1, <2>1 DEF Typed
  <2>2. CASE Fault
    BY <1>1, <2>2, ConstantTypes DEF Typed, Fault
  <2> QED BY <2>1, <2>2
<1>6. Runs'
  BY <1>1, <1>2, <1>4, QuietRuns
<1>7. Spent'
  BY <1>1, <1>2, <1>5, QuietSpent
<1>8. mailbox' = mailbox
  BY DEF Books
<1>9. JobsSound'
  <2>1. JobsSound
    BY <1>1 DEF TypeOK, JobsSound
  <2>2. mailbox.generation \in Nat /\ mailbox'.generation = mailbox.generation
    BY <1>2, <1>8, GenerationTyped
  <2>3. mailbox.generation <= mailbox'.generation
    BY <2>2
  <2> QED BY <1>1, <2>1, <2>2, <2>3, JobsFollow
<1>10. Typed'
  <2>1. job' \in [Kinds -> [Generations -> JobStates]]
    BY <1>1, JobPut DEF Typed
  <2> QED BY <1>1, <1>3, <1>5, <2>1 DEF Typed, Books
<1>11. TypeOK'
  <2>1. Now' = Now
    BY DEF Books, Now
  <2>2. \A l \in Kinds, i \in Generations :
          /\ job'[l][i] \in JobStates
          /\ (job'[l][i] = "running") <=> (run'[l][i] # Idle)
          /\ job'[l][i] # "absent" => i <= mailbox'.generation
    BY <1>9 DEF JobsSound, Idle
  <2> QED BY <1>1, <2>1, <2>2 DEF TypeOK, Books, Idle
<1>12. MailboxSound' /\ RecoverySound' /\ GrantSound'
  <2>1. Now' = Now /\ Account' = Account
    BY DEF Books, Now, Account
  <2>2. MailboxSound'
    BY <1>1, <2>1 DEF MailboxSound, Trusted, TrustedIn, Read, ReadIn, Books
  <2>3. RecoverySound'
    BY <1>1, <2>1 DEF RecoverySound, Read, ReadIn, Books
  <2>4. GrantSound'
    BY <1>1, <2>1 DEF GrantSound, Books
  <2> QED BY <2>2, <2>3, <2>4
<1> QED BY <1>6, <1>7, <1>10, <1>11, <1>12 DEF IInv

\* A run that ends with nothing written but holds.
LEMMA QuietEnd ==
  ASSUME IInv, UNCHANGED Books, NEW k \in Kinds, NEW g \in Generations,
         NEW s \in {"queued", "done"}, Ends(k, g, s), job[k][g] # "absent",
         UNCHANGED used \/ Fault,
         holds' \subseteq {"coverage_incomplete", "mailbox_disconnected"},
         HoldsMatchMailbox'
  PROVE  IInv'
<1>1. job' = [job EXCEPT ![k][g] = s] /\ Goes(k, g, Idle)
  BY DEF Ends
<1>2. g <= mailbox.generation
  BY DEF IInv, TypeOK
<1>3. run'[k][g] = Idle
  BY <1>1, IdleTyped, RunPut DEF IInv, Typed
<1>4. RunSound(k, g)' /\ RunCurrent(k, g)'
  BY <1>3, RunEnded
<1>5. s \in JobStates /\ s # "running"
  BY DEF JobStates
<1> QED BY <1>1, <1>2, <1>4, <1>5, IdleTyped, QuietStep

\* A run that goes on with its job still running.
LEMMA QuietMove ==
  ASSUME IInv, UNCHANGED Books, NEW k \in Kinds, NEW g \in Generations,
         NEW r \in RunRows, Goes(k, g, r), r.pc # "idle", run[k][g].pc # "idle",
         r.row = run[k][g].row, RunSound(k, g)', RunCurrent(k, g)',
         job' = job, holds' = holds, UNCHANGED used \/ Fault
  PROVE  IInv'
<1>1. run[k][g] # Idle /\ r # Idle
  BY IdleTyped
<1>2. job[k][g] = "running" /\ g <= mailbox.generation
  BY <1>1 DEF IInv, TypeOK
<1>3. job' = [job EXCEPT ![k][g] = "running"]
  BY <1>2 DEF IInv, Typed
<1>4. HoldsMatchMailbox' /\ holds' \subseteq {"coverage_incomplete", "mailbox_disconnected"}
  BY DEF IInv, TypeOK, HoldsMatchMailbox, Books
<1>5. "running" \in JobStates
  BY DEF JobStates
<1> QED BY <1>1, <1>2, <1>3, <1>4, <1>5, QuietStep

\* readMailbox: the run knows the row as it is.
LEMMA BeginStep ==
  ASSUME IInv, NEW k \in Kinds, NEW g \in Generations, Begin(k, g)
  PROVE  IInv'
<1> USE ConstantTypes
<1>1. TypeOK /\ Typed /\ MailboxSound /\ RecoverySound
  BY DEF IInv
<1>2. Rows
  BY <1>1, RowsTyped
<1> DEFINE pc == IF mailbox.status = "connected" THEN "begun" ELSE "inactive"
           r == [Idle EXCEPT !.row = mailbox, !.pc = pc]
<1>3. job[k][g] = "queued" /\ run[k][g] = Idle /\ g <= mailbox.generation
  BY <1>1 DEF Begin, TypeOK
<1>4. Goes(k, g, r) /\ job' = [job EXCEPT ![k][g] = "running"]
  BY <1>3 DEF Begin
<1>5. UNCHANGED Books /\ UNCHANGED used /\ UNCHANGED holds
  BY DEF Begin, Books
<1>6. /\ r.pc = pc /\ r.row = mailbox /\ r.account = None /\ r.answer = None
      /\ r.found = {} /\ r.binding = None
  BY DEF Idle
<1>7. pc \in {"begun", "inactive"} /\ (pc = "inactive" => mailbox.status # "connected")
  OBVIOUS
<1>8. r \in RunRows
  BY <1>2, <1>7 DEF Idle, RunRows, Places, Rows
<1>9. mailbox.generation \in Nat /\ g \in Nat /\ g > 0
  BY <1>2, GenerationTyped
<1>10. /\ mailbox \in MailboxRows /\ mailbox.generation \in 1..mailbox.generation
       /\ mailbox.historyId \in Instants /\ mailbox.historyId <= Now
       /\ mailbox.generation > 0 /\ Trusted(mailbox.watermark)
       /\ mailbox.historyId <= mailbox.historyId
  <2>1. mailbox.generation > 0
    BY <1>3, <1>9
  <2>2. mailbox.historyId \in Instants /\ mailbox.historyId <= Now /\ Trusted(mailbox.watermark)
    BY <1>1, <2>1 DEF MailboxSound
  <2>3. mailbox.historyId \in Nat
    BY <2>2 DEF Instants
  <2> QED BY <1>2, <1>9, <2>1, <2>2, <2>3 DEF Rows
<1>11. k = "recover" => mailbox.generation = g /\ recovery[g].state = "open"
  BY DEF Begin
<1>12. mailbox.syncState = "ready" => recovery[mailbox.generation].state = "completed"
  BY <1>1 DEF MailboxSound
<1> HIDE DEF pc, r
<1>13. r # Idle
  BY <1>6, <1>7, IdleTyped
<1>14. run'[k][g] = r
  BY <1>2, <1>4, <1>8, RunPut DEF Rows
<1>15. /\ Now' = Now /\ Account' = Account
       /\ (Trusted(mailbox.watermark))' = Trusted(mailbox.watermark)
  BY <1>5 DEF Books, Now, Account, Trusted
<1>16. RunSound(k, g)'
  <2>1. Idle' = Idle
    BY DEF Idle
  <2> QED BY <1>5, <1>6, <1>7, <1>10, <1>11, <1>13, <1>14, <1>15, <2>1 DEF RunSound, Books
<1>17. RunCurrent(k, g)'
  BY <1>5, <1>6, <1>7, <1>10, <1>12, <1>14, <1>15 DEF RunCurrent, Books, Trusted
<1>18. HoldsMatchMailbox' /\ holds' \subseteq {"coverage_incomplete", "mailbox_disconnected"}
  BY <1>5 DEF IInv, TypeOK, HoldsMatchMailbox, Books
<1>19. "running" \in JobStates
  BY DEF JobStates
<1> QED BY <1>3, <1>4, <1>5, <1>6, <1>8, <1>13, <1>16, <1>17, <1>18, <1>19, QuietStep

\* Ends that write at most a hold.
LEMMA UnderWay ==
  ASSUME IInv, NEW k \in Kinds, NEW g \in Generations, run[k][g].pc # "idle"
  PROVE  /\ job[k][g] = "running"
         /\ g <= mailbox.generation
         /\ run[k][g] \in RunRows
         /\ RunSound(k, g) /\ RunCurrent(k, g)
         /\ mailbox.generation > 0 /\ mailbox.status # "absent"
<1>1. run[k][g] # Idle
  BY IdleTyped
<1>2. job[k][g] = "running" /\ g <= mailbox.generation
  BY <1>1 DEF IInv, TypeOK
<1>3. Rows
  BY RowsTyped DEF IInv
<1>4. mailbox.generation > 0
  BY <1>2, <1>3, GenerationTyped
<1>5. mailbox.status # "absent"
  BY <1>4 DEF IInv, MailboxSound
<1> QED BY <1>2, <1>3, <1>4, <1>5 DEF IInv, Runs, Rows

LEMMA SameHolds ==
  ASSUME IInv, UNCHANGED Books, UNCHANGED holds
  PROVE  HoldsMatchMailbox' /\ holds' \subseteq {"coverage_incomplete", "mailbox_disconnected"}
BY DEF IInv, TypeOK, HoldsMatchMailbox, Books

\* generation_superseded, already_complete, a failed read, a stale fence, a crash.
LEMMA BeginMootStep ==
  ASSUME IInv, NEW g \in Generations, BeginMoot(g)
  PROVE  IInv'
<1>1. UNCHANGED Books /\ UNCHANGED holds /\ UNCHANGED used
  BY DEF BeginMoot, Books
<1>2. "recover" \in Kinds /\ Ends("recover", g, "done") /\ job["recover"][g] # "absent"
  BY DEF BeginMoot, Kinds
<1> QED BY <1>1, <1>2, SameHolds, QuietEnd

LEMMA FutileSteps ==
  ASSUME IInv, NEW k \in Kinds, NEW g \in Generations,
         ReadFailed(k, g) \/ StaleMailboxGeneration(k, g) \/ Crash(k, g)
  PROVE  IInv'
<1>1. UNCHANGED Books /\ UNCHANGED holds /\ (UNCHANGED used \/ Fault)
  BY DEF ReadFailed, StaleMailboxGeneration, Crash, Books
<1>2. PICK s \in {"queued", "done"} : Ends(k, g, s)
  BY DEF ReadFailed, StaleMailboxGeneration, Crash
<1>3. run[k][g].pc # "idle"
  BY DEF ReadFailed, StaleMailboxGeneration, Crash
<1>4. job[k][g] # "absent"
  BY <1>3, UnderWay
<1> QED BY <1>1, <1>2, <1>4, SameHolds, QuietEnd

\* mailbox_inactive: the mailbox is what the run read, and so it is not connected.
LEMMA HoldInactiveStep ==
  ASSUME IInv, NEW k \in Kinds, NEW g \in Generations, HoldInactive(k, g)
  PROVE  IInv'
<1>1. UNCHANGED Books /\ UNCHANGED used /\ holds' = holds \cup {"mailbox_disconnected"}
  BY DEF HoldInactive, Books
<1>2. run[k][g].pc = "inactive" /\ mailbox.generation = run[k][g].row.generation
      /\ Ends(k, g, "done")
  BY DEF HoldInactive, Fenced
<1>3. job[k][g] # "absent" /\ mailbox.status # "connected"
  BY <1>2, UnderWay DEF RunCurrent
<1>4. HoldsMatchMailbox' /\ holds' \subseteq {"coverage_incomplete", "mailbox_disconnected"}
  BY <1>1, <1>3 DEF IInv, TypeOK, HoldsMatchMailbox, Books
<1> QED BY <1>1, <1>2, <1>3, <1>4, QuietEnd

\* A coverage hold more.
LEMMA HoldUnreadyStep ==
  ASSUME IInv, NEW g \in Generations, HoldUnready(g)
  PROVE  IInv'
<1>1. UNCHANGED Books /\ UNCHANGED used /\ holds' = holds \cup {"coverage_incomplete"}
  BY DEF HoldUnready, Books
<1>2. "sync" \in Kinds /\ run["sync"][g].pc = "unready" /\ Ends("sync", g, "done")
  BY DEF HoldUnready, Kinds
<1>3. job["sync"][g] # "absent"
  BY <1>2, UnderWay
<1>4. HoldsMatchMailbox' /\ holds' \subseteq {"coverage_incomplete", "mailbox_disconnected"}
  BY <1>1 DEF IInv, TypeOK, HoldsMatchMailbox, Books
<1> QED BY <1>1, <1>2, <1>3, <1>4, QuietEnd

-----------------------------------------------------------------------------
(* A run learns from the database and from Gmail.                          *)

\* What the run may have learned: r is what it knows next.
Learns(k, g, r) ==
  LET q == run[k][g] IN
  /\ q.pc # "idle"
  /\ r \in RunRows
  /\ Goes(k, g, r)
  /\ r.row = q.row
  /\ r.pc \notin {"idle", "inactive"}
  /\ r.account # None => r.account = q.account \/ r.account = Account
  /\ r.pc \in {"granted", "listed", "walked"} => r.account \in Accounts
  /\ (r.answer # None) <=> (r.pc \in {"listed", "expired"})
  /\ r.answer # None => r.answer = Now
  /\ k = "sync" /\ r.pc \in {"granted", "listed", "expired"} => q.row.syncState = "ready"
  /\ r.pc = "listed" =>
       r.found = {m \in Inbox(r.account) : q.row.historyId < m /\ m <= r.answer}
  /\ r.pc = "expired" => q.row.historyId < floor
  /\ k = "recover" /\ r.pc = "walked" /\ r.row.generation = mailbox.generation =>
       \A m \in Inbox(Account) :
         recovery[g].from <= m /\ m <= recovery[g].to => recorded[m] # 0 \/ m \in r.found

LEMMA LearnStep ==
  ASSUME IInv, NEW k \in Kinds, NEW g \in Generations, NEW r, Learns(k, g, r),
         UNCHANGED Books, job' = job, holds' = holds, UNCHANGED used \/ Fault
  PROVE  IInv'
<1> USE ConstantTypes
<1>1. Rows
  BY RowsTyped DEF IInv
<1>2. run[k][g].pc # "idle" /\ r \in RunRows /\ Goes(k, g, r) /\ r.row = run[k][g].row
      /\ r.pc # "idle"
  BY DEF Learns
<1>3. run'[k][g] = r
  BY <1>1, <1>2, RunPut DEF Rows
<1>4. RunSound(k, g) /\ RunCurrent(k, g)
  BY <1>2, UnderWay
<1>5. Now' = Now /\ Account' = Account
  BY DEF Books, Now, Account
<1>6. r # Idle /\ Idle' = Idle
  BY <1>2, IdleTyped DEF Idle
<1> DEFINE row == r.row
<1>7. /\ row \in MailboxRows
      /\ row.generation \in 1..mailbox.generation
      /\ row.historyId \in Instants
      /\ row.historyId <= Now
      /\ k = "recover" => row.generation = g /\ recovery[g].state = "open"
  BY <1>2, <1>4 DEF RunSound
<1>8. r.answer # None =>
        /\ r.answer <= Now
        /\ Now <= r.answer + Overlap
        /\ floor <= r.answer
        /\ row.historyId <= r.answer
  <2>1. Now \in Nat /\ floor \in Nat /\ floor <= Now
    BY <1>1 DEF Rows
  <2> QED BY <1>7, <2>1 DEF Learns
<1>9. /\ (r.answer # None) <=> (r.pc \in {"listed", "expired"})
      /\ k = "sync" /\ r.pc \in {"granted", "listed", "expired"} => row.syncState = "ready"
      /\ r.pc \in {"granted", "listed", "walked"} => r.account \in Accounts
      /\ r.pc = "listed" =>
           r.found = {m \in Inbox(r.account) : row.historyId < m /\ m <= r.answer}
      /\ r.pc = "expired" => row.historyId < floor
  BY <1>2 DEF Learns
<1>10. RunSound(k, g)'
  <2>1. floor' = floor /\ mailbox' = mailbox /\ recovery' = recovery
    BY DEF Books
  <2>2. Inbox(run[k][g].account)' = {m \in 1..Now : arrivals[m] = r.account}
    BY <1>3, <1>5 DEF Inbox, Books
  <2>3. Inbox(r.account) = {m \in 1..Now : arrivals[m] = r.account}
    BY DEF Inbox
  <2>4. r.pc = "listed" =>
          r.found = {m \in Inbox(run[k][g].account)' : row.historyId < m /\ m <= r.answer}
    BY <1>9, <2>2, <2>3
  <2> QED BY <1>2, <1>3, <1>5, <1>6, <1>7, <1>8, <1>9, <2>1, <2>4 DEF RunSound
<1>11. ASSUME row.generation = mailbox.generation
       PROVE  /\ row.baselineFrom = mailbox.baselineFrom
              /\ row.historyId <= mailbox.historyId
              /\ r.account # None => r.account = Account
              /\ row.syncState = "ready" => recovery[mailbox.generation].state = "completed"
              /\ Trusted(row.watermark)
              /\ r.pc # "inactive"
              /\ k = "recover" /\ r.pc = "walked" =>
                   \A m \in Inbox(Account) :
                     recovery[g].from <= m /\ m <= recovery[g].to =>
                       recorded[m] # 0 \/ m \in r.found
  <2>1. /\ row.baselineFrom = mailbox.baselineFrom
        /\ row.historyId <= mailbox.historyId
        /\ run[k][g].account # None => run[k][g].account = Account
        /\ row.syncState = "ready" => recovery[mailbox.generation].state = "completed"
        /\ Trusted(row.watermark)
    BY <1>2, <1>4, <1>11 DEF RunCurrent
  <2> QED BY <1>11, <2>1 DEF Learns
<1>12. RunCurrent(k, g)'
  <2>1. mailbox' = mailbox /\ recovery' = recovery /\ recorded' = recorded
        /\ arrivals' = arrivals /\ addresses' = addresses
    BY DEF Books
  <2>2. Inbox(Account)' = Inbox(Account)
    BY <1>5, <2>1 DEF Inbox
  <2>3. Trusted(run[k][g].row.watermark)' = Trusted(row.watermark)
    BY <1>3, <1>5, <2>1 DEF Trusted
  <2> QED BY <1>2, <1>3, <1>5, <1>11, <2>1, <2>2, <2>3 DEF RunCurrent
<1> QED BY <1>2, <1>10, <1>12, QuietMove

\* accessForMailbox, granted: the token is that of the account the mailbox has now.
LEMMA AccessGrantedStep ==
  ASSUME IInv, NEW k \in Kinds, NEW g \in Generations, AccessGranted(k, g)
  PROVE  IInv'
<1> USE ConstantTypes
<1> DEFINE q == run[k][g]
           unready == k = "sync" /\ q.row.syncState # "ready"
           pc == IF unready THEN "unready" ELSE "granted"
           r == [q EXCEPT !.account = Account, !.pc = pc]
<1>1. q.pc = "begun" /\ Goes(k, g, r) /\ UNCHANGED used /\ job' = job /\ holds' = holds
      /\ UNCHANGED Books
  BY DEF AccessGranted, Books
<1>2. q \in RunRows /\ mailbox.generation > 0 /\ RunSound(k, g)
  BY <1>1, UnderWay
<1>3. Account \in Accounts
  BY <1>2 DEF IInv, TypeOK, MailboxRows, Generations, Account
<1>4. pc \in {"unready", "granted"}
      /\ (k = "sync" /\ pc = "granted" => q.row.syncState = "ready")
  OBVIOUS
<1>5. q.answer = None
  BY <1>1, <1>2 DEF RunSound
<1> HIDE DEF pc
<1>6. r \in RunRows
  BY <1>2, <1>3, <1>4 DEF RunRows, Places
<1>7. /\ r.pc = pc /\ r.account = Account /\ r.row = q.row /\ r.answer = q.answer
      /\ r.found = q.found
  BY <1>2 DEF RunRows
<1> HIDE DEF r
<1>8. Learns(k, g, r)
  BY <1>1, <1>3, <1>4, <1>5, <1>6, <1>7 DEF Learns
<1> QED BY <1>1, <1>8, LearnStep

\* accessForMailbox or a listing, refused.
LEMMA AccessRefusedStep ==
  ASSUME IInv, NEW k \in Kinds, NEW g \in Generations, AccessRefused(k, g)
  PROVE  IInv'
<1> DEFINE q == run[k][g]
           r == [q EXCEPT !.pc = "refused"]
<1>1. q.pc \in {"begun", "granted"} /\ Goes(k, g, r) /\ (UNCHANGED used \/ Fault)
      /\ job' = job /\ holds' = holds /\ UNCHANGED Books
  BY DEF AccessRefused, Books
<1>2. q \in RunRows /\ RunSound(k, g)
  BY <1>1, UnderWay
<1>3. q.answer = None
  BY <1>1, <1>2 DEF RunSound
<1>4. r \in RunRows
  BY <1>2 DEF RunRows, Places
<1>5. r.pc = "refused" /\ r.account = q.account /\ r.row = q.row /\ r.answer = q.answer
  BY <1>2 DEF RunRows
<1> HIDE DEF r
<1>6. Learns(k, g, r)
  BY <1>1, <1>3, <1>4, <1>5 DEF Learns
<1> QED BY <1>1, <1>6, LearnStep

\* history.list: what Gmail has after the cursor the run read.
LEMMA ListHistoryStep ==
  ASSUME IInv, NEW g \in Generations, ListHistory(g)
  PROVE  IInv'
<1> USE ConstantTypes
<1> DEFINE q == run["sync"][g]
           found == {m \in Inbox(q.account) : m > q.row.historyId}
           r == [q EXCEPT !.pc = "listed", !.answer = Now, !.found = found]
<1>1. q.pc = "granted" /\ Goes("sync", g, r) /\ UNCHANGED used
      /\ job' = job /\ holds' = holds /\ UNCHANGED Books
  BY DEF ListHistory, Books
<1>2. "sync" \in Kinds
  BY DEF Kinds
<1>3. q \in RunRows /\ RunSound("sync", g)
  BY <1>1, <1>2, UnderWay
<1>4. /\ q.account \in Accounts /\ q.row.syncState = "ready" /\ q.row.historyId \in Nat
  BY <1>1, <1>3 DEF RunSound, Instants
<1>5. Now \in Nat /\ Now <= MaxMessages
  BY RowsTyped DEF IInv, Rows
<1>6. found = {m \in Inbox(q.account) : q.row.historyId < m /\ m <= Now}
  BY <1>4, <1>5 DEF Inbox
<1>7. found \in SUBSET Messages
  BY <1>5 DEF Inbox, Messages
<1>8. Now \in Instants
  BY <1>5 DEF Instants
<1> HIDE DEF found
<1>9. r \in RunRows
  BY <1>3, <1>7, <1>8 DEF RunRows, Places
<1>10. r.pc = "listed" /\ r.account = q.account /\ r.row = q.row /\ r.answer = Now
       /\ r.found = found
  BY <1>3 DEF RunRows
<1> HIDE DEF r
<1>11. Learns("sync", g, r)
  BY <1>1, <1>4, <1>6, <1>8, <1>9, <1>10 DEF Learns
<1> QED BY <1>1, <1>2, <1>11, LearnStep

\* history_expired, and the profile's history id.
LEMMA ExpiredCursorStep ==
  ASSUME IInv, NEW g \in Generations, ExpiredCursor(g)
  PROVE  IInv'
<1> USE ConstantTypes
<1> DEFINE q == run["sync"][g]
           r == [q EXCEPT !.pc = "expired", !.answer = Now]
<1>1. q.pc = "granted" /\ q.row.historyId < floor /\ Goes("sync", g, r) /\ UNCHANGED used
      /\ job' = job /\ holds' = holds /\ UNCHANGED Books
  BY DEF ExpiredCursor, Books
<1>2. "sync" \in Kinds
  BY DEF Kinds
<1>3. q \in RunRows /\ RunSound("sync", g)
  BY <1>1, <1>2, UnderWay
<1>4. q.row.syncState = "ready"
  BY <1>1, <1>3 DEF RunSound
<1>5. Now \in Instants
  BY RowsTyped DEF IInv, Rows, Instants
<1>6. r \in RunRows
  BY <1>3, <1>5 DEF RunRows, Places
<1>7. r.pc = "expired" /\ r.account = q.account /\ r.row = q.row /\ r.answer = Now
  BY <1>3 DEF RunRows
<1> HIDE DEF r
<1>8. Learns("sync", g, r)
  BY <1>1, <1>4, <1>5, <1>6, <1>7 DEF Learns
<1> QED BY <1>1, <1>2, <1>8, LearnStep

\* The walk of the interval: what of it has no row was found.
LEMMA WalkIntervalStep ==
  ASSUME IInv, NEW g \in Generations, WalkInterval(g)
  PROVE  IInv'
<1> USE ConstantTypes
<1> DEFINE q == run["recover"][g]
           listed == {m \in Inbox(q.account) : recovery[g].from <= m /\ m <= recovery[g].to}
           found == {m \in listed : recorded[m] = 0}
           r == [q EXCEPT !.pc = "walked", !.binding = mailbox.generation, !.found = found]
<1>1. q.pc = "granted" /\ Goes("recover", g, r) /\ UNCHANGED used
      /\ job' = job /\ holds' = holds /\ UNCHANGED Books
  BY DEF WalkInterval, Books
<1>2. "recover" \in Kinds
  BY DEF Kinds
<1>3. q \in RunRows /\ RunSound("recover", g) /\ RunCurrent("recover", g)
  BY <1>1, <1>2, UnderWay
<1>4. q.account \in Accounts /\ q.answer = None
  BY <1>1, <1>3 DEF RunSound
<1>5. q.row.generation = mailbox.generation => q.account = Account
  BY <1>1, <1>3, <1>4 DEF RunCurrent
<1>6. Now \in Nat /\ Now <= MaxMessages
  BY RowsTyped DEF IInv, Rows
<1>7. found \in SUBSET Messages
  BY <1>6 DEF Inbox, Messages
<1>8. q.row.generation = mailbox.generation =>
        \A m \in Inbox(Account) :
          recovery[g].from <= m /\ m <= recovery[g].to => recorded[m] # 0 \/ m \in found
  BY <1>5
<1>9. mailbox.generation \in {0} \cup Generations
  BY RowsTyped, GenerationTyped DEF IInv
<1> HIDE DEF found
<1>10. r \in RunRows
  BY <1>3, <1>7, <1>9 DEF RunRows, Places
<1>11. r.pc = "walked" /\ r.account = q.account /\ r.row = q.row /\ r.answer = q.answer
       /\ r.found = found
  BY <1>3 DEF RunRows
<1> HIDE DEF r
<1>12. Learns("recover", g, r)
  BY <1>1, <1>4, <1>8, <1>10, <1>11 DEF Learns
<1> QED BY <1>1, <1>2, <1>12, LearnStep

-----------------------------------------------------------------------------
(* Messages arrive and get rows.                                           *)

\* The messages that have arrived, as ReadGrows and TrustedGrows need them.
LEMMA GrownFacts ==
  ASSUME Rows, Rows', Grown
  PROVE  /\ Len(arrivals) = Now /\ Len(arrivals') = Now' /\ Now \in Nat /\ Now' \in Nat
         /\ Now <= Now'
         /\ \A m \in 1..Len(arrivals) : arrivals'[m] = arrivals[m]
         /\ \A m \in 1..Len(arrivals) : recorded[m] # 0 => recorded'[m] # 0
<1>1. Now \in Nat /\ Now' \in Nat /\ Now <= MaxMessages
  BY ConstantTypes DEF Rows
<1>2. \A m \in 1..Now : m \in Messages
  BY <1>1, ConstantTypes DEF Messages
<1> QED BY <1>1, <1>2 DEF Grown, Now

\* Neither loosens what the row of the mailbox says.
LEMMA MailboxGrows ==
  ASSUME Rows, Rows', Grown, MailboxSound,
         mailbox' = mailbox, recovery' = recovery, addresses' = addresses
  PROVE  MailboxSound'
<1> USE ConstantTypes
<1> DEFINE b == mailbox.baselineFrom
           w == mailbox.watermark
           a == Account
<1>1. /\ Len(arrivals) = Now /\ Len(arrivals') = Now' /\ Now \in Nat /\ Now' \in Nat
      /\ Now <= Now'
      /\ \A m \in 1..Len(arrivals) : arrivals'[m] = arrivals[m]
      /\ \A m \in 1..Len(arrivals) : recorded[m] # 0 => recorded'[m] # 0
  BY GrownFacts
<1>2. Account' = Account
  BY DEF Account
<1>3. b \in Nat /\ w \in {None} \cup Nat
  BY DEF Rows, MailboxRows, Instants
<1>4. b <= Less(Now', BaselineSpan)
  <2>1. b <= Less(Now, BaselineSpan)
    BY DEF MailboxSound
  <2>2. Less(Now, BaselineSpan) \in Nat /\ Less(Now', BaselineSpan) \in Nat
        /\ Less(Now, BaselineSpan) <= Less(Now', BaselineSpan)
    BY <1>1, LessFacts
  <2> QED BY <1>3, <2>1, <2>2
<1>5. ASSUME mailbox.generation > 0
      PROVE  /\ mailbox.historyId \in Instants
             /\ mailbox.historyId <= Now'
             /\ TrustedIn(arrivals', recorded', a, b, w)
  <2>1. mailbox.historyId \in Instants /\ mailbox.historyId <= Now
        /\ TrustedIn(arrivals, recorded, a, b, w)
    BY <1>5 DEF MailboxSound, Trusted
  <2>2. mailbox.historyId \in Nat
    BY <2>1 DEF Instants
  <2> HIDE DEF a, b, w
  <2>3. TrustedIn(arrivals', recorded', a, b, w)
    BY <1>1, <1>3, <2>1, TrustedGrows
  <2> QED BY <1>1, <2>1, <2>2, <2>3
<1>6. mailbox.generation > 0 => Trusted(mailbox.watermark)'
  BY <1>2, <1>5 DEF Trusted
<1> QED BY <1>4, <1>5, <1>6 DEF MailboxSound

\* Nor what its recovery says.
LEMMA RecoveryGrows ==
  ASSUME Rows, Rows', Grown, MailboxSound, RecoverySound,
         mailbox'.generation = mailbox.generation, mailbox'.historyId = mailbox.historyId,
         mailbox'.baselineFrom = mailbox.baselineFrom,
         recovery' = recovery, addresses' = addresses
  PROVE  RecoverySound'
<1> USE ConstantTypes
<1> SUFFICES ASSUME mailbox.generation > 0
             PROVE  RecoverySound'
  BY DEF RecoverySound
<1> DEFINE b == mailbox.baselineFrom
           h == mailbox.historyId
           v == recovery[mailbox.generation]
           a == Account
<1>1. /\ Len(arrivals) = Now /\ Len(arrivals') = Now' /\ Now \in Nat /\ Now' \in Nat
      /\ Now <= Now'
      /\ \A m \in 1..Len(arrivals) : arrivals'[m] = arrivals[m]
      /\ \A m \in 1..Len(arrivals) : recorded[m] # 0 => recorded'[m] # 0
  BY GrownFacts
<1>2. Account' = Account
  BY DEF Account
<1>3. mailbox.generation \in Generations
  BY GenerationTyped
<1>4. b \in Nat /\ h \in Nat /\ h <= Now /\ v.from \in Nat /\ v.to \in Nat
  BY <1>3 DEF Rows, MailboxRows, RecoveryRows, Instants, MailboxSound
<1>5. /\ v.from <= v.to
      /\ v.to <= Now
      /\ v.state = "open" => h <= v.to /\ ReadIn(arrivals, recorded, a, b, v.from)
      /\ v.state = "completed" => ReadIn(arrivals, recorded, a, b, h + 1)
  BY DEF RecoverySound, Read
<1> HIDE DEF a, b, h, v
<1>6. v.state = "open" => ReadIn(arrivals', recorded', a, b, v.from)
  <2>1. v.from <= Len(arrivals) + 1
    BY <1>1, <1>4, <1>5
  <2> QED BY <1>1, <1>4, <1>5, <2>1, ReadGrows
<1>7. v.state = "completed" => ReadIn(arrivals', recorded', a, b, h + 1)
  <2> DEFINE e == h + 1
  <2>1. e \in Nat /\ e <= Len(arrivals) + 1
    BY <1>1, <1>4
  <2>2. v.state = "completed" => ReadIn(arrivals, recorded, a, b, e)
    BY <1>5
  <2> HIDE DEF e
  <2>3. v.state = "completed" => ReadIn(arrivals', recorded', a, b, e)
    BY <1>1, <1>4, <2>1, <2>2, ReadGrows
  <2> QED BY <2>3 DEF e
<1>8. /\ v.from <= v.to
      /\ v.to <= Now'
      /\ v.state = "open" => h <= v.to /\ ReadIn(arrivals', recorded', a, b, v.from)
      /\ v.state = "completed" => ReadIn(arrivals', recorded', a, b, h + 1)
  BY <1>1, <1>4, <1>5, <1>6, <1>7
<1> QED BY <1>2, <1>8 DEF RecoverySound, Read, a, b, h, v

\* A message arrives.
LEMMA ArriveStep ==
  ASSUME IInv, NEW a \in Accounts, Arrive(a)
  PROVE  IInv'
<1> USE ConstantTypes
<1>1. /\ TypeOK /\ Typed /\ MailboxSound /\ RecoverySound /\ GrantSound /\ Spent /\ Runs
      /\ HoldsMatchMailbox
  BY DEF IInv
<1>2. Rows
  BY <1>1, RowsTyped
<1>3. UNCHANGED <<floor, addresses, mailbox, holds, recovery, recorded, job, run, grant, used>>
  BY DEF Arrive
<1>4. /\ Now' = Now + 1 /\ Now \in Nat /\ Now' <= MaxMessages
      /\ arrivals' \in Seq(Accounts)
      /\ \A m \in 1..Now : arrivals'[m] = arrivals[m]
  BY <1>1 DEF Arrive, TypeOK, Now
<1>5. Rows'
  BY <1>2, <1>3, <1>4 DEF Rows
<1>6. Grown
  BY <1>3, <1>4 DEF Grown
<1>7. Account' = Account
  BY <1>3 DEF Account
<1>8. Onward
  <2>1. mailbox.generation \in Nat /\ floor \in Nat
    BY <1>2, GenerationTyped DEF Rows
  <2>2. mailbox.generation > 0 => mailbox.historyId <= mailbox.historyId
    BY <1>2 DEF Rows, Instants
  <2> QED BY <1>3, <1>6, <1>7, <2>1, <2>2 DEF Onward, SameGeneration
<1>9. Runs'
  <2>1. ASSUME NEW k \in Kinds, NEW g \in Generations
        PROVE  Carries(k, g)
    <3>1. ASSUME run[k][g].answer # None PROVE Now' <= run[k][g].answer + Overlap
      <4>1. Now < run[k][g].answer + Overlap
        BY <3>1 DEF Arrive
      <4>2. run[k][g].answer \in Nat
        BY <1>2, <3>1 DEF Rows, RunRows, Instants
      <4> QED BY <1>4, <4>1, <4>2
    <3> QED BY <1>3, <3>1 DEF Carries
  <2> QED BY <1>1, <1>2, <1>5, <1>8, <2>1, RunsCarry
<1>10. MailboxSound' /\ RecoverySound'
  BY <1>1, <1>2, <1>3, <1>5, <1>6, MailboxGrows, RecoveryGrows
<1>11. GrantSound'
  <2>1. grant # None => grant.handoff \in Nat
    BY <1>1 DEF Typed, Grants, Instants
  <2> QED BY <1>1, <1>3, <1>4, <2>1 DEF GrantSound
<1>12. Spent'
  BY <1>1, <1>3 DEF Spent, Owing, Behind, Pending
<1>13. TypeOK' /\ Typed' /\ HoldsMatchMailbox'
  <2>1. floor \in 0..Now'
    BY <1>2, <1>4 DEF Rows
  <2>2. TypeOK'
    BY <1>1, <1>3, <1>4, <2>1 DEF TypeOK, Idle
  <2> QED BY <1>1, <1>3, <2>2 DEF Typed, HoldsMatchMailbox
<1> QED BY <1>9, <1>10, <1>11, <1>12, <1>13 DEF IInv

-----------------------------------------------------------------------------
(* Gmail, the owner and the scheduler, apart from new generations.         *)

\* The runs of a mailbox of which nothing was written.
LEMMA RunsStay ==
  ASSUME Rows, Rows', RecoverySound, Runs, floor <= floor',
         UNCHANGED <<arrivals, addresses, mailbox, recovery, recorded, run>>,
         \A k \in Kinds, g \in Generations : run[k][g].answer # None => floor' = floor
  PROVE  Runs'
<1> USE ConstantTypes
<1>1. Now' = Now /\ Account' = Account /\ Now \in Nat
  BY DEF Now, Account, Rows
<1>2. mailbox.generation \in Nat
  BY GenerationTyped
<1>3. mailbox.generation > 0 => mailbox.historyId <= mailbox.historyId
  BY DEF Rows, Instants
<1>4. Onward
  BY <1>1, <1>2, <1>3 DEF Onward, Grown, SameGeneration
<1>5. ASSUME NEW k \in Kinds, NEW g \in Generations
      PROVE  Carries(k, g)
  <2>1. RunSound(k, g)
    BY DEF Runs
  <2> QED BY <1>1, <2>1 DEF RunSound, Carries
<1> QED BY <1>4, <1>5, RunsCarry

\* History expires.
LEMMA ForgetHistoryStep ==
  ASSUME IInv, ForgetHistory
  PROVE  IInv'
<1> USE ConstantTypes
<1>1. /\ TypeOK /\ Typed /\ MailboxSound /\ RecoverySound /\ GrantSound /\ Spent /\ Runs
      /\ HoldsMatchMailbox
  BY DEF IInv
<1>2. Rows
  BY <1>1, RowsTyped
<1>3. UNCHANGED <<arrivals, addresses, mailbox, holds, recovery, recorded, job, run, grant>>
      /\ floor' = Now /\ floor < Now /\ grant = None
      /\ used.expiries < MaxExpiries /\ used' = [used EXCEPT !.expiries = @ + 1]
      /\ \A k \in Kinds, g \in Generations : run[k][g].answer = None
  BY DEF ForgetHistory
<1>4. Now' = Now /\ Now \in Nat /\ floor \in Nat /\ Account' = Account
  BY <1>2, <1>3 DEF Now, Rows, Account
<1>5. Rows'
  BY <1>2, <1>3, <1>4 DEF Rows
<1>6. floor <= floor'
  BY <1>3, <1>4
<1>7. Runs'
  BY <1>1, <1>2, <1>3, <1>5, <1>6, RunsStay
<1>8. /\ used'.grants = used.grants /\ used'.expiries = used.expiries + 1
      /\ used' \in [grants : 0..MaxGrants, expiries : 0..MaxExpiries, faults : 0..MaxFaults]
      /\ used.grants \in Nat /\ used.expiries \in Nat
  BY <1>1, <1>3 DEF Typed
<1>9. Spent'
  <2>1. Pending = 0 /\ Pending' = 0
    BY <1>3 DEF Pending
  <2>2. mailbox.generation \in Nat
    BY <1>2, GenerationTyped
  <2>3. mailbox.generation <= used.grants + used.expiries
    BY <1>1, <1>8, <2>1, <2>2 DEF Spent
  <2>4. mailbox.generation + 1 <= used'.grants + used'.expiries
    BY <1>8, <2>2, <2>3
  <2> QED BY <1>3, <1>8, <2>1, <2>2, <2>4 DEF Spent
<1>10. MailboxSound' /\ RecoverySound' /\ GrantSound' /\ HoldsMatchMailbox'
  <2>1. MailboxSound'
    BY <1>1, <1>3, <1>4 DEF MailboxSound, Trusted, TrustedIn, ReadIn
  <2>2. RecoverySound'
    BY <1>1, <1>3, <1>4 DEF RecoverySound, Read, ReadIn
  <2> QED BY <1>1, <1>3, <2>1, <2>2 DEF GrantSound, HoldsMatchMailbox
<1>11. TypeOK' /\ Typed'
  <2>1. floor' \in 0..Now'
    BY <1>3, <1>4
  <2> QED BY <1>1, <1>3, <1>4, <1>8, <2>1 DEF TypeOK, Typed, Idle
<1> QED BY <1>7, <1>9, <1>10, <1>11 DEF IInv

\* The runs and the books when only the grant or the jobs change.
LEMMA NothingRead ==
  ASSUME IInv, UNCHANGED <<arrivals, floor, addresses, mailbox, holds, recovery, recorded, run>>
  PROVE  Runs' /\ MailboxSound' /\ RecoverySound' /\ HoldsMatchMailbox' /\ Now' = Now
         /\ (Owing' => Owing)
<1>1. TypeOK /\ Typed /\ MailboxSound /\ RecoverySound /\ Runs /\ HoldsMatchMailbox
  BY DEF IInv
<1>2. Rows
  BY <1>1, RowsTyped
<1>3. Now' = Now /\ Account' = Account
  BY DEF Now, Account
<1>4. Rows'
  BY <1>2, <1>3 DEF Rows
<1>5. floor <= floor'
  BY <1>2, ConstantTypes DEF Rows
<1>6. Runs'
  BY <1>1, <1>2, <1>4, <1>5, RunsStay
<1>7. MailboxSound'
  BY <1>1, <1>3 DEF MailboxSound, Trusted, TrustedIn, ReadIn
<1>8. RecoverySound'
  BY <1>1, <1>3 DEF RecoverySound, Read, ReadIn
<1>9. Owing' => Owing
  BY DEF Owing, Behind
<1> QED BY <1>1, <1>3, <1>6, <1>7, <1>8, <1>9 DEF HoldsMatchMailbox

\* A grant is asked for, or refused.
LEMMA AskGrantStep ==
  ASSUME IInv, NEW a \in Accounts, AskGrant(a)
  PROVE  IInv'
<1> USE ConstantTypes
<1>1. TypeOK /\ Typed /\ MailboxSound /\ Spent /\ Rows
  BY RowsTyped DEF IInv
<1>2. UNCHANGED <<arrivals, floor, addresses, mailbox, holds, recovery, recorded, job, run>>
      /\ grant = None /\ grant' = [account |-> a, handoff |-> Now]
      /\ used.grants < MaxGrants /\ used' = [used EXCEPT !.grants = @ + 1]
  BY DEF AskGrant
<1>3. Runs' /\ MailboxSound' /\ RecoverySound' /\ HoldsMatchMailbox' /\ Now' = Now
      /\ (Owing' => Owing)
  BY <1>2, NothingRead
<1>4. /\ used'.expiries = used.expiries /\ used'.grants = used.grants + 1
      /\ used' \in [grants : 0..MaxGrants, expiries : 0..MaxExpiries, faults : 0..MaxFaults]
      /\ used.grants \in Nat /\ used.expiries \in Nat
  BY <1>1, <1>2 DEF Typed
<1>5. Spent'
  <2>1. Pending = 0 /\ Pending' \in {0, 1} /\ mailbox.generation \in Nat
    BY <1>1, <1>2, GenerationTyped DEF Pending
  <2>2. /\ mailbox.generation + Pending' <= used'.grants + used'.expiries
        /\ Owing => mailbox.generation + Pending' + 1 <= used'.grants + used'.expiries
    BY <1>1, <1>4, <2>1 DEF Spent
  <2> QED BY <1>2, <1>3, <2>2 DEF Spent
<1>6. Now \in Instants
  BY <1>1 DEF Rows, Instants
<1>7. grant' \in Grants
  BY <1>2, <1>6 DEF Grants
<1>8. GrantSound'
  BY <1>1, <1>2, <1>3 DEF GrantSound, MailboxSound, Rows
<1>9. TypeOK' /\ Typed'
  BY <1>1, <1>2, <1>3, <1>4, <1>7 DEF TypeOK, Typed, Idle
<1> QED BY <1>3, <1>5, <1>8, <1>9 DEF IInv

LEMMA GrantRefusedStep ==
  ASSUME IInv, GrantRefused
  PROVE  IInv'
<1> USE ConstantTypes
<1>1. TypeOK /\ Typed /\ Spent /\ Rows
  BY RowsTyped DEF IInv
<1>2. UNCHANGED <<arrivals, floor, addresses, mailbox, holds, recovery, recorded, job, run, used>>
      /\ grant' = None
  BY DEF GrantRefused
<1>3. Runs' /\ MailboxSound' /\ RecoverySound' /\ HoldsMatchMailbox' /\ Now' = Now
      /\ (Owing' => Owing)
  BY <1>2, NothingRead
<1>4. Spent'
  <2>1. Pending' = 0 /\ Pending \in {0, 1} /\ mailbox.generation \in Nat
        /\ used.grants \in Nat /\ used.expiries \in Nat
    BY <1>1, <1>2, GenerationTyped DEF Pending, Typed
  <2>2. /\ mailbox.generation + Pending' <= used.grants + used.expiries
        /\ Owing => mailbox.generation + Pending' + 1 <= used.grants + used.expiries
    BY <1>1, <2>1 DEF Spent
  <2> QED BY <1>2, <1>3, <2>2 DEF Spent
<1>5. TypeOK' /\ Typed' /\ GrantSound'
  BY <1>1, <1>2, <1>3 DEF TypeOK, Typed, Idle, GrantSound
<1> QED BY <1>3, <1>4, <1>5 DEF IInv

-----------------------------------------------------------------------------
(* What queues the jobs.                                                   *)

\* Nothing but rows of the generation that were missing or finished is queued.
Requeued(jobs, queued, g) ==
  /\ queued \in [Kinds -> [Generations -> JobStates]]
  /\ \A l \in Kinds, i \in Generations :
       \/ queued[l][i] = jobs[l][i]
       \/ i = g /\ jobs[l][i] \in {"absent", "done"} /\ queued[l][i] = "queued"

LEMMA CoalescedRequeues ==
  ASSUME NEW jobs \in [Kinds -> [Generations -> JobStates]], NEW g \in Generations
  PROVE  Requeued(jobs, Coalesced(jobs, g), g)
<1> DEFINE s == IF jobs["sync"][g] \in {"absent", "done"} THEN "queued" ELSE jobs["sync"][g]
<1>1. "sync" \in Kinds
  BY DEF Kinds
<1>2. s \in JobStates /\ (s = jobs["sync"][g]
                          \/ (jobs["sync"][g] \in {"absent", "done"} /\ s = "queued"))
  BY <1>1 DEF JobStates
<1>3. Coalesced(jobs, g) = [jobs EXCEPT !["sync"][g] = s]
  BY DEF Coalesced
<1> HIDE DEF s
<1> QED BY <1>1, <1>2, <1>3 DEF Requeued

LEMMA RearmedRequeues ==
  ASSUME NEW jobs \in [Kinds -> [Generations -> JobStates]], NEW g \in Generations
  PROVE  Requeued(jobs, Rearmed(jobs, g), g)
<1> DEFINE s == IF jobs["recover"][g] \in {"absent", "done"} THEN "queued"
                ELSE jobs["recover"][g]
<1>1. "recover" \in Kinds
  BY DEF Kinds
<1>2. s \in JobStates /\ (s = jobs["recover"][g]
                          \/ (jobs["recover"][g] \in {"absent", "done"} /\ s = "queued"))
  BY <1>1 DEF JobStates
<1>3. Rearmed(jobs, g) = [jobs EXCEPT !["recover"][g] = s]
  BY DEF Rearmed
<1> HIDE DEF s
<1> QED BY <1>1, <1>2, <1>3 DEF Requeued

LEMMA RequeuedTwice ==
  ASSUME NEW jobs, NEW queued, NEW again, NEW g \in Generations,
         Requeued(jobs, queued, g), Requeued(queued, again, g)
  PROVE  Requeued(jobs, again, g)
BY DEF Requeued

LEMMA QueueStep ==
  ASSUME IInv, NEW g \in Generations, g <= mailbox.generation, Requeued(job, job', g),
         UNCHANGED <<arrivals, floor, addresses, mailbox, holds, recovery, recorded, run,
                     grant, used>>
  PROVE  IInv'
<1>1. TypeOK /\ Typed /\ GrantSound /\ Spent
  BY DEF IInv
<1>2. Runs' /\ MailboxSound' /\ RecoverySound' /\ HoldsMatchMailbox' /\ Now' = Now
      /\ (Owing' => Owing)
  BY NothingRead
<1>3. \A l \in Kinds, i \in Generations :
        /\ job'[l][i] \in JobStates
        /\ (job'[l][i] = "running") <=> (run[l][i] # Idle)
        /\ job'[l][i] # "absent" => i <= mailbox.generation
  BY <1>1 DEF TypeOK, Requeued, JobStates
<1>4. TypeOK'
  BY <1>1, <1>2, <1>3 DEF TypeOK, Idle
<1>5. Typed'
  BY <1>1 DEF Typed, Requeued
<1>6. GrantSound' /\ Spent'
  BY <1>1, <1>2 DEF GrantSound, Spent, Pending
<1> QED BY <1>2, <1>4, <1>5, <1>6 DEF IInv

\* A scheduler pass, and a push notification.
LEMMA SourcesStep ==
  ASSUME IInv, SchedulerPass \/ Push
  PROVE  IInv'
<1> DEFINE g == mailbox.generation
<1>1. UNCHANGED <<arrivals, floor, addresses, mailbox, holds, recovery, recorded, run,
                  grant, used>> /\ mailbox.status = "connected"
  BY DEF SchedulerPass, Push
<1>2. g > 0 /\ g \in Generations /\ g \in Nat
  <2>1. g \in Nat /\ g \in {0} \cup Generations
    BY RowsTyped, GenerationTyped DEF IInv
  <2>2. g # 0
    BY <1>1 DEF IInv, MailboxSound
  <2> QED BY <2>1, <2>2
<1> HIDE DEF g
<1>3. job \in [Kinds -> [Generations -> JobStates]]
  BY DEF IInv, Typed
<1>4. Requeued(job, job, g)
  BY <1>3 DEF Requeued
<1>5. Requeued(job, Coalesced(job, g), g)
  BY <1>2, <1>3, CoalescedRequeues
<1>6. Requeued(job, job', g)
  <2>1. CASE Push
    BY <1>5, <2>1 DEF Push, g
  <2>2. CASE SchedulerPass
    <3> DEFINE synced == IF mailbox.syncState = "ready" THEN Coalesced(job, g) ELSE job
    <3>1. Requeued(job, synced, g)
      BY <1>4, <1>5
    <3>2. job' = IF recovery[g].state = "open" THEN Rearmed(synced, g) ELSE synced
      BY <2>2 DEF SchedulerPass, g
    <3> HIDE DEF synced
    <3>3. synced \in [Kinds -> [Generations -> JobStates]]
      BY <3>1 DEF Requeued
    <3>4. Requeued(synced, Rearmed(synced, g), g)
      BY <1>2, <3>3, RearmedRequeues
    <3>5. Requeued(job, Rearmed(synced, g), g)
      BY <1>2, <3>1, <3>4, RequeuedTwice
    <3> QED BY <3>1, <3>2, <3>5
  <2> QED BY <2>1, <2>2
<1>7. g <= mailbox.generation
  BY <1>2 DEF g
<1> QED BY <1>1, <1>2, <1>6, <1>7, QueueStep

-----------------------------------------------------------------------------
(* Writes within a generation.                                             *)

\* A transaction that commits at the generation it read, and a disconnection: the row
\* keeps its generation and its baseline, its cursor goes forward, and no run that goes
\* on works on the recovery it completes.
Within ==
  /\ UNCHANGED <<arrivals, floor, addresses, grant>>
  /\ mailbox' \in MailboxRows
  /\ mailbox'.generation = mailbox.generation
  /\ mailbox'.baselineFrom = mailbox.baselineFrom
  /\ mailbox.generation > 0 =>
       /\ mailbox'.historyId \in Instants
       /\ mailbox.historyId <= mailbox'.historyId
       /\ mailbox'.status = "connected" => mailbox.status = "connected"
       /\ recovery[mailbox.generation].state = "completed" =>
            recovery'[mailbox.generation].state = "completed"
  /\ recovery' \in [Generations -> RecoveryRows]
  /\ \A i \in Generations : recovery'[i].state = "absent" <=> recovery[i].state = "absent"
  /\ recorded' \in [Messages -> {0} \cup Generations]
  /\ \A m \in Messages : recorded[m] # 0 => recorded'[m] # 0

LEMMA WithinStep ==
  ASSUME IInv, Within, Typed', JobsSound',
         used'.grants = used.grants, used'.expiries = used.expiries,
         \A k \in Kinds, g \in Generations :
           \/ run'[k][g] = Idle
           \/ /\ run'[k][g] = run[k][g]
              /\ k = "recover" /\ run[k][g].pc # "idle" => recovery'[g] = recovery[g],
         MailboxSound', RecoverySound',
         holds' \subseteq {"coverage_incomplete", "mailbox_disconnected"},
         HoldsMatchMailbox'
  PROVE  IInv'
<1> USE ConstantTypes
<1>1. TypeOK /\ Typed /\ RecoverySound /\ GrantSound /\ Spent /\ Runs /\ Rows
  BY RowsTyped DEF IInv
<1>2. Now' = Now /\ Account' = Account /\ Now \in Nat /\ floor \in Nat
  BY <1>1 DEF Now, Account, Within, Rows
<1>3. Rows'
  BY <1>1, <1>2 DEF Rows, Within, Typed
<1>4. mailbox.generation \in Nat
  BY <1>1, GenerationTyped
<1>5. Onward
  BY <1>2, <1>4 DEF Onward, Grown, SameGeneration, Within
<1>6. Runs'
  <2>1. ASSUME NEW k \in Kinds, NEW g \in Generations, run'[k][g] # Idle
        PROVE  Carries(k, g)
    <3>1. RunSound(k, g)
      BY <1>1 DEF Runs
    <3>2. run'[k][g] = run[k][g]
          /\ (k = "recover" /\ run[k][g].pc # "idle" => recovery'[g] = recovery[g])
      BY <2>1
    <3>3. run[k][g].answer # None => Now' <= run[k][g].answer + Overlap
      BY <1>2, <3>1 DEF RunSound
    <3> QED BY <3>2, <3>3 DEF Carries, Within
  <2> QED BY <1>1, <1>3, <1>5, <2>1, RunsCarry
<1>7. GrantSound'
  BY <1>1, <1>2 DEF GrantSound, Within
<1>8. Spent'
  <2>1. ASSUME Owing' PROVE Owing
    <3>1. mailbox.generation > 0
      BY <2>1 DEF Owing, Within
    <3>2. CASE mailbox'.historyId < floor'
      <4>1. mailbox.historyId \in Nat /\ mailbox'.historyId \in Nat
            /\ mailbox.historyId <= mailbox'.historyId
        BY <1>1, <3>1 DEF Rows, Within, Instants
      <4>2. mailbox.historyId < floor
        BY <1>2, <3>2, <4>1 DEF Within
      <4> QED BY <3>1, <4>2 DEF Owing
    <3>3. CASE \E k \in Kinds, g \in Generations : Behind(k, g)'
      <4>1. PICK k \in Kinds, g \in Generations : Behind(k, g)'
        BY <3>3
      <4>2. run'[k][g].pc # "idle" /\ run'[k][g].row.generation = mailbox.generation
            /\ run'[k][g].row.historyId < floor
        BY <4>1 DEF Behind, Within
      <4>3. run'[k][g] = run[k][g]
        BY <4>2, IdleTyped
      <4> QED BY <3>1, <4>2, <4>3 DEF Owing, Behind
    <3> QED BY <2>1, <3>2, <3>3 DEF Owing
  <2>2. Pending' = Pending
    BY DEF Pending, Within
  <2> QED BY <1>1, <2>1, <2>2 DEF Spent, Within
<1>9. TypeOK'
  <2>1. \A l \in Kinds, i \in Generations :
          /\ job'[l][i] \in JobStates
          /\ (job'[l][i] = "running") <=> (run'[l][i] # Idle)
          /\ job'[l][i] # "absent" => i <= mailbox'.generation
    BY DEF JobsSound, Idle
  <2>2. \A i \in Generations : (recovery'[i].state # "absent") <=> (i <= mailbox'.generation)
    BY <1>1 DEF TypeOK, Within
  <2> QED BY <1>1, <1>2, <2>1, <2>2 DEF TypeOK, Within, Idle
<1> QED BY <1>6, <1>7, <1>8, <1>9 DEF IInv

\* A run that commits and ends.
LEMMA CommitStep ==
  ASSUME IInv, Within, NEW k \in Kinds, NEW g \in Generations, run[k][g].pc # "idle",
         Ends(k, g, "done"), UNCHANGED used \/ Fault,
         \/ recovery' = recovery
         \/ /\ k = "recover"
            /\ \A i \in Generations : i # g => recovery'[i] = recovery[i],
         MailboxSound', RecoverySound',
         holds' \subseteq {"coverage_incomplete", "mailbox_disconnected"},
         HoldsMatchMailbox'
  PROVE  IInv'
<1> USE ConstantTypes
<1>1. Typed /\ TypeOK /\ Rows
  BY RowsTyped DEF IInv
<1>2. job' = [job EXCEPT ![k][g] = "done"] /\ Goes(k, g, Idle) /\ "done" \in JobStates
  BY DEF Ends, JobStates
<1>3. /\ run' \in [Kinds -> [Generations -> RunRows]]
      /\ run'[k][g] = Idle
      /\ \A l \in Kinds, i \in Generations : l # k \/ i # g => run'[l][i] = run[l][i]
  BY <1>1, <1>2, IdleTyped, RunPut DEF Typed
<1>4. job' \in [Kinds -> [Generations -> JobStates]]
  BY <1>1, <1>2, JobPut DEF Typed
<1>5. JobsSound'
  <2>1. JobsSound
    BY <1>1 DEF TypeOK, JobsSound
  <2>2. mailbox.generation \in Nat /\ mailbox'.generation = mailbox.generation
    BY <1>1, GenerationTyped DEF Within
  <2>3. g <= mailbox'.generation /\ mailbox.generation <= mailbox'.generation
        /\ mailbox'.generation \in Nat
    BY <2>2, UnderWay
  <2>4. ("done" = "running") <=> (Idle # Idle)
    OBVIOUS
  <2> QED BY <1>1, <1>2, <2>1, <2>2, <2>3, <2>4, IdleTyped, JobsFollow
<1>6. /\ used'.grants = used.grants /\ used'.expiries = used.expiries
      /\ used' \in [grants : 0..MaxGrants, expiries : 0..MaxExpiries, faults : 0..MaxFaults]
  <2>1. CASE UNCHANGED used
    BY <1>1, <2>1 DEF Typed
  <2>2. CASE Fault
    BY <1>1, <2>2 DEF Typed, Fault
  <2> QED BY <2>1, <2>2
<1>7. Typed'
  BY <1>1, <1>3, <1>4, <1>6 DEF Typed, Within
<1>8. ASSUME NEW l \in Kinds, NEW i \in Generations
      PROVE  \/ run'[l][i] = Idle
             \/ /\ run'[l][i] = run[l][i]
                /\ l = "recover" /\ run[l][i].pc # "idle" => recovery'[i] = recovery[i]
  BY <1>3
<1> QED BY <1>5, <1>6, <1>7, <1>8, WithinStep

\* A mailbox that is no longer connected.
LEMMA Severed ==
  ASSUME IInv, NEW s \in {"disconnected", "revoked"}, mailbox.generation > 0,
         UNCHANGED <<arrivals, floor, addresses, recovery, recorded, grant>>,
         mailbox' = Disconnected(s), holds' = holds \cup {"mailbox_disconnected"}
  PROVE  /\ Within /\ MailboxSound' /\ RecoverySound' /\ HoldsMatchMailbox'
         /\ holds' \subseteq {"coverage_incomplete", "mailbox_disconnected"}
<1> USE ConstantTypes
<1>1. MailboxSound /\ RecoverySound /\ TypeOK /\ Rows
  BY RowsTyped DEF IInv
<1>2. /\ mailbox' \in MailboxRows
      /\ mailbox'.generation = mailbox.generation /\ mailbox'.historyId = mailbox.historyId
      /\ mailbox'.watermark = mailbox.watermark
      /\ mailbox'.baselineFrom = mailbox.baselineFrom
      /\ mailbox'.status # "connected" /\ mailbox'.status # "absent"
      /\ mailbox'.syncState = "ready" => mailbox.syncState = "ready"
  <2>1. mailbox \in MailboxRows /\ mailbox.status # "absent"
    BY <1>1 DEF Rows, MailboxSound
  <2>2. CASE mailbox.status = "connected"
    <3>1. mailbox' = [mailbox EXCEPT !.status = s, !.syncState = "baseline_pending"]
      BY <2>2 DEF Disconnected
    <3> QED BY <2>1, <3>1 DEF MailboxRows
  <2>3. CASE mailbox.status # "connected"
    <3>1. mailbox' = mailbox
      BY <2>3 DEF Disconnected
    <3> QED BY <2>1, <2>3, <3>1
  <2> QED BY <2>2, <2>3
<1>3. mailbox.historyId \in Instants /\ mailbox.historyId <= mailbox.historyId
  BY <1>1 DEF Rows, Instants
<1>4. Within
  BY <1>1, <1>2, <1>3 DEF Within, Rows
<1>5. Now' = Now /\ Account' = Account
  BY <1>2 DEF Now, Account
<1>6. MailboxSound'
  BY <1>1, <1>2, <1>5 DEF MailboxSound, Trusted, TrustedIn, ReadIn
<1>7. RecoverySound'
  BY <1>1, <1>2, <1>5 DEF RecoverySound, Read, ReadIn
<1>8. HoldsMatchMailbox' /\ holds' \subseteq {"coverage_incomplete", "mailbox_disconnected"}
  BY <1>1, <1>2 DEF HoldsMatchMailbox, TypeOK
<1> QED BY <1>4, <1>6, <1>7, <1>8

LEMMA DisconnectStep ==
  ASSUME IInv, Disconnect
  PROVE  IInv'
<1>1. Typed /\ TypeOK /\ MailboxSound /\ Rows
  BY RowsTyped DEF IInv
<1>2. UNCHANGED <<arrivals, floor, addresses, recovery, recorded, job, run, grant, used>>
      /\ mailbox.status = "connected" /\ mailbox' = Disconnected("disconnected")
      /\ holds' = holds \cup {"mailbox_disconnected"}
  BY DEF Disconnect
<1>3. mailbox.generation > 0
  <2>1. mailbox.generation \in Nat /\ mailbox.generation # 0
    BY <1>1, <1>2, GenerationTyped DEF MailboxSound
  <2> QED BY <2>1
<1>4. /\ Within /\ MailboxSound' /\ RecoverySound' /\ HoldsMatchMailbox'
      /\ holds' \subseteq {"coverage_incomplete", "mailbox_disconnected"}
  BY <1>2, <1>3, Severed
<1>5. Typed'
  BY <1>1, <1>2 DEF Typed
<1>6. JobsSound'
  <2>1. mailbox'.generation = mailbox.generation
    BY <1>4 DEF Within
  <2>2. JobsSound
    BY <1>1 DEF JobsSound, TypeOK
  <2> QED BY <1>2, <2>1, <2>2 DEF JobsSound, Idle
<1> QED BY <1>2, <1>4, <1>5, <1>6, WithinStep

\* holdForRevokedGrant.
LEMMA HoldForRevokedGrantStep ==
  ASSUME IInv, NEW k \in Kinds, NEW g \in Generations, HoldForRevokedGrant(k, g)
  PROVE  IInv'
<1>1. UNCHANGED <<arrivals, floor, addresses, recovery, recorded, grant, used>>
      /\ run[k][g].pc = "refused" /\ mailbox' = Disconnected("revoked")
      /\ holds' = holds \cup {"mailbox_disconnected"} /\ Ends(k, g, "done")
  BY DEF HoldForRevokedGrant
<1>2. mailbox.generation > 0 /\ run[k][g].pc # "idle"
  BY <1>1, UnderWay
<1>3. /\ Within /\ MailboxSound' /\ RecoverySound' /\ HoldsMatchMailbox'
      /\ holds' \subseteq {"coverage_incomplete", "mailbox_disconnected"}
  BY <1>1, <1>2, Severed
<1> QED BY <1>1, <1>2, <1>3, CommitStep

-----------------------------------------------------------------------------
(* The transactions that record messages.                                  *)

\* recordMessage: rows are added under the current generation.
LEMMA RecordedFacts ==
  ASSUME Rows, mailbox.generation > 0, NEW S, recorded' = Recorded(S)
  PROVE  /\ recorded' \in [Messages -> {0} \cup Generations]
         /\ \A m \in Messages : recorded[m] # 0 => recorded'[m] # 0
         /\ \A m \in Messages : m \in S => recorded'[m] # 0
<1>1. mailbox.generation \in Generations /\ mailbox.generation # 0
  BY GenerationTyped
<1>2. recorded \in [Messages -> {0} \cup Generations]
  BY DEF Rows
<1> QED BY <1>1, <1>2 DEF Recorded

\* Messages are recorded and nothing else is written.
LEMMA RecordingOnly ==
  ASSUME IInv, mailbox.generation > 0, NEW S, recorded' = Recorded(S), Typed',
         UNCHANGED <<arrivals, floor, addresses, mailbox, recovery, grant>>
  PROVE  Within /\ MailboxSound' /\ RecoverySound'
<1> USE ConstantTypes
<1>1. MailboxSound /\ RecoverySound /\ Rows
  BY RowsTyped DEF IInv
<1>2. /\ recorded' \in [Messages -> {0} \cup Generations]
      /\ \A m \in Messages : recorded[m] # 0 => recorded'[m] # 0
  BY <1>1, RecordedFacts
<1>3. mailbox.historyId \in Instants /\ mailbox.historyId <= mailbox.historyId
  BY <1>1 DEF Rows, Instants
<1>4. Within
  BY <1>1, <1>2, <1>3 DEF Within, Rows
<1>5. Now' = Now /\ Now \in Nat
  BY <1>1 DEF Now, Rows
<1>6. Rows'
  BY <1>1, <1>2, <1>5 DEF Rows, Typed
<1>7. Grown
  BY <1>2, <1>5 DEF Grown
<1> QED BY <1>1, <1>4, <1>6, <1>7, MailboxGrows, RecoveryGrows

\* A run's end keeps the types of what is not a book.
LEMMA EndTyped ==
  ASSUME IInv, NEW k \in Kinds, NEW g \in Generations, Ends(k, g, "done"),
         UNCHANGED used \/ Fault, UNCHANGED grant
  PROVE  Typed'
<1>1. Typed
  BY DEF IInv
<1>2. job' = [job EXCEPT ![k][g] = "done"] /\ Goes(k, g, Idle) /\ "done" \in JobStates
  BY DEF Ends, JobStates
<1>3. run' \in [Kinds -> [Generations -> RunRows]]
  BY <1>1, <1>2, IdleTyped, RunPut DEF Typed
<1>4. job' \in [Kinds -> [Generations -> JobStates]]
  BY <1>1, <1>2, JobPut DEF Typed
<1>5. used' \in [grants : 0..MaxGrants, expiries : 0..MaxExpiries, faults : 0..MaxFaults]
  BY <1>1, ConstantTypes DEF Typed, Fault
<1> QED BY <1>1, <1>3, <1>4, <1>5 DEF Typed

\* A recovery that the budget or an unreadable message ends early.
LEMMA PartialRecovery ==
  ASSUME IInv, NEW g \in Generations, CommitProgress(g) \/ StopRecovery(g)
  PROVE  IInv'
<1>1. /\ UNCHANGED <<arrivals, floor, addresses, mailbox, recovery, grant, holds>>
      /\ run["recover"][g].pc = "walked" /\ Ends("recover", g, "done")
      /\ UNCHANGED used \/ Fault
  BY DEF CommitProgress, StopRecovery
<1>2. PICK n \in Int : recorded' = Recorded(FirstOf(run["recover"][g].found, n))
  <2> DEFINE found == run["recover"][g].found
  <2>1. CASE CommitProgress(g)
    <3>1. PICK n \in 1..(Cardinality(found) - 1) : recorded' = Recorded(FirstOf(found, n))
      BY <2>1 DEF CommitProgress
    <3> QED BY <3>1
  <2>2. CASE StopRecovery(g)
    <3>1. PICK n \in 0..(Cardinality(found) - 1) : recorded' = Recorded(FirstOf(found, n))
      BY <2>2 DEF StopRecovery
    <3> QED BY <3>1
  <2> QED BY <2>1, <2>2
<1>3. "recover" \in Kinds /\ run["recover"][g].pc # "idle"
  BY <1>1 DEF Kinds
<1>4. mailbox.generation > 0
  BY <1>3, UnderWay
<1>5. Typed'
  BY <1>1, <1>3, EndTyped
<1>6. Within /\ MailboxSound' /\ RecoverySound'
  BY <1>1, <1>2, <1>4, <1>5, RecordingOnly
<1>7. HoldsMatchMailbox' /\ holds' \subseteq {"coverage_incomplete", "mailbox_disconnected"}
  BY <1>1 DEF IInv, TypeOK, HoldsMatchMailbox
<1> QED BY <1>1, <1>3, <1>6, <1>7, CommitStep

\* What was read up to the cursor, the part of the listing the run takes, and nothing
\* in between: everything up to the new cursor.
LEMMA CursorAdvances ==
  ASSUME NEW rows, NEW newRows, NEW a, NEW b \in Nat, NEW h \in Nat, NEW answer \in Nat,
         Now \in Nat, answer <= Now, h <= answer,
         ReadIn(arrivals, rows, a, b, h + 1),
         \A m \in 1..Now : rows[m] # 0 => newRows[m] # 0,
         NEW found, \A m \in Inbox(a) : h < m /\ m <= answer => m \in found,
         NEW taken, \A m \in 1..Now : m \in taken => newRows[m] # 0,
         NEW cursor \in Nat, cursor <= answer,
         \A m \in found : m <= cursor => m \in taken
  PROVE  ReadIn(arrivals, newRows, a, b, cursor + 1)
<1> SUFFICES ASSUME NEW m \in 1..Len(arrivals), arrivals[m] = a, b <= m, m < cursor + 1
             PROVE  newRows[m] # 0
  BY DEF ReadIn
<1>1. m \in 1..Now
  BY DEF Now
<1>2. CASE m <= h
  <2>1. m < h + 1
    BY <1>1, <1>2
  <2>2. rows[m] # 0
    BY <2>1 DEF ReadIn
  <2> QED BY <1>1, <2>2
<1>3. CASE ~(m <= h)
  <2>1. h < m /\ m <= cursor /\ m <= answer
    BY <1>1, <1>3
  <2>2. m \in found
    BY <1>1, <2>1 DEF Inbox
  <2> QED BY <1>1, <2>1, <2>2
<1> QED BY <1>2, <1>3

\* A mailbox whose recovery is completed, and of which everything up to its cursor has
\* a row.
LEMMA Proved ==
  ASSUME IInv, mailbox.generation > 0,
         UNCHANGED <<arrivals, floor, addresses, grant>>,
         mailbox' \in MailboxRows, mailbox'.generation = mailbox.generation,
         mailbox'.baselineFrom = mailbox.baselineFrom, mailbox'.status = mailbox.status,
         mailbox'.historyId \in Instants, mailbox.historyId <= mailbox'.historyId,
         mailbox'.historyId <= Now,
         recovery' \in [Generations -> RecoveryRows],
         \A i \in Generations : recovery'[i].state = "absent" <=> recovery[i].state = "absent",
         recovery'[mailbox.generation].state = "completed",
         recovery'[mailbox.generation].from = recovery[mailbox.generation].from,
         recovery'[mailbox.generation].to = recovery[mailbox.generation].to,
         recorded' \in [Messages -> {0} \cup Generations],
         \A m \in Messages : recorded[m] # 0 => recorded'[m] # 0,
         ReadIn(arrivals, recorded', Account, mailbox.baselineFrom, mailbox'.historyId + 1),
         TrustedIn(arrivals, recorded', Account, mailbox.baselineFrom, mailbox'.watermark)
  PROVE  Within /\ MailboxSound' /\ RecoverySound'
<1>1. MailboxSound /\ RecoverySound
  BY DEF IInv
<1>2. Now' = Now /\ Account' = Account
  BY DEF Now, Account
<1>3. Within
  BY DEF Within
<1>4. MailboxSound'
  BY <1>1, <1>2 DEF MailboxSound, Trusted
<1>5. RecoverySound'
  BY <1>1, <1>2 DEF RecoverySound, Read
<1> QED BY <1>3, <1>4, <1>5

\* The end of mail.sync.
LEMMA CommitSyncStep ==
  ASSUME IInv, NEW g \in Generations, CommitSync(g)
  PROVE  IInv' /\ Within
<1> USE ConstantTypes
<1> DEFINE r == run["sync"][g]
           size == Cardinality(r.found)
           b == mailbox.baselineFrom
           h == mailbox.historyId
<1>1. /\ UNCHANGED <<arrivals, floor, addresses, recovery, grant, used>>
      /\ r.pc = "listed" /\ mailbox.generation = r.row.generation
      /\ Ends("sync", g, "done")
  BY DEF CommitSync, Fenced
<1>2. "sync" \in Kinds /\ r.pc # "idle"
  BY <1>1 DEF Kinds
<1>3. /\ mailbox.generation > 0 /\ r \in RunRows
      /\ RunSound("sync", g) /\ RunCurrent("sync", g)
  BY <1>2, UnderWay
<1>4. Rows /\ MailboxSound /\ RecoverySound /\ HoldsMatchMailbox /\ TypeOK
  BY RowsTyped DEF IInv
<1>5. /\ Now \in Nat /\ Now <= MaxMessages /\ Len(arrivals) = Now
      /\ b \in Nat /\ h \in Nat /\ mailbox.generation \in Generations
  BY <1>3, <1>4, GenerationTyped DEF Rows, MailboxRows, Instants, Now
<1>6. /\ r.answer \in Nat /\ r.answer <= Now /\ Now <= r.answer + Overlap
      /\ r.row.historyId \in Nat /\ r.row.historyId <= r.answer
      /\ r.found = {m \in Inbox(r.account) : r.row.historyId < m /\ m <= r.answer}
  BY <1>1, <1>2, <1>3 DEF RunSound, RunRows, Instants
<1>7. /\ r.row.historyId <= h
      /\ r.account = Account
      /\ recovery[mailbox.generation].state = "completed"
  <2>1. r.account # None /\ r.row.syncState = "ready"
    BY <1>1, <1>3 DEF RunSound
  <2> QED BY <1>1, <1>3, <2>1 DEF RunCurrent
<1>8. /\ r.found \in SUBSET Nat /\ r.found \subseteq 1..Now
      /\ IsFiniteSet(r.found) /\ size \in Nat
  <2>1. r.found \subseteq 1..Now
    BY <1>6 DEF Inbox
  <2>2. IsFiniteSet(1..Now)
    BY <1>5, FS_Interval
  <2>3. IsFiniteSet(r.found)
    BY <2>1, <2>2, FS_Subset
  <2> QED BY <1>5, <2>1, <2>3, FS_CardinalityType
<1>9. PICK n \in (IF size = 0 THEN {0} ELSE 1..size) :
        LET taken == FirstOf(r.found, n)
            ended == n = size
            cursor == IF ended THEN r.answer ELSE Latest(taken)
            watermark == IF ~ended THEN mailbox.watermark
                         ELSE IF taken = {} THEN Now ELSE Latest(taken)
            moved == CursorMoved(r.row)
        IN /\ recorded' = Recorded(taken)
           /\ mailbox' = IF moved THEN mailbox
                         ELSE [mailbox EXCEPT !.historyId = cursor, !.watermark = watermark]
           /\ holds' = IF moved \/ ~ended THEN holds ELSE WithCoverageReleased(mailbox)
  BY DEF CommitSync
<1> DEFINE taken == FirstOf(r.found, n)
           ended == n = size
           cursor == IF ended THEN r.answer ELSE Latest(taken)
           watermark == IF ~ended THEN mailbox.watermark
                        ELSE IF taken = {} THEN Now ELSE Latest(taken)
           moved == CursorMoved(r.row)
<1>10. /\ recorded' = Recorded(taken)
       /\ mailbox' = IF moved THEN mailbox
                     ELSE [mailbox EXCEPT !.historyId = cursor, !.watermark = watermark]
       /\ holds' = IF moved \/ ~ended THEN holds ELSE WithCoverageReleased(mailbox)
  BY <1>9
<1>11. n \in Nat /\ (~ended => n > 0 /\ r.found # {})
  <2>1. size = 0 \/ n \in 1..size
    BY <1>8
  <2>2. r.found = {} => size = 0
    BY FS_EmptySet
  <2> QED BY <1>8, <2>1, <2>2
<1>12. taken \subseteq r.found
  BY DEF FirstOf
<1>13. /\ recorded' \in [Messages -> {0} \cup Generations]
       /\ \A m \in Messages : recorded[m] # 0 => recorded'[m] # 0
       /\ \A m \in Messages : m \in taken => recorded'[m] # 0
  BY <1>3, <1>4, <1>10, RecordedFacts
<1>14. \A m \in 1..Now : m \in Messages
  BY <1>5 DEF Messages
<1>15. Typed'
  BY <1>1, <1>2, EndTyped
<1>16. CASE moved
  <2>1. mailbox' = mailbox /\ holds' = holds
    BY <1>10, <1>16
  <2> HIDE DEF r, taken, ended, cursor, watermark, moved
  <2>2. Within /\ MailboxSound' /\ RecoverySound'
    BY <1>1, <1>3, <1>10, <1>15, <2>1, RecordingOnly
  <2>3. HoldsMatchMailbox' /\ holds' \subseteq {"coverage_incomplete", "mailbox_disconnected"}
    BY <1>4, <2>1 DEF TypeOK, HoldsMatchMailbox
  <2>4. IInv'
    BY <1>1, <1>2, <2>2, <2>3, CommitStep DEF r
  <2> QED BY <2>2, <2>4
<1>17. CASE ~moved
  <2>1. mailbox' = [mailbox EXCEPT !.historyId = cursor, !.watermark = watermark]
        /\ h = r.row.historyId
    BY <1>10, <1>17 DEF CursorMoved
  <2>2. taken # {} => /\ Latest(taken) \in taken
                      /\ \A m \in taken : m <= Latest(taken)
    <3>1. \A m \in taken : m <= Now
      BY <1>5, <1>8, <1>12
    <3>2. taken \in SUBSET Nat
      BY <1>8, <1>12
    <3> HIDE DEF taken
    <3> QED BY <1>5, <3>1, <3>2, LatestIs
  <2>3. ~ended => taken # {}
    BY <1>8, <1>11, FirstSome
  <2>4. ended => taken = r.found
    BY <1>8, FirstAll
  <2>5. cursor \in Nat /\ h <= cursor /\ cursor <= r.answer /\ cursor <= Now
    <3>1. CASE ended
      BY <1>5, <1>6, <2>1, <3>1
    <3>2. CASE ~ended
      <4>1. Latest(taken) \in r.found
        BY <1>12, <2>2, <2>3, <3>2
      <4>2. cursor = Latest(taken)
        BY <3>2
      <4> DEFINE l == Latest(taken)
      <4>3. l \in Nat /\ r.row.historyId < l /\ l <= r.answer
        BY <1>6, <1>8, <4>1
      <4> HIDE DEF l
      <4>4. cursor = l
        BY <4>2 DEF l
      <4> HIDE DEF cursor
      <4> QED BY <1>5, <1>6, <2>1, <4>3, <4>4
    <3> QED BY <3>1, <3>2
  <2>6. \A m \in r.found : m <= cursor => m \in taken
    <3>1. CASE ended
      BY <2>4, <3>1
    <3>2. ASSUME ~ended, NEW m \in r.found, m <= cursor PROVE m \in taken
      <4>1. Latest(taken) \in FirstOf(r.found, n) /\ cursor = Latest(taken)
        BY <2>2, <2>3, <3>2
      <4> QED BY <1>8, <1>11, <3>2, <4>1, FirstPrefix
    <3> QED BY <3>1, <3>2
  <2>7. ReadIn(arrivals, recorded', Account, b, cursor + 1)
    <3>0. ReadIn(arrivals, recorded, Account, b, h + 1)
      BY <1>3, <1>4, <1>7 DEF RecoverySound, Read
    <3>1. \A m \in 1..Now : recorded[m] # 0 => recorded'[m] # 0
      BY <1>13, <1>14
    <3>2. \A m \in 1..Now : m \in taken => recorded'[m] # 0
      BY <1>13, <1>14
    <3> DEFINE found == r.found
               answer == r.answer
               a == Account
    <3>3. /\ \A m \in Inbox(a) : h < m /\ m <= answer => m \in found
          /\ answer \in Nat /\ answer <= Now /\ h <= answer
      BY <1>6, <1>7, <1>12, <2>1
    <3>4. cursor <= answer /\ \A m \in found : m <= cursor => m \in taken
      BY <2>5, <2>6
    <3>5. ReadIn(arrivals, recorded, a, b, h + 1)
      BY <3>0
    <3>6. b \in Nat /\ h \in Nat /\ Now \in Nat /\ cursor \in Nat
      BY <1>5, <2>5
    <3> HIDE DEF found, answer, a, h, b, taken, cursor, r
    <3>7. ReadIn(arrivals, recorded', a, b, cursor + 1)
      BY ONLY <3>1, <3>2, <3>3, <3>4, <3>5, <3>6, CursorAdvances
    <3> QED BY <3>7 DEF a
  <2>8. watermark \in {None} \cup Instants
        /\ TrustedIn(arrivals, recorded', Account, b, watermark)
    <3>1. CASE ~ended
      <4>1. watermark = mailbox.watermark
        BY <3>1
      <4>2. TrustedIn(arrivals, recorded, Account, b, mailbox.watermark)
        BY <1>3, <1>4 DEF MailboxSound, Trusted
      <4>3. mailbox.watermark \in {None} \cup Instants
        BY <1>4 DEF Rows, MailboxRows
      <4>4. TrustedIn(arrivals, recorded', Account, b, mailbox.watermark)
        <5> DEFINE w == mailbox.watermark
                   a == Account
        <5>1. w \in {None} \cup Nat
          BY <4>3 DEF Instants
        <5>2. \A m \in 1..Len(arrivals) : /\ arrivals[m] = arrivals[m]
                                         /\ recorded[m] # 0 => recorded'[m] # 0
          BY <1>5, <1>13, <1>14
        <5> HIDE DEF w, a, b
        <5> QED BY <1>5, <4>2, <5>1, <5>2, TrustedGrows DEF w, a
      <4> QED BY <4>1, <4>3, <4>4
    <3>2. CASE ended
      <4>1. watermark \in Nat /\ watermark <= Now /\ Less(watermark, Overlap) \in Nat
            /\ Less(watermark, Overlap) <= r.answer
        <5>1. CASE taken = {}
          <6>1. watermark = Now
            BY <3>2, <5>1
          <6>2. Less(Now, Overlap) \in Nat /\ Less(Now, Overlap) <= r.answer
            BY <1>5, <1>6, LessFacts
          <6> HIDE DEF watermark
          <6> QED BY <1>5, <6>1, <6>2
        <5>2. CASE taken # {}
          <6>1. watermark = Latest(taken) /\ Latest(taken) \in r.found
            BY <1>12, <2>2, <3>2, <5>2
          <6>2. watermark \in Nat /\ watermark <= r.answer
            BY <1>6, <1>8, <6>1
          <6> HIDE DEF watermark
          <6>3. Less(watermark, Overlap) \in Nat /\ Less(watermark, Overlap) <= watermark
            BY <6>2, LessFacts
          <6> QED BY <1>5, <1>6, <6>2, <6>3
        <5> QED BY <5>1, <5>2
      <4>2. cursor = r.answer
        BY <3>2
      <4> DEFINE end == Less(watermark, Overlap)
                 last == cursor + 1
      <4>3. end \in Nat /\ last \in Nat /\ end <= last
        BY <2>5, <4>1, <4>2
      <4>4. ReadIn(arrivals, recorded', Account, b, last)
        BY <2>7
      <4> HIDE DEF end, last
      <4>5. ReadIn(arrivals, recorded', Account, b, end)
        BY <1>5, <4>3, <4>4, ReadLess
      <4>6. watermark \in Instants
        BY <1>5, <4>1 DEF Instants
      <4> HIDE DEF watermark
      <4> QED BY <1>5, <4>1, <4>5, <4>6 DEF TrustedIn, end
    <3> QED BY <3>1, <3>2
  <2>9. cursor \in Instants
    BY <1>5, <2>5 DEF Instants
  <2> HIDE DEF cursor, watermark, moved, ended, taken, r, size
  <2>10. /\ mailbox' \in MailboxRows
         /\ mailbox'.generation = mailbox.generation
         /\ mailbox'.baselineFrom = mailbox.baselineFrom /\ mailbox'.status = mailbox.status
         /\ mailbox'.syncState = mailbox.syncState
         /\ mailbox'.historyId = cursor /\ mailbox'.watermark = watermark
    BY <1>4, <2>1, <2>8, <2>9 DEF Rows, MailboxRows
  <2>11. recovery' = recovery /\ recovery \in [Generations -> RecoveryRows]
    BY <1>1, <1>4 DEF Rows
  <2>12. Within /\ MailboxSound' /\ RecoverySound'
    BY <1>1, <1>3, <1>7, <1>13, <2>5, <2>7, <2>8, <2>9, <2>10, <2>11, Proved
  <2>13. HoldsMatchMailbox' /\ holds' \subseteq {"coverage_incomplete", "mailbox_disconnected"}
    BY <1>4, <1>10, <2>10 DEF TypeOK, HoldsMatchMailbox, WithCoverageReleased
  <2>14. IInv'
    BY <1>1, <1>2, <2>12, <2>13, CommitStep DEF r
  <2> QED BY <2>12, <2>14
<1> QED BY <1>16, <1>17

\* Conditional completion: the interval joins what lay before it.
LEMMA CompleteRecoveryStep ==
  ASSUME IInv, NEW g \in Generations, CompleteRecovery(g)
  PROVE  IInv'
<1> USE ConstantTypes
<1> DEFINE r == run["recover"][g]
           v == recovery[g]
           b == mailbox.baselineFrom
           h == mailbox.historyId
<1>1. /\ UNCHANGED <<arrivals, floor, addresses, grant, used>>
      /\ r.pc = "walked" /\ mailbox.generation = r.row.generation
      /\ mailbox.status = "connected"
      /\ recorded' = Recorded(r.found)
      /\ mailbox' = [mailbox EXCEPT !.syncState = "ready", !.watermark = recovery[g].to]
      /\ recovery' = [recovery EXCEPT ![g].state = "completed"]
      /\ holds' = WithCoverageReleased(mailbox')
      /\ Ends("recover", g, "done")
  BY DEF CompleteRecovery, Fenced
<1>2. "recover" \in Kinds /\ r.pc # "idle"
  BY <1>1 DEF Kinds
<1>3. /\ mailbox.generation > 0 /\ r \in RunRows
      /\ RunSound("recover", g) /\ RunCurrent("recover", g)
  BY <1>2, UnderWay
<1>4. Rows /\ MailboxSound /\ RecoverySound /\ TypeOK
  BY RowsTyped DEF IInv
<1>5. mailbox.generation = g /\ v.state = "open"
  BY <1>1, <1>2, <1>3 DEF RunSound
<1>6. /\ Now \in Nat /\ Now <= MaxMessages /\ Len(arrivals) = Now
      /\ b \in Nat /\ h \in Nat /\ v.from \in Nat /\ v.to \in Nat /\ v \in RecoveryRows
  BY <1>3, <1>4 DEF Rows, MailboxRows, RecoveryRows, Instants, Now
<1>7. /\ v.from <= v.to /\ v.to <= Now /\ h <= v.to
      /\ ReadIn(arrivals, recorded, Account, b, v.from)
  BY <1>3, <1>4, <1>5 DEF RecoverySound, Read
<1>8. \A m \in Inbox(Account) : v.from <= m /\ m <= v.to => recorded[m] # 0 \/ m \in r.found
  BY <1>1, <1>3 DEF RunCurrent
<1>9. /\ recorded' \in [Messages -> {0} \cup Generations]
      /\ \A m \in Messages : recorded[m] # 0 => recorded'[m] # 0
      /\ \A m \in Messages : m \in r.found => recorded'[m] # 0
  BY <1>1, <1>3, <1>4, RecordedFacts
<1>10. \A m \in 1..Now : m \in Messages
  BY <1>6 DEF Messages
<1>11. ReadIn(arrivals, recorded', Account, b, v.to + 1)
  <2> SUFFICES ASSUME NEW m \in 1..Len(arrivals), arrivals[m] = Account, b <= m, m < v.to + 1
               PROVE  recorded'[m] # 0
    BY DEF ReadIn
  <2>1. m \in 1..Now /\ m \in Messages
    BY <1>6, <1>10
  <2>2. CASE m < v.from
    <3>1. recorded[m] # 0
      BY <1>7, <2>2 DEF ReadIn
    <3> QED BY <1>9, <2>1, <3>1
  <2>3. CASE ~(m < v.from)
    <3>1. v.from <= m /\ m <= v.to
      BY <1>6, <2>1, <2>3
    <3>2. m \in Inbox(Account)
      BY <2>1 DEF Inbox
    <3> QED BY <1>8, <1>9, <2>1, <3>1, <3>2
  <2> QED BY <2>2, <2>3
<1>12. ReadIn(arrivals, recorded', Account, b, h + 1)
  <2> DEFINE end == h + 1
             last == v.to + 1
             a == Account
  <2>1. end \in Nat /\ last \in Nat /\ end <= last
    BY <1>6, <1>7
  <2>2. ReadIn(arrivals, recorded', a, b, last)
    BY <1>11
  <2> HIDE DEF end, last, a, b
  <2>3. ReadIn(arrivals, recorded', a, b, end)
    BY <1>6, <2>1, <2>2, ReadLess
  <2> QED BY <2>3 DEF end, a
<1>13. TrustedIn(arrivals, recorded', Account, b, v.to)
  <2> DEFINE end == Less(v.to, Overlap)
             last == v.to + 1
             a == Account
  <2>1. end \in Nat /\ end <= v.to
    BY <1>6, LessFacts
  <2>2. end \in Nat /\ last \in Nat /\ end <= last
    BY <1>6, <2>1
  <2>3. ReadIn(arrivals, recorded', a, b, last)
    BY <1>11
  <2> HIDE DEF end, last, a, b
  <2>4. ReadIn(arrivals, recorded', a, b, end)
    BY <1>6, <2>2, <2>3, ReadLess
  <2> QED BY <1>6, <1>7, <2>4 DEF TrustedIn, end, a
<1>14. v.to \in Instants
  BY <1>6, <1>7 DEF Instants
<1>15. /\ mailbox' \in MailboxRows /\ mailbox'.generation = mailbox.generation
       /\ mailbox'.baselineFrom = b /\ mailbox'.status = mailbox.status
       /\ mailbox'.syncState = "ready" /\ mailbox'.historyId = h /\ mailbox'.watermark = v.to
  BY <1>1, <1>4, <1>14 DEF Rows, MailboxRows
<1>16. h \in Instants /\ h <= h /\ h <= Now
  BY <1>3, <1>4, <1>6 DEF Rows, MailboxSound
<1>17. /\ recovery' \in [Generations -> RecoveryRows]
       /\ recovery'[g].state = "completed" /\ recovery'[g].from = v.from
       /\ recovery'[g].to = v.to
       /\ \A i \in Generations : i # g => recovery'[i] = recovery[i]
  <2>1. recovery' = [recovery EXCEPT ![g] = [v EXCEPT !.state = "completed"]]
    BY <1>1
  <2>2. [v EXCEPT !.state = "completed"] \in RecoveryRows
    BY <1>6 DEF RecoveryRows
  <2> QED BY <1>4, <1>6, <2>1, <2>2 DEF Rows, RecoveryRows
<1>18. \A i \in Generations : recovery'[i].state = "absent" <=> recovery[i].state = "absent"
  BY <1>5, <1>17
<1>19. Within /\ MailboxSound' /\ RecoverySound'
  <2> HIDE DEF r
  <2> QED BY <1>1, <1>3, <1>5, <1>9, <1>12, <1>13, <1>15, <1>16, <1>17, <1>18, Proved
<1>20. HoldsMatchMailbox' /\ holds' \subseteq {"coverage_incomplete", "mailbox_disconnected"}
  <2>1. holds' = holds \ {"coverage_incomplete"}
    BY <1>1, <1>15 DEF WithCoverageReleased
  <2>2. "mailbox_disconnected" \notin holds
    BY <1>1 DEF IInv, HoldsMatchMailbox
  <2> QED BY <1>1, <1>4, <1>15, <2>1, <2>2 DEF TypeOK, HoldsMatchMailbox
<1> QED BY <1>1, <1>2, <1>17, <1>19, <1>20, CommitStep DEF r

-----------------------------------------------------------------------------
(* New generations.                                                        *)

\* startRecovery: the interval lies in the past, begins no later than it was asked to,
\* and before it ends.
LEMMA StartedFacts ==
  ASSUME Rows, NEW g \in Generations, NEW from \in Nat, NEW to \in Nat,
         from <= Now, to <= Now, recovery' = StartedRecovery(g, from, to)
  PROVE  /\ recovery' \in [Generations -> RecoveryRows]
         /\ \A i \in Generations : i # g => recovery'[i] = recovery[i]
         /\ recovery'[g].state = "open" /\ recovery'[g].to = to
         /\ recovery'[g].from \in Nat /\ recovery'[g].from <= to /\ recovery'[g].from <= from
<1> USE ConstantTypes
<1> DEFINE begin == IF from < to THEN from ELSE Less(to, Overlap)
           row == [state |-> "open", from |-> begin, to |-> to]
<1>1. Less(to, Overlap) \in Nat /\ Less(to, Overlap) <= to
  BY LessFacts
<1>2. begin \in Nat /\ begin <= to /\ begin <= from
  BY <1>1
<1>3. recovery' = [recovery EXCEPT ![g] = row]
  BY DEF StartedRecovery
<1>4. Now \in Nat /\ Now <= MaxMessages
  BY DEF Rows
<1> HIDE DEF begin
<1>5. row \in RecoveryRows
  BY <1>2, <1>4 DEF RecoveryRows, Instants
<1>6. row.state = "open" /\ row.from = begin /\ row.to = to
  OBVIOUS
<1> HIDE DEF row
<1> QED BY <1>2, <1>3, <1>5, <1>6 DEF Rows

\* The mailbox under a new generation, whatever opened it.
LEMMA Superseded ==
  ASSUME IInv, MailboxSound', RecoverySound', GrantSound', HoldsMatchMailbox', Rows',
         UNCHANGED <<arrivals, floor, recorded>>,
         NEW next, next = mailbox.generation + 1, next \in Generations,
         mailbox'.generation = next, ~(mailbox'.historyId < floor),
         addresses' \in Seq(Accounts), Len(addresses') = next,
         \A i \in Generations : i # next => recovery'[i] = recovery[i],
         recovery'[next].state = "open",
         \A k \in Kinds, g \in Generations : run'[k][g] \in {run[k][g], Idle},
         Typed', JobsSound',
         holds' \subseteq {"coverage_incomplete", "mailbox_disconnected"},
         next + Pending' <= used'.grants + used'.expiries
  PROVE  IInv'
<1> USE ConstantTypes
<1>1. TypeOK /\ Typed /\ RecoverySound /\ Runs /\ Rows
  BY RowsTyped DEF IInv
<1>2. Now' = Now /\ Now \in Nat /\ floor \in Nat
  BY <1>1 DEF Now, Rows
<1>3. mailbox.generation \in Nat /\ next \in Nat /\ mailbox.generation # next
      /\ mailbox.generation <= next
  BY <1>1, GenerationTyped
<1>4. Onward
  BY <1>2, <1>3 DEF Onward, Grown, SameGeneration
<1>5. ASSUME NEW k \in Kinds, NEW g \in Generations
      PROVE  /\ Carries(k, g) \/ run'[k][g] = Idle
             /\ run'[k][g].pc # "idle" => run'[k][g].row.generation # next
  <2>1. CASE run'[k][g] = Idle
    BY <2>1, IdleTyped
  <2>2. CASE run'[k][g] = run[k][g]
    <3>1. RunSound(k, g)
      BY <1>1 DEF Runs
    <3>2. CASE run[k][g].pc = "idle"
      <4>1. run[k][g] = Idle
        BY <3>1, <3>2 DEF RunSound
      <4> QED BY <2>1, <2>2, <4>1
    <3>3. CASE run[k][g].pc # "idle"
      <4>1. run[k][g].row.generation \in 1..mailbox.generation
        BY <3>1, <3>3 DEF RunSound
      <4>2. k = "recover" => recovery'[g] = recovery[g]
        BY <1>3, <3>1, <3>3, <4>1 DEF RunSound
      <4>3. run[k][g].answer # None => Now' <= run[k][g].answer + Overlap
        BY <1>2, <3>1 DEF RunSound
      <4>4. Carries(k, g)
        BY <2>2, <4>2, <4>3 DEF Carries
      <4>5. run[k][g].row.generation # next
        BY <1>3, <4>1
      <4> QED BY <2>2, <4>4, <4>5
    <3> QED BY <3>2, <3>3
  <2> QED BY <2>1, <2>2
<1>6. Runs'
  BY <1>1, <1>4, <1>5, RunsCarry
<1>7. ~Owing'
  BY <1>5 DEF Owing, Behind
<1>8. Spent'
  BY <1>7 DEF Spent
<1>9. TypeOK'
  <2>1. \A l \in Kinds, i \in Generations :
          /\ job'[l][i] \in JobStates
          /\ (job'[l][i] = "running") <=> (run'[l][i] # Idle)
          /\ job'[l][i] # "absent" => i <= mailbox'.generation
    BY DEF JobsSound, Idle
  <2>2. \A i \in Generations : (recovery'[i].state # "absent") <=> (i <= mailbox'.generation)
    <3> SUFFICES ASSUME NEW i \in Generations
                 PROVE  (recovery'[i].state # "absent") <=> (i <= next)
      OBVIOUS
    <3>1. i \in Nat
      BY DEF Generations
    <3>2. (recovery[i].state # "absent") <=> (i <= mailbox.generation)
      BY <1>1 DEF TypeOK
    <3>3. CASE i = next
      BY <1>3, <3>3
    <3>4. CASE i # next
      BY <1>3, <3>1, <3>2, <3>4
    <3> QED BY <3>3, <3>4
  <2>3. Now' <= MaxMessages /\ floor' \in 0..Now' /\ arrivals' \in Seq(Accounts)
    BY <1>1, <1>2 DEF TypeOK
  <2> QED BY <2>1, <2>2, <2>3 DEF TypeOK, Rows, Idle
<1> QED BY <1>6, <1>8, <1>9 DEF IInv

\* Rows of the jobs that were queued for a generation, and then a job that ends.
LEMMA RequeuedSound ==
  ASSUME TypeOK, NEW g \in Generations, NEW queued, Requeued(job, queued, g)
  PROVE  \A l \in Kinds, i \in Generations :
           /\ queued[l][i] \in JobStates
           /\ (queued[l][i] = "running") <=> (run[l][i] # Idle)
           /\ queued[l][i] # "absent" => i = g \/ i <= mailbox.generation
BY DEF TypeOK, Requeued, JobStates

\* The transaction of a grant.
LEMMA CompleteGrantStep ==
  ASSUME IInv, CompleteGrant
  PROVE  IInv'
<1> USE ConstantTypes
<1> DEFINE next == mailbox.generation + 1
           hand == grant.handoff
           old == mailbox.baselineFrom
<1>1. /\ TypeOK /\ Typed /\ MailboxSound /\ GrantSound /\ Spent /\ Runs /\ Rows
  BY RowsTyped DEF IInv
<1>2. /\ grant # None /\ grant' = None
      /\ addresses' = Append(addresses, grant.account)
      /\ job' = Coalesced(Rearmed(job, next), next)
      /\ holds' = (holds \ {"mailbox_disconnected"}) \cup {"coverage_incomplete"}
      /\ UNCHANGED <<arrivals, floor, recorded, run, used>>
  BY DEF CompleteGrant
<1> DEFINE switching == next > 1 /\ Account # grant.account
           carried == IF switching THEN None ELSE mailbox.watermark
<1>3. PICK toAt \in hand..Now :
        /\ mailbox' = [status |-> "connected", syncState |-> "baseline_pending",
                       generation |-> next, historyId |-> hand, watermark |-> carried,
                       baselineFrom |-> Less(toAt, BaselineSpan)]
        /\ recovery' = StartedRecovery(next, Less(toAt, BaselineSpan), toAt)
  BY DEF CompleteGrant
<1> DEFINE b == Less(toAt, BaselineSpan)
<1>4. grant.account \in Accounts /\ hand \in Nat /\ hand <= Now /\ floor <= hand
      /\ old <= Less(hand, BaselineSpan) /\ hand \in Instants
  BY <1>1, <1>2 DEF Typed, Grants, GrantSound, Instants
<1>5. /\ Now \in Nat /\ Now <= MaxMessages /\ Len(arrivals) = Now /\ floor \in Nat
      /\ old \in Nat /\ toAt \in Nat /\ hand <= toAt /\ toAt <= Now
      /\ mailbox.generation \in Nat
  BY <1>1, <1>4, GenerationTyped DEF Rows, MailboxRows, Instants, Now
<1>6. /\ b \in Nat /\ b <= toAt /\ b <= Less(Now, BaselineSpan) /\ old <= b
  <2>1. /\ Less(toAt, BaselineSpan) \in Nat /\ Less(toAt, BaselineSpan) <= toAt
        /\ Less(toAt, BaselineSpan) <= Less(Now, BaselineSpan)
    BY <1>5, LessFacts
  <2>2. /\ Less(hand, BaselineSpan) \in Nat
        /\ Less(hand, BaselineSpan) <= Less(toAt, BaselineSpan)
    BY <1>4, <1>5, LessFacts
  <2> QED BY <1>4, <1>5, <2>1, <2>2
<1> HIDE DEF b
<1>7. next \in Nat /\ next > 0 /\ next \in Generations
      /\ next <= used.grants + used.expiries
  <2>1. Pending = 1
    BY <1>2 DEF Pending
  <2>2. mailbox.generation + 1 <= used.grants + used.expiries
    BY <1>1, <2>1 DEF Spent
  <2>3. /\ used.grants \in Nat /\ used.grants <= MaxGrants
        /\ used.expiries \in Nat /\ used.expiries <= MaxExpiries
    BY <1>1 DEF Typed
  <2> QED BY <1>5, <2>2, <2>3 DEF Generations
<1>8. /\ addresses' \in Seq(Accounts) /\ Len(addresses') = next
      /\ addresses'[next] = grant.account
  BY <1>1, <1>2, <1>4, <1>5 DEF TypeOK
<1> HIDE DEF next, hand, carried
<1>9. /\ mailbox'.status = "connected" /\ mailbox'.syncState = "baseline_pending"
      /\ mailbox'.generation = next /\ mailbox'.historyId = hand
      /\ mailbox'.watermark = carried /\ mailbox'.baselineFrom = b
  BY <1>3 DEF b
<1>10. Account' = grant.account
  BY <1>8, <1>9 DEF Account
<1>11. carried \in {None} \cup Instants
       /\ TrustedIn(arrivals, recorded, Account', b, carried)
  <2>1. CASE carried = None
    BY <2>1 DEF TrustedIn
  <2>2. CASE carried # None
    <3>1. carried = mailbox.watermark /\ ~switching
      BY <2>2 DEF carried
    <3>2. mailbox.generation > 0
      BY <1>1, <1>5, <2>2, <3>1 DEF MailboxSound
    <3>3. Account = grant.account
      BY <1>5, <3>1, <3>2 DEF next
    <3> DEFINE w == mailbox.watermark
               end == Less(w, Overlap)
               a == Account
    <3>4. w <= Len(arrivals) /\ ReadIn(arrivals, recorded, a, old, end)
      BY <1>1, <2>2, <3>1, <3>2 DEF MailboxSound, Trusted, TrustedIn
    <3>5. w \in Nat /\ w \in Instants
      BY <1>1, <2>2, <3>1 DEF Rows, MailboxRows, Instants
    <3>6. end \in Nat
      BY <3>5, LessFacts
    <3> HIDE DEF end, a, old
    <3>7. ReadIn(arrivals, recorded, a, b, end)
      <4>1. end <= end
        BY <3>6
      <4> QED BY <1>5, <1>6, <3>4, <3>6, <4>1, ReadLess
    <3>8. a = Account'
      BY <1>10, <3>3 DEF a
    <3> QED BY <3>1, <3>4, <3>5, <3>7, <3>8 DEF TrustedIn, end
  <2> QED BY <2>1, <2>2
<1>12. /\ recovery' \in [Generations -> RecoveryRows]
       /\ \A i \in Generations : i # next => recovery'[i] = recovery[i]
       /\ recovery'[next].state = "open" /\ recovery'[next].to = toAt
       /\ recovery'[next].from \in Nat /\ recovery'[next].from <= toAt
       /\ recovery'[next].from <= b
  <2>1. recovery' = StartedRecovery(next, b, toAt)
    BY <1>3 DEF b
  <2>2. b <= Now
    BY <1>5, <1>6
  <2> QED BY <1>1, <1>5, <1>6, <1>7, <2>1, <2>2, StartedFacts
<1>13. mailbox' \in MailboxRows
  <2>1. b \in Instants
    BY <1>5, <1>6 DEF Instants
  <2> QED BY <1>3, <1>4, <1>7, <1>11, <2>1 DEF MailboxRows, b, hand
<1>14. Now' = Now
  BY <1>2 DEF Now
<1>15. Rows'
  BY <1>1, <1>2, <1>4, <1>9, <1>12, <1>13, <1>14 DEF Rows
<1>16. MailboxSound'
  <2>1. Trusted(mailbox.watermark)'
    BY <1>2, <1>9, <1>11 DEF Trusted
  <2>2. hand <= Now' /\ hand \in Instants /\ b <= Less(Now', BaselineSpan) /\ next # 0
    BY <1>4, <1>6, <1>7, <1>14 DEF hand
  <2> QED BY <1>9, <2>1, <2>2 DEF MailboxSound
<1>17. RecoverySound'
  <2>1. ReadIn(arrivals', recorded', Account', b, recovery'[next].from)
    <3> DEFINE a == Account'
               from == recovery'[next].from
    <3>1. Len(arrivals') \in Nat /\ b \in Nat /\ from \in Nat /\ from <= b
      BY <1>2, <1>5, <1>6, <1>12
    <3> HIDE DEF a, from
    <3>2. ReadIn(arrivals', recorded', a, b, from)
      BY <3>1, ReadNothing
    <3> QED BY <3>2 DEF a, from
  <2>2. hand <= toAt /\ toAt <= Now'
    BY <1>5, <1>14 DEF hand
  <2> QED BY <1>9, <1>12, <2>1, <2>2 DEF RecoverySound, Read
<1>18. GrantSound'
  BY <1>2 DEF GrantSound
<1>19. HoldsMatchMailbox' /\ holds' \subseteq {"coverage_incomplete", "mailbox_disconnected"}
  BY <1>1, <1>2, <1>9 DEF HoldsMatchMailbox, TypeOK
<1>20. Requeued(job, job', next)
  <2>1. job \in [Kinds -> [Generations -> JobStates]]
    BY <1>1 DEF Typed
  <2>2. Requeued(job, Rearmed(job, next), next)
    BY <1>7, <2>1, RearmedRequeues
  <2>3. Rearmed(job, next) \in [Kinds -> [Generations -> JobStates]]
    BY <2>2 DEF Requeued
  <2>4. Requeued(Rearmed(job, next), Coalesced(Rearmed(job, next), next), next)
    BY <1>7, <2>3, CoalescedRequeues
  <2>5. job' = Coalesced(Rearmed(job, next), next)
    BY <1>2 DEF next
  <2> QED BY <1>7, <2>2, <2>4, <2>5, RequeuedTwice
<1>21. Typed'
  BY <1>1, <1>2, <1>20 DEF Typed, Requeued
<1>22. JobsSound'
  <2>1. \A l \in Kinds, i \in Generations :
           /\ job'[l][i] \in JobStates
           /\ (job'[l][i] = "running") <=> (run[l][i] # Idle)
           /\ job'[l][i] # "absent" => i = next \/ i <= mailbox.generation
    BY <1>1, <1>7, <1>20, RequeuedSound
  <2>2. \A i \in Generations : i = next \/ i <= mailbox.generation => i <= next
    BY <1>5 DEF next, Generations
  <2> QED BY <1>2, <1>9, <2>1, <2>2 DEF JobsSound, Idle
<1>23. next + Pending' <= used'.grants + used'.expiries
  <2>1. Pending' = 0
    BY <1>2 DEF Pending
  <2>2. next \in Nat /\ used' = used
    BY <1>2, <1>7
  <2> QED BY <1>7, <2>1, <2>2
<1>24. ~(mailbox'.historyId < floor)
  BY <1>4, <1>5, <1>9 DEF hand
<1>25. next = mailbox.generation + 1
  BY DEF next
<1> QED BY <1>2, <1>7, <1>8, <1>9, <1>12, <1>15, <1>16, <1>17, <1>18, <1>19, <1>21, <1>22,
           <1>23, <1>24, <1>25, Superseded

\* The interval of an expired cursor starts where what was read ends, or earlier.
LEMMA ExpiredFacts ==
  ASSUME IInv, mailbox.generation > 0, NEW row \in MailboxRows,
         row.baselineFrom = mailbox.baselineFrom, Trusted(row.watermark)
  PROVE  /\ ExpiredFrom(row) \in Nat /\ ExpiredFrom(row) <= Now
         /\ Read(Account, mailbox.baselineFrom, ExpiredFrom(row))
<1> USE ConstantTypes
<1> DEFINE b == mailbox.baselineFrom
           w == row.watermark
           a == Account
<1>1. Rows /\ MailboxSound
  BY RowsTyped DEF IInv
<1>2. Now \in Nat /\ b \in Nat /\ Len(arrivals) = Now
  BY <1>1 DEF Rows, MailboxRows, Instants, Now
<1>3. b <= Now
  <2>1. b <= Less(Now, BaselineSpan) /\ Less(Now, BaselineSpan) \in Nat
        /\ Less(Now, BaselineSpan) <= Now
    BY <1>1, <1>2, LessFacts DEF MailboxSound
  <2> QED BY <1>2, <2>1
<1>4. CASE w = None
  <2>1. ExpiredFrom(row) = Less(b, Overlap)
    BY <1>4 DEF ExpiredFrom
  <2>2. Less(b, Overlap) \in Nat /\ Less(b, Overlap) <= b
    BY <1>2, LessFacts
  <2> DEFINE end == Less(b, Overlap)
  <2>3. end \in Nat /\ end <= b /\ end <= Now /\ ExpiredFrom(row) = end
    BY <1>2, <1>3, <2>1, <2>2
  <2> HIDE DEF end, a, b
  <2>4. ReadIn(arrivals, recorded, a, b, end)
    BY <1>2, <2>3, ReadNothing
  <2> QED BY <2>3, <2>4 DEF Read, a, b
<1>5. CASE w # None
  <2>1. w \in Nat /\ w <= Now /\ ReadIn(arrivals, recorded, a, b, Less(w, Overlap))
    BY <1>2, <1>5 DEF MailboxRows, Instants, Trusted, TrustedIn
  <2>2. Less(w, Overlap) \in Nat /\ Less(w, Overlap) <= w
    BY <2>1, LessFacts
  <2>3. ExpiredFrom(row) = Less(w, Overlap)
    BY <1>5 DEF ExpiredFrom
  <2>4. Less(w, Overlap) <= Now
    BY <1>2, <2>1, <2>2
  <2> QED BY <2>1, <2>2, <2>3, <2>4 DEF Read
<1> QED BY <1>4, <1>5

\* The transaction of a sync whose cursor Gmail has forgotten.
LEMMA BeginRecoveryStep ==
  ASSUME IInv, NEW g \in Generations, BeginRecoveryForExpiredCursor(g)
  PROVE  IInv'
<1> USE ConstantTypes
<1> DEFINE r == run["sync"][g]
           next == mailbox.generation + 1
           from == ExpiredFrom(r.row)
           b == mailbox.baselineFrom
           a == Account
<1>1. /\ UNCHANGED <<arrivals, floor, recorded, grant, used>>
      /\ r.pc = "expired" /\ mailbox.generation = r.row.generation
      /\ mailbox' = [mailbox EXCEPT !.generation = next, !.syncState = "recovering",
                                    !.historyId = r.answer]
      /\ addresses' = Append(addresses, Account)
      /\ holds' = holds \cup {"coverage_incomplete"}
      /\ recovery' = StartedRecovery(next, from, Now)
      /\ job' = [Rearmed(job, next) EXCEPT !["sync"][g] = "done"]
      /\ Goes("sync", g, Idle)
  BY DEF BeginRecoveryForExpiredCursor, Fenced
<1>2. "sync" \in Kinds /\ r.pc # "idle"
  BY <1>1 DEF Kinds
<1>3. /\ mailbox.generation > 0 /\ r \in RunRows /\ g <= mailbox.generation
      /\ RunSound("sync", g) /\ RunCurrent("sync", g) /\ mailbox.status # "absent"
      /\ job["sync"][g] = "running"
  BY <1>2, UnderWay
<1>4. /\ TypeOK /\ Typed /\ MailboxSound /\ GrantSound /\ Spent /\ Rows /\ HoldsMatchMailbox
  BY RowsTyped DEF IInv
<1>5. /\ Now \in Nat /\ Now <= MaxMessages /\ Len(arrivals) = Now /\ floor \in Nat
      /\ b \in Nat /\ mailbox.generation \in Nat /\ g \in Nat
  BY <1>4, GenerationTyped DEF Rows, MailboxRows, Instants, Now
<1>6. /\ r.answer \in Nat /\ r.answer \in Instants /\ r.answer <= Now /\ floor <= r.answer
      /\ r.row \in MailboxRows /\ r.row.historyId < floor
  BY <1>1, <1>2, <1>3 DEF RunSound, RunRows, Instants
<1>7. r.row.baselineFrom = b /\ Trusted(r.row.watermark)
  BY <1>1, <1>2, <1>3 DEF RunCurrent
<1>8. from \in Nat /\ from <= Now /\ ReadIn(arrivals, recorded, a, b, from)
  BY <1>3, <1>6, <1>7, ExpiredFacts DEF Read
<1>9. next \in Nat /\ next > 0 /\ next \in Generations /\ g # next
      /\ next + Pending <= used.grants + used.expiries
  <2>1. Owing
    BY <1>1, <1>2, <1>3, <1>6 DEF Owing, Behind
  <2>2. Pending \in Nat
    BY DEF Pending
  <2>3. mailbox.generation + Pending + 1 <= used.grants + used.expiries
    BY <1>4, <2>1 DEF Spent
  <2>4. /\ used.grants \in Nat /\ used.grants <= MaxGrants
        /\ used.expiries \in Nat /\ used.expiries <= MaxExpiries
    BY <1>4 DEF Typed
  <2> DEFINE n == mailbox.generation
             spent == used.grants
             forgotten == used.expiries
  <2>5. /\ n \in Nat /\ n > 0 /\ g \in Nat /\ g <= n
        /\ spent \in Nat /\ forgotten \in Nat
        /\ spent <= MaxGrants /\ forgotten <= MaxExpiries
        /\ n + Pending + 1 <= spent + forgotten
    BY <1>3, <1>5, <2>3, <2>4
  <2> HIDE DEF n, spent, forgotten
  <2>6. /\ n + 1 \in Nat /\ n + 1 > 0 /\ n + 1 \in 1..(MaxGrants + MaxExpiries) /\ g # n + 1
        /\ (n + 1) + Pending <= spent + forgotten
    BY <2>2, <2>5
  <2> QED BY <2>6 DEF Generations, n, spent, forgotten
<1>10. /\ addresses' \in Seq(Accounts) /\ Len(addresses') = next
       /\ addresses'[next] = a
  <2>1. addresses \in Seq(Accounts) /\ Len(addresses) = mailbox.generation
    BY <1>4 DEF TypeOK
  <2>2. addresses[mailbox.generation] \in Accounts
    BY <1>3, <1>5, <2>1
  <2>3. addresses' = Append(addresses, a) /\ a \in Accounts
    BY <1>1, <2>2 DEF Account
  <2> HIDE DEF a, r
  <2> QED BY <1>5, <2>1, <2>3
<1>11. /\ mailbox' \in MailboxRows
       /\ mailbox'.status = mailbox.status /\ mailbox'.syncState = "recovering"
       /\ mailbox'.generation = next /\ mailbox'.historyId = r.answer
       /\ mailbox'.watermark = mailbox.watermark /\ mailbox'.baselineFrom = b
  <2> DEFINE answer == r.answer
             n == next
  <2>1. mailbox' = [mailbox EXCEPT !.generation = n, !.syncState = "recovering",
                                   !.historyId = answer]
    BY <1>1
  <2>2. n \in {0} \cup Generations /\ answer \in {None} \cup Instants
    BY <1>6, <1>9
  <2>3. mailbox \in MailboxRows
    BY <1>4 DEF Rows
  <2> HIDE DEF n, answer
  <2>4. /\ mailbox' \in MailboxRows
        /\ mailbox'.status = mailbox.status /\ mailbox'.syncState = "recovering"
        /\ mailbox'.generation = n /\ mailbox'.historyId = answer
        /\ mailbox'.watermark = mailbox.watermark /\ mailbox'.baselineFrom = b
    BY <2>1, <2>2, <2>3 DEF MailboxRows
  <2> QED BY <2>4 DEF n, answer
<1>12. /\ recovery' \in [Generations -> RecoveryRows]
       /\ \A i \in Generations : i # next => recovery'[i] = recovery[i]
       /\ recovery'[next].state = "open" /\ recovery'[next].to = Now
       /\ recovery'[next].from \in Nat /\ recovery'[next].from <= Now
       /\ recovery'[next].from <= from
  <2> HIDE DEF next, from
  <2>1. Now <= Now
    BY <1>5
  <2> QED BY <1>1, <1>4, <1>5, <1>8, <1>9, <2>1, StartedFacts
<1>13. /\ run' \in [Kinds -> [Generations -> RunRows]]
       /\ run'["sync"][g] = Idle
       /\ \A l \in Kinds, i \in Generations : l # "sync" \/ i # g => run'[l][i] = run[l][i]
  <2> HIDE DEF r
  <2> QED BY <1>1, <1>2, <1>4, IdleTyped, RunPut DEF Typed
<1>14. \A l \in Kinds, i \in Generations : run'[l][i] \in {run[l][i], Idle}
  BY <1>13
<1> HIDE DEF next, from
<1>15. Requeued(job, Rearmed(job, next), next)
  BY <1>4, <1>9, RearmedRequeues DEF Typed
<1>16. job' \in [Kinds -> [Generations -> JobStates]] /\ job'["sync"][g] = "done"
       /\ \A l \in Kinds, i \in Generations :
            l # "sync" \/ i # g => job'[l][i] = Rearmed(job, next)[l][i]
  <2> DEFINE queued == Rearmed(job, next)
  <2>1. queued \in [Kinds -> [Generations -> JobStates]]
    BY <1>15 DEF Requeued
  <2>2. job' = [queued EXCEPT !["sync"][g] = "done"] /\ "done" \in JobStates
    BY <1>1 DEF JobStates
  <2> HIDE DEF queued
  <2>3. job' \in [Kinds -> [Generations -> JobStates]] /\ job'["sync"][g] = "done"
        /\ \A l \in Kinds, i \in Generations :
            l # "sync" \/ i # g => job'[l][i] = queued[l][i]
    BY <1>2, <2>1, <2>2
  <2> QED BY <2>3 DEF queued
<1>17. Typed'
  BY <1>1, <1>4, <1>13, <1>16 DEF Typed
<1>18. JobsSound'
  <2>1. \A l \in Kinds, i \in Generations :
           /\ Rearmed(job, next)[l][i] \in JobStates
           /\ (Rearmed(job, next)[l][i] = "running") <=> (run[l][i] # Idle)
           /\ Rearmed(job, next)[l][i] # "absent" => i = next \/ i <= mailbox.generation
    BY <1>4, <1>9, <1>15, RequeuedSound
  <2>2. \A i \in Generations : i = next \/ i <= mailbox.generation => i <= next
    BY <1>5 DEF next, Generations
  <2>3. ASSUME NEW l \in Kinds, NEW i \in Generations
        PROVE  /\ job'[l][i] \in JobStates
               /\ (job'[l][i] = "running") <=> (run'[l][i] # Idle)
               /\ job'[l][i] # "absent" => i <= next
    <3>1. CASE l = "sync" /\ i = g
      <4>1. g <= next
        BY <1>3, <2>2
      <4> QED BY <1>13, <1>16, <3>1, <4>1 DEF JobStates
    <3>2. CASE l # "sync" \/ i # g
      BY <1>13, <1>16, <2>1, <2>2, <3>2
    <3> QED BY <3>1, <3>2
  <2> QED BY <1>11, <2>3 DEF JobsSound, Idle
<1>19. Now' = Now
  BY <1>1 DEF Now
<1>20. Rows'
  BY <1>1, <1>4, <1>6, <1>11, <1>12, <1>13, <1>19 DEF Rows
<1>21. Account' = a
  BY <1>10, <1>11 DEF Account
<1>22. MailboxSound'
  <2>1. TrustedIn(arrivals, recorded, a, b, mailbox.watermark)
    BY <1>3, <1>4 DEF MailboxSound, Trusted
  <2> HIDE DEF a, b
  <2>2. Trusted(mailbox.watermark)'
    BY <1>1, <1>11, <1>21, <2>1 DEF Trusted
  <2>3. b <= Less(Now, BaselineSpan)
    BY <1>4 DEF MailboxSound, b
  <2>4. mailbox'.status # "absent" /\ mailbox'.generation # 0
    BY <1>3, <1>9, <1>11
  <2> QED BY <1>6, <1>11, <1>19, <2>2, <2>3, <2>4 DEF MailboxSound
<1>23. RecoverySound'
  <2> DEFINE start == recovery'[next].from
  <2>1. ReadIn(arrivals, recorded, a, b, start)
    <3>1. start \in Nat /\ start <= from /\ b <= b
      BY <1>5, <1>12
    <3> HIDE DEF a, b, start
    <3> QED BY <1>5, <1>8, <3>1, ReadLess
  <2>2. ReadIn(arrivals', recorded', Account', mailbox'.baselineFrom, recovery'[next].from)
    BY <1>1, <1>11, <1>21, <2>1
  <2>3. r.answer <= Now
    BY <1>6
  <2> HIDE DEF r, b, a
  <2> QED BY <1>5, <1>11, <1>12, <1>19, <2>2, <2>3 DEF RecoverySound, Read
<1>24. GrantSound'
  BY <1>1, <1>4, <1>11, <1>19 DEF GrantSound
<1>25. HoldsMatchMailbox' /\ holds' \subseteq {"coverage_incomplete", "mailbox_disconnected"}
  BY <1>1, <1>3, <1>4, <1>11 DEF HoldsMatchMailbox, TypeOK
<1>26. next + Pending' <= used'.grants + used'.expiries
  BY <1>1, <1>9 DEF Pending
<1>27. ~(mailbox'.historyId < floor)
  BY <1>5, <1>6, <1>11
<1>28. next = mailbox.generation + 1
  BY DEF next
<1> HIDE DEF r, a, b
<1> QED BY <1>1, <1>9, <1>10, <1>11, <1>12, <1>14, <1>17, <1>18, <1>20, <1>22, <1>23,
           <1>24, <1>25, <1>26, <1>27, <1>28, Superseded

-----------------------------------------------------------------------------
(* The invariant, from the first state on.                                 *)

LEMMA InitInv ==
  ASSUME Init
  PROVE  IInv
<1> USE ConstantTypes
<1>1. /\ arrivals = <<>> /\ floor = 0 /\ addresses = <<>> /\ holds = {} /\ grant = None
      /\ mailbox = [status |-> "absent", syncState |-> "baseline_pending", generation |-> 0,
                    historyId |-> None, watermark |-> None, baselineFrom |-> 0]
      /\ recovery = [i \in Generations |-> [state |-> "absent", from |-> 0, to |-> 0]]
      /\ recorded = [m \in Messages |-> 0]
      /\ job = [k \in Kinds |-> [g \in Generations |-> "absent"]]
      /\ run = [k \in Kinds |-> [g \in Generations |-> Idle]]
      /\ used = [grants |-> 0, expiries |-> 0, faults |-> 0]
  BY DEF Init
<1>2. Now = 0 /\ 0 \in Instants /\ arrivals \in Seq(Accounts) /\ addresses \in Seq(Accounts)
      /\ Len(addresses) = 0
  BY <1>1 DEF Now, Instants
<1>3. /\ mailbox.status = "absent" /\ mailbox.syncState = "baseline_pending"
      /\ mailbox.generation = 0 /\ mailbox.watermark = None /\ mailbox.baselineFrom = 0
      /\ mailbox \in MailboxRows
  BY <1>1, <1>2 DEF MailboxRows
<1>4. /\ \A i \in Generations : recovery[i].state = "absent" /\ i \in Nat /\ i > 0
      /\ recovery \in [Generations -> RecoveryRows]
  BY <1>1, <1>2 DEF RecoveryRows, Generations
<1>5. \A k \in Kinds, i \in Generations : job[k][i] = "absent" /\ run[k][i] = Idle
  BY <1>1
<1>6. TypeOK
  <2>1. \A k \in Kinds, i \in Generations :
          /\ job[k][i] \in JobStates
          /\ (job[k][i] = "running") <=> (run[k][i] # Idle)
          /\ job[k][i] # "absent" => i <= mailbox.generation
    BY <1>5 DEF JobStates
  <2>2. \A i \in Generations : (recovery[i].state # "absent") <=> (i <= mailbox.generation)
    BY <1>3, <1>4
  <2>3. floor \in 0..Now /\ Now <= MaxMessages
    BY <1>1, <1>2
  <2>4. recorded \in [Messages -> {0} \cup Generations]
    BY <1>1
  <2> QED BY <1>1, <1>2, <1>3, <1>4, <2>1, <2>2, <2>3, <2>4 DEF TypeOK
<1>7. Typed
  <2>1. job \in [Kinds -> [Generations -> JobStates]]
    BY <1>1 DEF JobStates
  <2>2. run \in [Kinds -> [Generations -> RunRows]]
    BY <1>1, IdleTyped
  <2>3. used \in [grants : 0..MaxGrants, expiries : 0..MaxExpiries, faults : 0..MaxFaults]
    BY <1>1
  <2> QED BY <1>1, <2>1, <2>2, <2>3 DEF Typed
<1>8. MailboxSound
  <2>1. Less(0, BaselineSpan) \in Nat
    BY LessFacts
  <2>2. mailbox.baselineFrom <= Less(Now, BaselineSpan)
    BY <1>2, <1>3, <2>1
  <2> QED BY <1>3, <2>2 DEF MailboxSound
<1>9. RecoverySound /\ GrantSound
  BY <1>1, <1>3 DEF RecoverySound, GrantSound
<1>10. Spent
  <2>1. ~Owing
    BY <1>3 DEF Owing
  <2>2. Pending = 0 /\ used.grants = 0 /\ used.expiries = 0
    BY <1>1 DEF Pending
  <2> QED BY <1>3, <2>1, <2>2 DEF Spent
<1>11. Runs
  <2>1. ASSUME NEW k \in Kinds, NEW g \in Generations
        PROVE  RunSound(k, g) /\ RunCurrent(k, g)
    <3>1. run[k][g] = Idle
      BY <1>5
    <3> QED BY <3>1, IdleTyped DEF RunSound, RunCurrent
  <2> QED BY <2>1 DEF Runs
<1>12. HoldsMatchMailbox
  BY <1>3 DEF HoldsMatchMailbox
<1> QED BY <1>6, <1>7, <1>8, <1>9, <1>10, <1>11, <1>12 DEF IInv

\* Between steps of the model nothing changes.
LEMMA StutterStep ==
  ASSUME IInv, UNCHANGED vars
  PROVE  IInv'
<1>1. /\ UNCHANGED <<arrivals, floor, addresses, mailbox, holds, recovery, recorded>>
      /\ UNCHANGED <<job, run, grant, used>>
  BY DEF vars
<1>2. Now' = Now /\ Account' = Account /\ Pending' = Pending /\ Idle' = Idle
  BY <1>1 DEF Now, Account, Pending, Idle
<1>3. TypeOK' /\ Typed'
  BY <1>1, <1>2 DEF IInv, TypeOK, Typed
<1>4. MailboxSound' /\ RecoverySound' /\ GrantSound'
  BY <1>1, <1>2 DEF IInv, MailboxSound, RecoverySound, GrantSound, Trusted, Read
<1>5. Spent'
  BY <1>1, <1>2 DEF IInv, Spent, Owing, Behind
<1>6. Runs'
  <2>1. ASSUME NEW k \in Kinds, NEW g \in Generations
        PROVE  RunSound(k, g)' /\ RunCurrent(k, g)'
    <3>1. RunSound(k, g) /\ RunCurrent(k, g)
      BY DEF IInv, Runs
    <3>2. RunSound(k, g)'
      BY <1>1, <1>2, <3>1 DEF RunSound, Inbox
    <3>3. RunCurrent(k, g)'
      BY <1>1, <1>2, <3>1 DEF RunCurrent, Inbox, Trusted
    <3> QED BY <3>2, <3>3
  <2> QED BY <2>1 DEF Runs
<1>7. HoldsMatchMailbox'
  BY <1>1 DEF IInv, HoldsMatchMailbox
<1> QED BY <1>3, <1>4, <1>5, <1>6, <1>7 DEF IInv

\* A step of a run, by what it does.
LEMMA RunStep ==
  ASSUME IInv, NEW k \in Kinds, NEW g \in Generations, Run(k, g)
  PROVE  IInv'
<1>1. CASE Begin(k, g)
  BY <1>1, BeginStep
<1>2. CASE HoldInactive(k, g)
  BY <1>2, HoldInactiveStep
<1>3. CASE AccessGranted(k, g)
  BY <1>3, AccessGrantedStep
<1>4. CASE AccessRefused(k, g)
  BY <1>4, AccessRefusedStep
<1>5. CASE HoldForRevokedGrant(k, g)
  BY <1>5, HoldForRevokedGrantStep
<1>6. CASE ReadFailed(k, g) \/ StaleMailboxGeneration(k, g) \/ Crash(k, g)
  BY <1>6, FutileSteps
<1> QED BY <1>1, <1>2, <1>3, <1>4, <1>5, <1>6 DEF Run

LEMMA SyncStep ==
  ASSUME IInv, NEW g \in Generations, Sync(g)
  PROVE  IInv'
<1>1. CASE Run("sync", g)
  <2>1. "sync" \in Kinds
    BY DEF Kinds
  <2> QED BY <1>1, <2>1, RunStep
<1>2. CASE HoldUnready(g)
  BY <1>2, HoldUnreadyStep
<1>3. CASE ListHistory(g)
  BY <1>3, ListHistoryStep
<1>4. CASE CommitSync(g)
  BY <1>4, CommitSyncStep
<1>5. CASE ExpiredCursor(g)
  BY <1>5, ExpiredCursorStep
<1>6. CASE BeginRecoveryForExpiredCursor(g)
  BY <1>6, BeginRecoveryStep
<1> QED BY <1>1, <1>2, <1>3, <1>4, <1>5, <1>6 DEF Sync

LEMMA RecoverStep ==
  ASSUME IInv, NEW g \in Generations, Recover(g)
  PROVE  IInv'
<1>1. CASE Run("recover", g)
  <2>1. "recover" \in Kinds
    BY DEF Kinds
  <2> QED BY <1>1, <2>1, RunStep
<1>2. CASE BeginMoot(g)
  BY <1>2, BeginMootStep
<1>3. CASE WalkInterval(g)
  BY <1>3, WalkIntervalStep
<1>4. CASE CommitProgress(g) \/ StopRecovery(g)
  BY <1>4, PartialRecovery
<1>5. CASE CompleteRecovery(g)
  BY <1>5, CompleteRecoveryStep
<1> QED BY <1>1, <1>2, <1>3, <1>4, <1>5 DEF Recover

LEMMA NextInv ==
  ASSUME IInv, [Next]_vars
  PROVE  IInv'
<1>1. ASSUME NEW a \in Accounts, Arrive(a) PROVE IInv'
  BY <1>1, ArriveStep
<1>2. ASSUME NEW a \in Accounts, AskGrant(a) PROVE IInv'
  BY <1>2, AskGrantStep
<1>3. CASE ForgetHistory
  BY <1>3, ForgetHistoryStep
<1>4. CASE GrantRefused
  BY <1>4, GrantRefusedStep
<1>5. CASE CompleteGrant
  BY <1>5, CompleteGrantStep
<1>6. CASE Disconnect
  BY <1>6, DisconnectStep
<1>7. CASE SchedulerPass \/ Push
  BY <1>7, SourcesStep
<1>8. ASSUME NEW g \in Generations, Sync(g) PROVE IInv'
  BY <1>8, SyncStep
<1>9. ASSUME NEW g \in Generations, Recover(g) PROVE IInv'
  BY <1>9, RecoverStep
<1>10. CASE UNCHANGED vars
  BY <1>10, StutterStep
<1> QED BY <1>1, <1>2, <1>3, <1>4, <1>5, <1>6, <1>7, <1>8, <1>9, <1>10 DEF Next

\* Every state of the mail lane satisfies the invariant.
THEOREM Invariance == Spec => []IInv
<1>1. Init => IInv
  BY InitInv
<1>2. IInv /\ [Next]_vars => IInv'
  BY NextInv
<1> QED BY <1>1, <1>2, PTL DEF Spec

\* The rows keep their types, a job is running exactly while a run works on it, and the
\* row of a generation exists from the grant or the expiry that opened it on.
THEOREM TypeCorrect == Spec => []TypeOK
<1>1. IInv => TypeOK
  BY DEF IInv
<1> QED BY <1>1, Invariance, PTL

\* recover.ts's continuous handoff and sync.ts's cursor: a `ready` mailbox has a row for
\* every message of its account from the baseline's start up to its cursor, whatever
\* grants, switches, expiries, crashes and late runs it went through.
THEOREM Coverage == Spec => []CoverageProved
<1>1. IInv => CoverageProved
  <2> SUFFICES ASSUME IInv, mailbox.syncState = "ready", NEW m \in Inbox(Account),
                      mailbox.baselineFrom <= m, m <= mailbox.historyId
               PROVE  recorded[m] # 0
    BY DEF CoverageProved
  <2>1. mailbox.generation > 0 /\ recovery[mailbox.generation].state = "completed"
        /\ mailbox.historyId \in Instants
    BY DEF IInv, MailboxSound
  <2>2. Read(Account, mailbox.baselineFrom, mailbox.historyId + 1)
    BY <2>1 DEF IInv, RecoverySound
  <2>3. m \in 1..Len(arrivals) /\ arrivals[m] = Account
    BY DEF Inbox, Now
  <2>4. m \in Int /\ mailbox.historyId \in Int
    BY <2>1, <2>3, ConstantTypes DEF Instants
  <2>5. m < mailbox.historyId + 1
    BY <2>4
  <2> QED BY <2>2, <2>3, <2>5 DEF Read, ReadIn
<1> QED BY <1>1, Invariance, PTL

\* mailboxes.ts opens and releases the two holds in the transactions that write the row:
\* a mailbox is held as disconnected exactly while it is, and held for coverage whenever
\* it is connected and not proved.
THEOREM HoldsHonest == Spec => []HoldsMatchMailbox
<1>1. IInv => HoldsMatchMailbox
  BY DEF IInv
<1> QED BY <1>1, Invariance, PTL

-----------------------------------------------------------------------------
(* What a run that was left behind may do.                                 *)

\* A step of a run moves that run alone, and writes the mailbox, its holds or its
\* recoveries only under its fence.
LEMMA RunWrites ==
  ASSUME NEW k \in Kinds, NEW g \in Generations,
         Run(k, g) \/ (k = "sync" /\ Sync(g)) \/ (k = "recover" /\ Recover(g))
  PROVE  /\ \E r : Goes(k, g, r)
         /\ Fenced(k, g) \/ UNCHANGED <<mailbox, holds, recovery>>
<1>1. CASE Run(k, g)
  <2>1. \E r : Goes(k, g, r)
    BY <1>1 DEF Run, Begin, HoldInactive, AccessGranted, AccessRefused, HoldForRevokedGrant,
       ReadFailed, StaleMailboxGeneration, Crash, Ends
  <2>2. Fenced(k, g) \/ UNCHANGED <<mailbox, holds, recovery>>
    BY <1>1 DEF Run, Begin, HoldInactive, AccessGranted, AccessRefused, HoldForRevokedGrant,
       ReadFailed, StaleMailboxGeneration, Crash
  <2> QED BY <2>1, <2>2
<1>2. CASE k = "sync" /\ Sync(g) /\ ~Run(k, g)
  <2>1. \/ HoldUnready(g) \/ ListHistory(g) \/ CommitSync(g)
        \/ ExpiredCursor(g) \/ BeginRecoveryForExpiredCursor(g)
    BY <1>2 DEF Sync
  <2>2. \E r : Goes("sync", g, r)
    BY <2>1 DEF HoldUnready, ListHistory, CommitSync, ExpiredCursor,
       BeginRecoveryForExpiredCursor, Ends
  <2>3. Fenced("sync", g) \/ UNCHANGED <<mailbox, holds, recovery>>
    BY <2>1 DEF HoldUnready, ListHistory, CommitSync, ExpiredCursor,
       BeginRecoveryForExpiredCursor
  <2> QED BY <1>2, <2>2, <2>3
<1>3. CASE k = "recover" /\ Recover(g) /\ ~Run(k, g)
  <2>1. \/ BeginMoot(g) \/ WalkInterval(g) \/ CommitProgress(g) \/ StopRecovery(g)
        \/ CompleteRecovery(g)
    BY <1>3 DEF Recover
  <2>2. \E r : Goes("recover", g, r)
    BY <2>1 DEF BeginMoot, WalkInterval, CommitProgress, StopRecovery, CompleteRecovery, Ends
  <2>3. Fenced("recover", g) \/ UNCHANGED <<mailbox, holds, recovery>>
    BY <2>1 DEF BeginMoot, WalkInterval, CommitProgress, StopRecovery, CompleteRecovery
  <2> QED BY <1>3, <2>2, <2>3
<1> QED BY <1>1, <1>2, <1>3

\* Every other step leaves the runs as they are.
LEMMA StepMoves ==
  ASSUME [Next]_vars
  PROVE  \/ run' = run
         \/ \E k \in Kinds, g \in Generations :
              Run(k, g) \/ (k = "sync" /\ Sync(g)) \/ (k = "recover" /\ Recover(g))
<1>1. "sync" \in Kinds /\ "recover" \in Kinds
  BY DEF Kinds
<1>2. ASSUME NEW a \in Accounts, Arrive(a) \/ AskGrant(a) PROVE run' = run
  BY <1>2 DEF Arrive, AskGrant
<1>3. CASE ForgetHistory \/ GrantRefused \/ CompleteGrant \/ Disconnect
  BY <1>3 DEF ForgetHistory, GrantRefused, CompleteGrant, Disconnect
<1>4. CASE SchedulerPass \/ Push \/ UNCHANGED vars
  BY <1>4 DEF SchedulerPass, Push, vars
<1>5. CASE \E g \in Generations : Sync(g) \/ Recover(g)
  BY <1>1, <1>5
<1> QED BY <1>2, <1>3, <1>4, <1>5 DEF Next

LEMMA StaleStep ==
  ASSUME Typed, [Next]_vars, NEW k \in Kinds, NEW g \in Generations,
         run[k][g].pc # "idle", run'[k][g].pc = "idle",
         run[k][g].row.generation # mailbox.generation
  PROVE  UNCHANGED <<mailbox, holds, recovery>>
<1>1. PICK l \in Kinds, i \in Generations :
        Run(l, i) \/ (l = "sync" /\ Sync(i)) \/ (l = "recover" /\ Recover(i))
  BY StepMoves
<1>2. /\ \E r : Goes(l, i, r)
      /\ Fenced(l, i) \/ UNCHANGED <<mailbox, holds, recovery>>
  BY <1>1, RunWrites
<1>3. l = k /\ i = g
  <2> SUFFICES ASSUME l # k \/ i # g PROVE FALSE
    OBVIOUS
  <2>1. PICK r : Goes(l, i, r)
    BY <1>2
  <2>2. run'[k][g] = run[k][g]
    BY <2>1 DEF Typed, Goes
  <2> QED BY <2>2
<1> QED BY <1>2, <1>3 DEF Fenced

\* Within a generation only mail.sync moves the cursor, and only forward.
LEMMA CursorStep ==
  ASSUME IInv, [Next]_vars, mailbox'.generation = mailbox.generation, mailbox.generation > 0
  PROVE  mailbox'.historyId >= mailbox.historyId
<1>1. mailbox \in MailboxRows /\ mailbox.historyId \in Nat /\ mailbox.generation \in Nat
  <2>1. Rows
    BY RowsTyped DEF IInv
  <2>2. mailbox.historyId \in Instants
    BY <2>1 DEF Rows
  <2> QED BY <2>1, <2>2, ConstantTypes, GenerationTyped DEF Rows, Instants
<1>2. CASE mailbox'.historyId = mailbox.historyId
  BY <1>1, <1>2
<1>3. ASSUME NEW a \in Accounts, Arrive(a) \/ AskGrant(a) PROVE mailbox' = mailbox
  BY <1>3 DEF Arrive, AskGrant
<1>4. CASE ForgetHistory \/ GrantRefused \/ SchedulerPass \/ Push \/ UNCHANGED vars
  <2>1. mailbox' = mailbox
    BY <1>4 DEF ForgetHistory, GrantRefused, SchedulerPass, Push, vars
  <2> QED BY <1>2, <2>1
<1>5. CASE CompleteGrant
  <2>1. mailbox'.generation = mailbox.generation + 1
    BY <1>5 DEF CompleteGrant
  <2> QED BY <1>1, <2>1
<1>6. CASE Disconnect
  <2>1. mailbox' = Disconnected("disconnected")
    BY <1>6 DEF Disconnect
  <2>2. mailbox'.historyId = mailbox.historyId
    BY <1>1, <2>1 DEF Disconnected, MailboxRows
  <2> QED BY <1>2, <2>2
<1>7. ASSUME NEW k \in Kinds, NEW g \in Generations, Run(k, g)
      PROVE  mailbox'.historyId >= mailbox.historyId
  <2>1. CASE HoldForRevokedGrant(k, g)
    <3>1. mailbox' = Disconnected("revoked")
      BY <2>1 DEF HoldForRevokedGrant
    <3>2. mailbox'.historyId = mailbox.historyId
      BY <1>1, <3>1 DEF Disconnected, MailboxRows
    <3> QED BY <1>2, <3>2
  <2>2. CASE ~HoldForRevokedGrant(k, g)
    <3>1. mailbox' = mailbox
      BY <1>7, <2>2 DEF Run, Begin, HoldInactive, AccessGranted, AccessRefused, ReadFailed,
         StaleMailboxGeneration, Crash
    <3> QED BY <1>2, <3>1
  <2> QED BY <2>1, <2>2
<1>8. ASSUME NEW g \in Generations, Sync(g)
      PROVE  mailbox'.historyId >= mailbox.historyId
  <2>1. "sync" \in Kinds
    BY DEF Kinds
  <2>2. CASE CommitSync(g)
    <3>1. mailbox.historyId <= mailbox'.historyId /\ mailbox'.historyId \in Nat
      BY <2>2, CommitSyncStep, ConstantTypes DEF Within, Instants
    <3> QED BY <1>1, <3>1
  <2>3. CASE BeginRecoveryForExpiredCursor(g)
    <3>1. mailbox'.generation = mailbox.generation + 1
      BY <1>1, <2>3 DEF BeginRecoveryForExpiredCursor, MailboxRows
    <3> QED BY <1>1, <3>1
  <2>4. CASE HoldUnready(g) \/ ListHistory(g) \/ ExpiredCursor(g)
    <3>1. mailbox' = mailbox
      BY <2>4 DEF HoldUnready, ListHistory, ExpiredCursor
    <3> QED BY <1>2, <3>1
  <2> QED BY <1>7, <1>8, <2>1, <2>2, <2>3, <2>4 DEF Sync
<1>9. ASSUME NEW g \in Generations, Recover(g)
      PROVE  mailbox'.historyId >= mailbox.historyId
  <2>1. "recover" \in Kinds
    BY DEF Kinds
  <2>2. CASE CompleteRecovery(g)
    <3>1. mailbox'.historyId = mailbox.historyId
      BY <1>1, <2>2 DEF CompleteRecovery, MailboxRows
    <3> QED BY <1>2, <3>1
  <2>3. CASE BeginMoot(g) \/ WalkInterval(g) \/ CommitProgress(g) \/ StopRecovery(g)
    <3>1. mailbox' = mailbox
      BY <2>3 DEF BeginMoot, WalkInterval, CommitProgress, StopRecovery
    <3> QED BY <1>2, <3>1
  <2> QED BY <1>7, <1>9, <2>1, <2>2, <2>3 DEF Recover
<1> QED BY <1>2, <1>3, <1>4, <1>5, <1>6, <1>7, <1>8, <1>9 DEF Next

\* StaleMailboxGeneration of mailboxes.ts: a run that read the mailbox at another generation
\* ends without a write to the mailbox, its holds or its recoveries, and within a
\* generation advanceCursor never takes the cursor back.
THEOREM StaleRuns == Spec => StaleRunLeavesMailbox
<1>1. IInv /\ [Next]_vars =>
        [/\ \A k \in Kinds, g \in Generations :
              run[k][g].pc # "idle" /\ run'[k][g].pc = "idle"
                /\ run[k][g].row.generation # mailbox.generation =>
                UNCHANGED <<mailbox, holds, recovery>>
         /\ mailbox'.generation = mailbox.generation /\ mailbox.generation > 0 =>
              mailbox'.historyId >= mailbox.historyId]_vars
  BY StaleStep, CursorStep DEF IInv
<1> QED BY <1>1, Invariance, PTL DEF Spec, StaleRunLeavesMailbox
=============================================================================
