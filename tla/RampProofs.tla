----------------------------- MODULE RampProofs -----------------------------
(***************************************************************************)
(* What holds of the ramp for any schedule and stages that rise, any       *)
(* horizon of days and any number of sends, signals and commands.          *)
(***************************************************************************)
EXTENDS Ramp, FiniteSetTheorems, WellFoundedInduction, TLAPS

-----------------------------------------------------------------------------
(* Arithmetic.                                                             *)

LEMMA LesserOf ==
  ASSUME NEW m \in Int, NEW n \in Int
  PROVE  /\ Lesser(m, n) \in {m, n}
         /\ Lesser(m, n) <= m /\ Lesser(m, n) <= n
  BY DEF Lesser

LEMMA LesserRises ==
  ASSUME NEW k \in Nat, NEW l \in Nat, k <= l, NEW m \in Nat, NEW n \in Nat, m <= n
  PROVE  Lesser(k, m) \in Nat /\ Lesser(l, n) \in Nat /\ Lesser(k, m) <= Lesser(l, n)
  BY DEF Lesser

LEMMA LessOf ==
  ASSUME NEW q \in Nat
  PROVE  Less(q) \in Nat /\ Less(q) <= q /\ (q > 0 => q = Less(q) + 1)
  BY DEF Less

\* A whole number of periods passes, and a day more never makes it fewer.
LEMMA Quotient ==
  ASSUME NEW q \in Nat, NEW period \in Nat \ {0}
  PROVE  /\ q \div period \in Nat
         /\ 0 \div period = 0
         /\ q \div period <= (q + 1) \div period
<1>1. /\ q = period * (q \div period) + (q % period)
      /\ q + 1 = period * ((q + 1) \div period) + ((q + 1) % period)
      /\ q \div period \in Int /\ (q + 1) \div period \in Int
  OBVIOUS
<1>2. q % period \in 0..(period - 1) /\ (q + 1) % period \in 0..(period - 1)
  OBVIOUS
<1> DEFINE m == q \div period
           n == (q + 1) \div period
<1>3. /\ m \in Int /\ n \in Int
      /\ period * m <= q /\ q < period * m + period
      /\ q + 1 < period * n + period
  BY <1>1, <1>2
<1>4. 0 \div period = 0
  OBVIOUS
<1> HIDE DEF m, n
<1>5. m >= 0
  BY <1>3
<1>6. m <= n
  <2> SUFFICES ASSUME m > n PROVE FALSE
    BY <1>3
  <2>1. PICK k \in Nat : m = n + 1 + k
    BY <1>3
  <2>2. period * m = period * n + period + period * k
    BY <1>3, <2>1
  <2>3. period * k >= 0 /\ period * n \in Int
    BY <1>3
  <2> QED BY <1>3, <2>2, <2>3
<1> QED BY <1>4, <1>5, <1>6, <1>3 DEF m, n

LEMMA StageQuotient ==
  ASSUME NEW q \in Nat, NEW period \in Nat \ {0}
  PROVE  /\ q \div period \in Nat
         /\ 0 \div period = 0
         /\ Less(q) \div period <= q \div period
<1>1. CASE q = 0
  BY <1>1, Quotient DEF Less
<1>2. CASE q > 0
  <2>1. Less(q) \in Nat /\ q = Less(q) + 1
    BY <1>2, LessOf
  <2>2. Less(q) \div period <= (Less(q) + 1) \div period
    BY <2>1, Quotient
  <2> QED BY <2>1, <2>2, Quotient
<1> QED BY <1>1, <1>2

USE RampAssumption, StagesAssumption, LadderAssumption, NullAssumption

-----------------------------------------------------------------------------
(* The inductive invariant.                                                *)

\* An epoch is of an inactivity no later than the current one's, and a step of the schedule
\* was earned when it opened.
EpochSound(a) ==
  epochs[a] # None =>
    /\ recovery # None /\ a <= recovery
    /\ \E h \in 0..LastDay : epochs[a].earned = Scheduled[h]

\* A day is counted by the schedule, or by the epoch it names.
Counts(d) == days[d] # None /\ days[d].closed /\ days[d].healthy /\ ~days[d].credited
Credits(d) == days[d] # None /\ days[d].closed /\ days[d].healthy /\ days[d].credited

\* The epoch a day is credited to is there; only a closed day has a verdict.
DaySound(d) ==
  /\ Credits(d) => days[d].epoch \in Dates /\ epochs[days[d].epoch] # None
  /\ days[d] # None /\ ~days[d].closed => ~days[d].healthy /\ ~days[d].credited

IInv ==
  /\ TypeOK
  /\ DaysCounted
  /\ \A a \in Dates : EpochSound(a)
  /\ \A d \in Dates : DaySound(d)

-----------------------------------------------------------------------------
(* What the recovery and the cap compute.                                  *)

\* What a scheduled cap was earned with.
Earned(e) == \E h \in 0..LastDay : e.earned = Scheduled[h]

\* The stages are there for every number of days, start at the first, and are never
\* climbed by a day taken back.
LEMMA StageOf ==
  ASSUME NEW q \in Nat
  PROVE  /\ StageIndex(q) \in 0..LastStage
         /\ StageIndex(0) = 0
         /\ StageIndex(Less(q)) <= StageIndex(q)
<1>1. Less(q) \in Nat
  BY LessOf
<1>2. Less(q) \div StageDays \in Nat /\ q \div StageDays \in Nat /\ 0 \div StageDays = 0
  BY <1>1, StageQuotient
<1>3. Less(q) \div StageDays <= q \div StageDays
  BY StageQuotient
<1> QED BY <1>1, <1>2, <1>3 DEF StageIndex, Lesser

\* A recovery takes a number of days, and one at least: some stage reaches what was earned.
LEMMA RequiredOf ==
  ASSUME NEW e \in Epoch, Earned(e)
  PROVE  RequiredDays(e) \in Nat \ {0}
<1> DEFINE reaching == {i \in 0..LastStage : Stages[i] >= e.earned}
<1>1. reaching \subseteq Nat
  OBVIOUS
<1>2. reaching # {}
  <2>1. PICK h \in 0..LastDay : e.earned = Scheduled[h]
    BY DEF Earned
  <2>2. PICK i \in 0..LastStage : Stages[i] >= Scheduled[h]
    BY <2>1
  <2> QED BY <2>1, <2>2
<1>3. PICK least \in reaching : \A j \in reaching : ~(<<j, least>> \in OpToRel(<, Nat))
  <2> HIDE DEF reaching
  <2> QED BY <1>1, <1>2, NatLessThanWellFounded, WFMin
<1>4. \A j \in reaching : least <= j
  <2> HIDE DEF reaching
  <2> SUFFICES ASSUME NEW j \in reaching PROVE least <= j
    OBVIOUS
  <2>1. j \in Nat /\ least \in Nat /\ ~(j < least)
    BY <1>1, <1>3 DEF OpToRel
  <2> QED BY <2>1
<1>5. /\ least \in 0..LastStage /\ Stages[least] >= e.earned
      /\ \A j \in 0..LastStage : Stages[j] >= e.earned => least <= j
  BY <1>4
<1> DEFINE reach == CHOOSE i \in 0..LastStage :
                      /\ Stages[i] >= e.earned
                      /\ \A j \in 0..LastStage : Stages[j] >= e.earned => i <= j
<1>6. reach \in 0..LastStage
  BY <1>5
<1>7. RequiredDays(e) = IF reach = 0 THEN StageDays ELSE StageDays * reach
  BY DEF RequiredDays
<1> HIDE DEF reach
<1>8. reach # 0 => StageDays * reach \in Nat \ {0}
  BY <1>6
<1> QED BY <1>6, <1>7, <1>8

LEMMA StageCapOf ==
  ASSUME NEW e \in Epoch
  PROVE  /\ StageCap(e) \in Nat
         /\ StageIndex(e.qualifying) \in 0..LastStage
<1>1. e.qualifying \in Nat /\ e.earned \in Nat
  BY DEF Epoch
<1>2. StageIndex(e.qualifying) \in 0..LastStage
  BY <1>1, StageOf
<1>3. Stages[StageIndex(e.qualifying)] \in Nat
  BY <1>2
<1> QED BY <1>1, <1>2, <1>3 DEF StageCap, Lesser

\* effectiveDailyCap is a number.
LEMMA CapIsNat ==
  ASSUME NEW h \in 0..LastDay, NEW low \in Lowerings \cup {None},
         NEW high \in Raises \cup {None}, NEW e \in Epoch \cup {None}
  PROVE  CapOf(h, low, high, e) \in Nat
<1> DEFINE base == IF high = None THEN Scheduled[h] ELSE high
           bounded == Lesser(IF low = None THEN base ELSE Lesser(base, low), Ceiling)
<1>1. base \in Nat /\ Scheduled[h] \in Nat
  OBVIOUS
<1>2. bounded \in Nat
  BY <1>1 DEF Lesser
<1>3. e # None => StageCap(e) \in Nat
  BY StageCapOf
<1> QED BY <1>1, <1>2, <1>3 DEF CapOf, Recovering, Lesser

\* With no more healthy days and no better a recovery the cap is no higher.
LEMMA CapFalls ==
  ASSUME NEW h \in 0..LastDay, NEW g \in 0..h, NEW low \in Lowerings \cup {None},
         NEW high \in Raises \cup {None},
         NEW e \in Epoch \cup {None}, NEW f \in Epoch \cup {None},
         Recovering(e) => Recovering(f) /\ StageCap(f) <= StageCap(e)
  PROVE  CapOf(g, low, high, f) <= CapOf(h, low, high, e)
<1> DEFINE base(i) == IF high = None THEN Scheduled[i] ELSE high
           bounded(i) == Lesser(IF low = None THEN base(i) ELSE Lesser(base(i), low), Ceiling)
<1>1. g \in 0..LastDay /\ Scheduled[g] <= Scheduled[h] /\ Scheduled[g] \in Nat /\ Scheduled[h] \in Nat
  OBVIOUS
<1>2. base(g) \in Nat /\ base(h) \in Nat /\ base(g) <= base(h)
  BY <1>1
<1>3. bounded(g) \in Nat /\ bounded(h) \in Nat /\ bounded(g) <= bounded(h)
  <2> DEFINE under(b) == IF low = None THEN b ELSE Lesser(b, low)
  <2>1. under(base(g)) \in Nat /\ under(base(h)) \in Nat /\ under(base(g)) <= under(base(h))
    <3> HIDE DEF base
    <3>1. CASE low = None
      BY <1>2, <3>1
    <3>2. CASE low \in Lowerings /\ low # None
      <4>1. low \in Nat
        BY <3>2
      <4>2. low <= low
        BY <4>1
      <4>3. /\ Lesser(base(g), low) \in Nat /\ Lesser(base(h), low) \in Nat
            /\ Lesser(base(g), low) <= Lesser(base(h), low)
        <5> HIDE DEF under
        <5> QED BY ONLY <1>2, <4>1, <4>2, LesserRises
      <4> QED BY <3>2, <4>3
    <3> QED BY <3>1, <3>2
  <2> HIDE DEF base, under
  <2>2. Ceiling \in Nat /\ Ceiling <= Ceiling
    OBVIOUS
  <2>3. Lesser(under(base(g)), Ceiling) <= Lesser(under(base(h)), Ceiling)
    BY ONLY <2>1, <2>2, LesserRises
  <2>4. Lesser(under(base(g)), Ceiling) \in Nat /\ Lesser(under(base(h)), Ceiling) \in Nat
    BY ONLY <2>1, <2>2, LesserRises
  <2> QED BY <2>3, <2>4 DEF under, base
<1> HIDE DEF bounded
<1>4. CapOf(g, low, high, f) = IF Recovering(f) THEN Lesser(bounded(g), Lesser(StageCap(f), Scheduled[g]))
                               ELSE bounded(g)
  BY DEF CapOf, bounded
<1>5. CapOf(h, low, high, e) = IF Recovering(e) THEN Lesser(bounded(h), Lesser(StageCap(e), Scheduled[h]))
                               ELSE bounded(h)
  BY DEF CapOf, bounded
<1>6. (Recovering(e) => StageCap(e) \in Nat) /\ (Recovering(f) => StageCap(f) \in Nat)
  BY StageCapOf DEF Recovering
<1>7. CASE Recovering(e)
  <2>1. Recovering(f) /\ StageCap(f) <= StageCap(e) /\ StageCap(e) \in Nat /\ StageCap(f) \in Nat
    BY <1>6, <1>7
  <2>2. /\ Lesser(StageCap(f), Scheduled[g]) \in Nat /\ Lesser(StageCap(e), Scheduled[h]) \in Nat
        /\ Lesser(StageCap(f), Scheduled[g]) <= Lesser(StageCap(e), Scheduled[h])
    BY <1>1, <2>1, LesserRises
  <2>3. Lesser(bounded(g), Lesser(StageCap(f), Scheduled[g])) <=
        Lesser(bounded(h), Lesser(StageCap(e), Scheduled[h]))
    BY <1>3, <2>2, LesserRises
  <2> QED BY <1>4, <1>5, <1>7, <2>1, <2>3
<1>8. CASE ~Recovering(e) /\ Recovering(f)
  <2>1. Lesser(StageCap(f), Scheduled[g]) \in Int
    BY <1>1, <1>6, <1>8, LesserOf
  <2>2. Lesser(bounded(g), Lesser(StageCap(f), Scheduled[g])) <= bounded(g)
    BY <1>3, <2>1, LesserOf
  <2>3. Lesser(bounded(g), Lesser(StageCap(f), Scheduled[g])) \in Int
    BY <1>3, <2>1, LesserOf
  <2> QED BY <1>3, <1>4, <1>5, <1>8, <2>2, <2>3
<1>9. CASE ~Recovering(e) /\ ~Recovering(f)
  BY <1>3, <1>4, <1>5, <1>9
<1> QED BY <1>7, <1>8, <1>9

\* An epoch that just opened, or lost a day, holds the cap as much as it did.
LEMMA EpochFalls ==
  ASSUME NEW e \in Epoch \cup {None}, e # None => Earned(e), NEW f \in Epoch, Earned(f),
         \/ f.qualifying = 0
         \/ e # None /\ f.earned = e.earned /\ f.qualifying \in {e.qualifying, Less(e.qualifying)}
  PROVE  Recovering(e) => Recovering(f) /\ StageCap(f) <= StageCap(e)
<1> SUFFICES ASSUME Recovering(e) PROVE Recovering(f) /\ StageCap(f) <= StageCap(e)
  OBVIOUS
<1>1. e # None /\ e \in Epoch /\ Earned(e)
  BY DEF Recovering
<1>2. /\ e.qualifying \in Nat /\ f.qualifying \in Nat
      /\ e.earned \in Nat /\ f.earned \in Nat
  BY <1>1 DEF Epoch
<1>3. RequiredDays(e) \in Nat \ {0} /\ RequiredDays(f) \in Nat \ {0}
  BY <1>1, RequiredOf
<1>4. f # None
  BY NullAssumption
<1>5. /\ StageIndex(e.qualifying) \in 0..LastStage /\ StageIndex(f.qualifying) \in 0..LastStage
      /\ StageIndex(0) = 0 /\ StageIndex(Less(e.qualifying)) <= StageIndex(e.qualifying)
  BY <1>2, StageOf
<1>6. StageIndex(f.qualifying) <= StageIndex(e.qualifying)
  <2>1. CASE f.qualifying = 0
    BY <1>5, <2>1
  <2>2. CASE f.qualifying = e.qualifying
    BY <1>5, <2>2
  <2>3. CASE f.qualifying = Less(e.qualifying)
    BY <1>5, <2>3
  <2> QED BY <2>1, <2>2, <2>3
<1>7. /\ Stages[StageIndex(f.qualifying)] <= Stages[StageIndex(e.qualifying)]
      /\ Stages[StageIndex(e.qualifying)] \in Nat /\ Stages[StageIndex(f.qualifying)] \in Nat
      /\ Stages[0] <= Stages[StageIndex(e.qualifying)]
  BY <1>5, <1>6
<1>8. e.earned >= Stages[0] /\ Stages[0] \in Nat
  <2>1. PICK h \in 0..LastDay : e.earned = Scheduled[h]
    BY <1>1 DEF Earned
  <2>2. 0 \in 0..LastDay /\ Scheduled[0] <= Scheduled[h]
    OBVIOUS
  <2> QED BY <2>1, <2>2
<1>9. CASE f.qualifying = 0
  BY <1>2, <1>3, <1>4, <1>5, <1>7, <1>8, <1>9 DEF Recovering, StageCap, Lesser
<1>10. CASE f.earned = e.earned /\ f.qualifying \in {e.qualifying, Less(e.qualifying)}
  <2>1. RequiredDays(f) = RequiredDays(e)
    BY <1>10 DEF RequiredDays
  <2>2. f.qualifying <= e.qualifying
    <3>1. Less(e.qualifying) <= e.qualifying
      BY <1>2, LessOf
    <3> QED BY <1>2, <1>10, <3>1
  <2>3. Recovering(f)
    BY <1>2, <1>3, <1>4, <2>1, <2>2 DEF Recovering
  <2> QED BY <1>2, <1>7, <1>10, <2>3 DEF StageCap, Lesser
<1> QED BY <1>1, <1>9, <1>10

-----------------------------------------------------------------------------
(* The initial state, and what assessInactivity leaves.                    *)

LEMMA InitInv == Init => IInv
<1> SUFFICES ASSUME Init PROVE IInv
  OBVIOUS
<1>1. TypeOK
  <2>1. 1 \in Dates /\ 2 \in Dates /\ 0 \in 0..LastDay
    BY DEF Dates
  <2> QED BY <2>1 DEF Init, TypeOK
<1>2. DaysCounted
  <2>1. CountedDays = {} /\ \A a \in Dates : CreditedDays(a) = {}
    BY DEF Init, CountedDays, CreditedDays
  <2>2. Cardinality({}) = 0
    BY FS_EmptySet
  <2> QED BY <2>1, <2>2 DEF Init, DaysCounted
<1>3. \A a \in Dates : EpochSound(a)
  BY DEF Init, EpochSound
<1>4. \A d \in Dates : DaySound(d)
  BY DEF Init, DaySound, Credits
<1> QED BY <1>1, <1>2, <1>3, <1>4 DEF IInv

\* The epochs that were there are kept; one that was not has no day yet; the current one
\* is the latest.
Assessed(es, r) ==
  /\ es \in [Dates -> Epoch \cup {None}]
  /\ r \in {None} \cup {a \in Dates : es[a] # None}
  /\ \A a \in Dates : epochs[a] # None => es[a] = epochs[a]
  /\ \A a \in Dates : es[a] # None => r # None /\ a <= r /\ Earned(es[a])
  /\ \A a \in Dates : epochs[a] = None /\ es[a] # None => es[a].qualifying = 0
  /\ r # recovery => r \in Dates /\ epochs[r] = None
  /\ r = recovery => es = epochs

LEMMA RampStays == IInv => Assessed(epochs, recovery)
  BY DEF IInv, TypeOK, Assessed, EpochSound, Earned

LEMMA AssessedSound ==
  ASSUME IInv, NEW now \in Dates
  PROVE  Assessed(AssessedEpochs(now), AssessedRecovery(now))
<1>1. /\ epochs \in [Dates -> Epoch \cup {None}]
      /\ recovery \in {None} \cup {a \in Dates : epochs[a] # None}
      /\ active \in Dates /\ healthyDays \in 0..LastDay
  BY DEF IInv, TypeOK
<1>2. CASE ~Lapsed(now)
  BY <1>2, RampStays DEF AssessedEpochs, AssessedRecovery
<1>3. CASE Lapsed(now)
  <2>1. recovery # active /\ \A a \in Dates : epochs[a] # None => a < active
    <3>1. \A a \in Dates : EpochSound(a)
      BY DEF IInv
    <3>2. recovery # None => recovery < active
      BY <1>3 DEF Lapsed
    <3>3. recovery # active
      BY <1>1, <3>2 DEF Dates
    <3>4. ASSUME NEW a \in Dates, epochs[a] # None PROVE a < active
      <4>1. recovery # None /\ a <= recovery
        BY <3>1, <3>4 DEF EpochSound
      <4>2. recovery \in Dates /\ recovery < active
        BY <1>1, <3>2, <4>1
      <4> QED BY <1>1, <4>1, <4>2 DEF Dates
    <3> QED BY <3>3, <3>4
  <2>2. epochs[active] = None
    BY <1>1, <2>1 DEF Dates
  <2> DEFINE new == [started |-> now, earned |-> Scheduled[healthyDays], qualifying |-> 0,
                     qualifiedOn |-> None, stageOn |-> now]
  <2>3. new \in Epoch /\ new # None /\ Earned(new) /\ new.qualifying = 0
    <3>1. Scheduled[healthyDays] \in Nat
      BY <1>1
    <3>2. new \in Epoch
      BY <3>1 DEF Epoch
    <3> QED BY <1>1, <3>2 DEF Earned
  <2>4. AssessedEpochs(now) = [epochs EXCEPT ![active] = new] /\ AssessedRecovery(now) = active
    BY <1>3, <2>2 DEF AssessedEpochs, AssessedRecovery
  <2> HIDE DEF new
  <2> DEFINE es == [epochs EXCEPT ![active] = new]
  <2>5. /\ es \in [Dates -> Epoch \cup {None}]
        /\ es[active] = new /\ \A a \in Dates \ {active} : es[a] = epochs[a]
    BY <1>1, <2>3
  <2> HIDE DEF es
  <2>6. \A a \in Dates : es[a] # None => a <= active /\ Earned(es[a])
    <3> SUFFICES ASSUME NEW a \in Dates, es[a] # None PROVE a <= active /\ Earned(es[a])
      OBVIOUS
    <3>1. CASE a = active
      BY <2>3, <2>5, <3>1 DEF Dates
    <3>2. CASE a # active
      <4>1. es[a] = epochs[a] /\ epochs[a] # None
        BY <2>5, <3>2
      <4>2. a < active
        BY <2>1, <4>1
      <4>3. EpochSound(a)
        BY DEF IInv
      <4>4. Earned(epochs[a])
        BY <4>1, <4>3 DEF EpochSound, Earned
      <4> QED BY <1>1, <4>1, <4>2, <4>4 DEF Dates
    <3> QED BY <3>1, <3>2
  <2>7. \A a \in Dates : epochs[a] # None => es[a] = epochs[a]
    BY <2>2, <2>5
  <2>8. \A a \in Dates : epochs[a] = None /\ es[a] # None => es[a].qualifying = 0
    BY <2>3, <2>5
  <2>9. Assessed(es, active)
    BY <1>1, <2>1, <2>2, <2>3, <2>5, <2>6, <2>7, <2>8, NullAssumption DEF Assessed, Dates
  <2> QED BY <2>4, <2>9 DEF es
<1> QED BY <1>2, <1>3

\* The epoch a row points at, with what earned it.
LEMMA PointedAt ==
  ASSUME NEW es, NEW r, Assessed(es, r)
  PROVE  /\ EpochOf(r, es) \in Epoch \cup {None}
         /\ EpochOf(r, es) # None => r \in Dates /\ EpochOf(r, es) = es[r] /\ Earned(EpochOf(r, es))
  BY DEF Assessed, EpochOf

LEMMA EffectiveOf ==
  ASSUME IInv, NEW now \in Dates
  PROVE  /\ EffectiveCap(now) \in Nat
         /\ Current(now) \in Epoch \cup {None}
         /\ AssessedRecovery(now) \in Dates \cup {None}
<1>1. Assessed(AssessedEpochs(now), AssessedRecovery(now))
  BY AssessedSound
<1>2. Current(now) \in Epoch \cup {None}
  BY <1>1, PointedAt DEF Current
<1>3. EffectiveCap(now) \in Nat
  BY <1>2, CapIsNat DEF EffectiveCap, IInv, TypeOK
<1> QED BY <1>1, <1>2, <1>3 DEF Assessed

-----------------------------------------------------------------------------
(* Steps that judge no day and take none back.                             *)

\* The verdict of a day and the epoch it is of stay; a new day has no verdict.
DayKept(d) ==
  \/ days'[d] = days[d]
  \/ /\ days[d] # None /\ days'[d] # None
     /\ days'[d].closed = days[d].closed
     /\ days'[d].healthy = days[d].healthy
     /\ days'[d].credited = days[d].credited
     /\ days'[d].epoch = days[d].epoch
  \/ /\ days[d] = None /\ days'[d] # None
     /\ ~days'[d].closed /\ ~days'[d].healthy /\ ~days'[d].credited

\* What the counters say, apart from the types.
Sound == DaysCounted /\ (\A a \in Dates : EpochSound(a)) /\ (\A d \in Dates : DaySound(d))

LEMMA CountsOf ==
  /\ CountedDays = {d \in Dates : Counts(d)}
  /\ \A a \in Dates : CreditedDays(a) = {d \in Dates : Credits(d) /\ days[d].epoch = a}
  BY DEF CountedDays, CreditedDays, Counts, Credits

LEMMA CountsNext ==
  /\ CountedDays' = {d \in Dates : Counts(d)'}
  /\ \A a \in Dates : CreditedDays(a)' = {d \in Dates : Credits(d)' /\ days'[d].epoch = a}
  BY DEF CountedDays, CreditedDays, Counts, Credits

\* An epoch that is not there has no day.
LEMMA NoEpochNoDay ==
  ASSUME IInv, NEW a \in Dates, epochs[a] = None
  PROVE  CreditedDays(a) = {} /\ Cardinality(CreditedDays(a)) = 0
<1>1. CreditedDays(a) = {}
  BY CountsOf DEF IInv, DaySound
<1> QED BY <1>1, FS_EmptySet

\* The schedule's half of the invariant, and an epoch's.
ScheduleCounted ==
  /\ healthyDays = Cardinality(CountedDays)
  /\ \A d \in CountedDays : advancedOn # None /\ d <= advancedOn

EpochCounted(a) ==
  /\ epochs[a] # None => epochs[a].qualifying = Cardinality(CreditedDays(a))
  /\ \A d \in CreditedDays(a) :
       /\ epochs[a] # None /\ epochs[a].qualifiedOn # None
       /\ epochs[a].started <= d /\ d <= epochs[a].qualifiedOn
  /\ EpochSound(a)

LEMMA CountedOf ==
  ASSUME IInv
  PROVE  ScheduleCounted /\ \A a \in Dates : EpochCounted(a)
<1>1. ScheduleCounted
  BY DEF IInv, DaysCounted, ScheduleCounted
<1>2. ASSUME NEW a \in Dates PROVE EpochCounted(a)
  BY NoEpochNoDay DEF IInv, DaysCounted, EpochCounted
<1> QED BY <1>1, <1>2

LEMMA CountedNext ==
  ASSUME ScheduleCounted', \A a \in Dates : EpochCounted(a)', \A d \in Dates : DaySound(d)'
  PROVE  Sound'
  BY DEF Sound, ScheduleCounted, EpochCounted, DaysCounted

LEMMA FiniteDates == IsFiniteSet(Dates) /\ Cardinality(Dates) = LastDay
<1>1. IsFiniteSet(1..LastDay) /\ Cardinality(1..LastDay) = IF 1 > LastDay THEN 0 ELSE LastDay - 1 + 1
  BY FS_Interval
<1> QED BY <1>1 DEF Dates

LEMMA FiniteCounts ==
  /\ IsFiniteSet(CountedDays) /\ \A a \in Dates : IsFiniteSet(CreditedDays(a))
  /\ IsFiniteSet(CountedDays') /\ Cardinality(CountedDays') <= LastDay
<1>1. CountedDays \in SUBSET Dates /\ \A a \in Dates : CreditedDays(a) \in SUBSET Dates
  BY CountsOf
<1>2. CountedDays' \in SUBSET Dates
  BY CountsNext
<1> QED BY <1>1, <1>2, FiniteDates, FS_Subset

\* The schedule's counter while no day comes to count or ceases to ...
LEMMA ScheduleKept ==
  ASSUME IInv, \A d \in Dates : Counts(d)' <=> Counts(d), UNCHANGED <<healthyDays, advancedOn>>
  PROVE  ScheduleCounted'
<1>1. CountedDays' = CountedDays
  BY CountsOf, CountsNext
<1> QED BY <1>1, CountedOf DEF ScheduleCounted

\* ... when a day after all the others comes to ...
LEMMA ScheduleAdvanced ==
  ASSUME IInv, NEW d \in Dates, ~Counts(d), Counts(d)',
         \A c \in Dates \ {d} : Counts(c)' <=> Counts(c),
         advancedOn # None => advancedOn < d,
         advancedOn' = d, healthyDays' = healthyDays + 1
  PROVE  ScheduleCounted' /\ healthyDays' \in 0..LastDay
<1>1. CountedDays' = CountedDays \cup {d} /\ d \notin CountedDays
  BY CountsOf, CountsNext
<1>2. Cardinality(CountedDays') = Cardinality(CountedDays) + 1
  BY <1>1, FiniteCounts, FS_AddElement
<1>3. ScheduleCounted
  BY CountedOf
<1>4. healthyDays' = Cardinality(CountedDays')
  BY <1>2, <1>3 DEF ScheduleCounted
<1>5. \A c \in CountedDays' : advancedOn' # None /\ c <= advancedOn'
  <2> SUFFICES ASSUME NEW c \in CountedDays' PROVE advancedOn' # None /\ c <= advancedOn'
    OBVIOUS
  <2>1. d # None /\ d \in Int
    BY DEF Dates
  <2>2. CASE c = d
    BY <2>1, <2>2
  <2>3. CASE c # d
    <3>1. c \in CountedDays /\ c \in Int
      BY <1>1, <2>3, CountsOf DEF Dates
    <3>2. advancedOn # None /\ c <= advancedOn /\ advancedOn < d
      BY <1>3, <3>1 DEF ScheduleCounted
    <3>3. advancedOn \in Int
      BY <3>2 DEF IInv, TypeOK, Dates
    <3> QED BY <2>1, <3>1, <3>2, <3>3
  <2> QED BY <2>2, <2>3
<1>6. healthyDays' \in 0..LastDay
  <2>1. healthyDays \in 0..LastDay
    BY DEF IInv, TypeOK
  <2>2. Cardinality(CountedDays') <= LastDay
    BY FiniteCounts
  <2> QED BY <1>4, <2>1, <2>2
<1> QED BY <1>4, <1>5, <1>6 DEF ScheduleCounted

\* ... and when one ceases to.
LEMMA ScheduleLost ==
  ASSUME IInv, NEW d \in Dates, Counts(d), ~Counts(d)',
         \A c \in Dates \ {d} : Counts(c)' <=> Counts(c),
         advancedOn' = advancedOn, healthyDays' = Less(healthyDays)
  PROVE  ScheduleCounted' /\ healthyDays' \in 0..LastDay
<1>1. CountedDays' = CountedDays \ {d} /\ d \in CountedDays
  BY CountsOf, CountsNext
<1>2. Cardinality(CountedDays') = Cardinality(CountedDays) - 1
  BY <1>1, FiniteCounts, FS_RemoveElement
<1>3. ScheduleCounted /\ healthyDays \in 0..LastDay
  BY CountedOf DEF IInv, TypeOK
<1>4. healthyDays # 0
  <2>1. CountedDays # {}
    BY <1>1
  <2>2. Cardinality(CountedDays) # 0
    BY <2>1, FiniteCounts, FS_EmptySet
  <2> QED BY <1>3, <2>2 DEF ScheduleCounted
<1>5. healthyDays' = healthyDays - 1
  BY <1>3, <1>4 DEF Less
<1>6. healthyDays' = Cardinality(CountedDays')
  BY <1>2, <1>3, <1>5 DEF ScheduleCounted
<1>7. \A c \in CountedDays' : advancedOn' # None /\ c <= advancedOn'
  BY <1>1, <1>3 DEF ScheduleCounted
<1>8. healthyDays' \in 0..LastDay
  BY <1>3, <1>4, <1>5
<1> QED BY <1>6, <1>7, <1>8 DEF ScheduleCounted

\* An epoch whose days stay, as assessInactivity left it.
LEMMA EpochKept ==
  ASSUME IInv, NEW es, Assessed(es, recovery'), NEW a \in Dates, epochs'[a] = es[a],
         CreditedDays(a)' = CreditedDays(a)
  PROVE  EpochCounted(a)'
<1>1. EpochCounted(a)
  BY CountedOf
<1>2. EpochSound(a)'
  BY DEF Assessed, EpochSound, Earned
<1>3. CASE epochs[a] # None
  <2>1. epochs'[a] = epochs[a]
    BY <1>3 DEF Assessed
  <2> QED BY <1>1, <1>2, <1>3, <2>1 DEF EpochCounted
<1>4. CASE epochs[a] = None
  <2>1. CreditedDays(a)' = {} /\ Cardinality(CreditedDays(a)') = 0
    BY <1>4, NoEpochNoDay
  <2>2. epochs'[a] # None => epochs'[a].qualifying = 0
    BY <1>4 DEF Assessed
  <2> QED BY <1>2, <2>1, <2>2 DEF EpochCounted
<1> QED BY <1>3, <1>4

\* A day keeps what it is credited to, or not to.
CreditKept(d) ==
  /\ Credits(d)' <=> Credits(d)
  /\ Credits(d) => days'[d].epoch = days[d].epoch

LEMMA CreditedStay ==
  ASSUME NEW a \in Dates, NEW c \in Dates,
         \A d \in Dates \ {c} : CreditKept(d),
         \/ CreditKept(c)
         \/ (Credits(c) => days[c].epoch # a) /\ (Credits(c)' => days'[c].epoch # a)
  PROVE  CreditedDays(a)' = CreditedDays(a)
<1>1. ASSUME NEW d \in Dates
      PROVE  Credits(d)' /\ days'[d].epoch = a <=> Credits(d) /\ days[d].epoch = a
  <2>1. CASE CreditKept(d)
    BY <2>1 DEF CreditKept
  <2>2. CASE d = c /\ ~CreditKept(d)
    BY <2>2 DEF Credits
  <2> QED BY <2>1, <2>2
<1>2. CreditedDays(a)' = {d \in Dates : Credits(d)' /\ days'[d].epoch = a}
  BY CountsNext
<1>3. CreditedDays(a) = {d \in Dates : Credits(d) /\ days[d].epoch = a}
  BY CountsOf
<1> QED BY ONLY <1>1, <1>2, <1>3

LEMMA EpochsKept ==
  ASSUME IInv, \A d \in Dates : CreditKept(d), Assessed(epochs', recovery')
  PROVE  \A a \in Dates : EpochCounted(a)'
<1> SUFFICES ASSUME NEW a \in Dates PROVE EpochCounted(a)'
  OBVIOUS
<1>1. CreditedDays(a)' = CreditedDays(a)
  BY CreditedStay
<1> QED BY <1>1, EpochKept

LEMMA KeptSound ==
  ASSUME IInv, \A d \in Dates : DayKept(d), Assessed(epochs', recovery'),
         UNCHANGED <<healthyDays, advancedOn>>
  PROVE  Sound'
<1>1. \A d \in Dates : (Counts(d)' <=> Counts(d)) /\ CreditKept(d)
  BY DEF DayKept, Counts, Credits, CreditKept
<1>2. ScheduleCounted'
  BY <1>1, ScheduleKept
<1>3. \A a \in Dates : EpochCounted(a)'
  BY <1>1, EpochsKept
<1>4. ASSUME NEW d \in Dates PROVE DaySound(d)'
  <2>1. Credits(d)' => days'[d].epoch \in Dates /\ epochs'[days'[d].epoch] # None
    BY <1>1 DEF CreditKept, IInv, DaySound, Assessed
  <2>2. days'[d] # None /\ ~days'[d].closed => ~days'[d].healthy /\ ~days'[d].credited
    BY DEF DayKept, IInv, DaySound
  <2> QED BY <2>1, <2>2 DEF DaySound, Credits
<1> QED BY <1>2, <1>3, <1>4, CountedNext

-----------------------------------------------------------------------------
(* A day comes to count for an epoch, or is taken back from one.           *)

\* What an epoch has counted, new or not.
LEMMA AssessedCount ==
  ASSUME IInv, NEW es, NEW r, Assessed(es, r), NEW a \in Dates, es[a] # None
  PROVE  /\ es[a] \in Epoch /\ es[a].qualifying \in Nat
         /\ es[a].qualifying = Cardinality(CreditedDays(a))
         /\ \A d \in CreditedDays(a) :
              es[a].qualifiedOn # None /\ es[a].started <= d /\ d <= es[a].qualifiedOn
<1>1. es[a] \in Epoch /\ es[a].qualifying \in Nat
  BY DEF Assessed, Epoch
<1>2. CASE epochs[a] # None
  <2>1. es[a] = epochs[a]
    BY <1>2 DEF Assessed
  <2>2. EpochCounted(a)
    BY CountedOf
  <2> QED BY <1>1, <1>2, <2>1, <2>2 DEF EpochCounted
<1>3. CASE epochs[a] = None
  <2>1. CreditedDays(a) = {} /\ Cardinality(CreditedDays(a)) = 0
    BY <1>3, NoEpochNoDay
  <2>2. es[a].qualifying = 0
    BY <1>3 DEF Assessed
  <2> QED BY <1>1, <2>1, <2>2
<1> QED BY <1>2, <1>3

LEMMA EpochAdvanced ==
  ASSUME IInv, NEW es, NEW r \in Dates, Assessed(es, r), es[r] # None,
         NEW d \in Dates, ~Credits(d), Credits(d)', days'[d].epoch = r,
         \A c \in Dates \ {d} : CreditKept(c),
         es[r].started <= d, es[r].qualifiedOn # None => es[r].qualifiedOn < d,
         epochs' = [es EXCEPT ![r] = Qualified(es[r], d)], recovery' = r
  PROVE  /\ \A a \in Dates : EpochCounted(a)'
         /\ epochs' \in [Dates -> Epoch \cup {None}]
         /\ \A a \in Dates : es[a] # None => epochs'[a] # None
<1> DEFINE f == Qualified(es[r], d)
<1>1. /\ es[r] \in Epoch /\ es[r].qualifying \in Nat
      /\ es[r].qualifying = Cardinality(CreditedDays(r))
      /\ \A c \in CreditedDays(r) :
           es[r].qualifiedOn # None /\ es[r].started <= c /\ c <= es[r].qualifiedOn
  BY AssessedCount
<1>2. /\ f \in Epoch /\ f.started = es[r].started /\ f.earned = es[r].earned
      /\ f.qualifying = es[r].qualifying + 1 /\ f.qualifiedOn = d
  <2> DEFINE on == IF (es[r].qualifying + 1) % StageDays = 0 THEN d ELSE es[r].stageOn
  <2>1. on \in Dates
    BY <1>1 DEF Epoch
  <2> HIDE DEF on
  <2> DEFINE more == es[r].qualifying + 1
  <2>2. more \in Nat /\ d \in Dates \cup {None}
    BY <1>1
  <2> HIDE DEF more
  <2>3. [es[r] EXCEPT !.qualifying = more, !.qualifiedOn = d, !.stageOn = on] \in Epoch
    BY <1>1, <2>1, <2>2 DEF Epoch
  <2>4. f = [es[r] EXCEPT !.qualifying = more, !.qualifiedOn = d, !.stageOn = on]
    BY DEF more, on, Qualified
  <2> QED BY <1>1, <2>3, <2>4 DEF Epoch, more
<1> HIDE DEF f
<1>3. f # None
  BY <1>2
<1>4. es \in [Dates -> Epoch \cup {None}] /\ Earned(es[r])
  BY DEF Assessed
<1>5. /\ epochs' \in [Dates -> Epoch \cup {None}]
      /\ epochs'[r] = f /\ \A a \in Dates \ {r} : epochs'[a] = es[a]
  BY <1>2, <1>4 DEF f
<1>6. ASSUME NEW a \in Dates, a # r PROVE EpochCounted(a)'
  <2>1. CreditedDays(a)' = CreditedDays(a)
    BY <1>6, CreditedStay
  <2>2. epochs'[a] = es[a] /\ Assessed(es, recovery')
    BY <1>5, <1>6
  <2> QED BY <2>1, <2>2, EpochKept
<1>7. EpochCounted(r)'
  <2>1. CreditedDays(r)' = CreditedDays(r) \cup {d} /\ d \notin CreditedDays(r)
    <3>1. CreditedDays(r)' = {c \in Dates : Credits(c)' /\ days'[c].epoch = r}
      BY CountsNext
    <3>2. CreditedDays(r) = {c \in Dates : Credits(c) /\ days[c].epoch = r}
      BY CountsOf
    <3>3. \A c \in Dates \ {d} : Credits(c)' /\ days'[c].epoch = r <=> Credits(c) /\ days[c].epoch = r
      BY DEF CreditKept
    <3> QED BY <3>1, <3>2, <3>3
  <2>2. Cardinality(CreditedDays(r)') = Cardinality(CreditedDays(r)) + 1
    BY <2>1, FiniteCounts, FS_AddElement
  <2>3. epochs'[r].qualifying = Cardinality(CreditedDays(r)')
    BY <1>1, <1>2, <1>5, <2>2
  <2>4. ASSUME NEW c \in CreditedDays(r)'
        PROVE  /\ epochs'[r] # None /\ epochs'[r].qualifiedOn # None
               /\ epochs'[r].started <= c /\ c <= epochs'[r].qualifiedOn
    <3>1. d # None /\ d \in Int
      BY DEF Dates
    <3>2. CASE c = d
      BY <1>2, <1>3, <1>5, <3>1, <3>2
    <3>3. CASE c # d
      <4>1. c \in CreditedDays(r) /\ c \in Int
        BY <2>1, <2>4, <3>3, CountsOf DEF Dates
      <4>2. es[r].qualifiedOn # None /\ es[r].started <= c /\ c <= es[r].qualifiedOn
        BY <1>1, <4>1
      <4>3. es[r].qualifiedOn \in Int /\ es[r].qualifiedOn < d
        <5>1. es[r].qualifiedOn \in Dates
          <6>1. es[r].qualifiedOn \in Dates \cup {None}
            BY <1>1 DEF Epoch
          <6> QED BY <4>2, <6>1
        <5> QED BY <4>2, <5>1 DEF Dates
      <4>4. c <= d
        BY ONLY <3>1, <4>1, <4>2, <4>3
      <4> QED BY <1>2, <1>3, <1>5, <3>1, <4>2, <4>4
    <3> QED BY <3>2, <3>3
  <2>5. EpochSound(r)'
    <3>1. r <= r /\ r # None
      BY DEF Dates
    <3> QED BY <1>2, <1>4, <1>5, <3>1 DEF EpochSound, Earned
  <2> QED BY <2>3, <2>4, <2>5 DEF EpochCounted
<1>8. \A a \in Dates : es[a] # None => epochs'[a] # None
  BY <1>3, <1>5
<1> QED BY <1>5, <1>6, <1>7, <1>8

LEMMA EpochLost ==
  ASSUME IInv, NEW es, Assessed(es, recovery'),
         NEW d \in Dates, Credits(d), ~Credits(d)',
         \A c \in Dates \ {d} : CreditKept(c),
         epochs' = [es EXCEPT ![days[d].epoch].qualifying = Less(@)]
  PROVE  /\ \A a \in Dates : EpochCounted(a)'
         /\ epochs' \in [Dates -> Epoch \cup {None}]
         /\ \A a \in Dates : es[a] # None =>
              /\ epochs'[a] # None /\ epochs'[a].earned = es[a].earned
              /\ epochs'[a].qualifying \in {es[a].qualifying, Less(es[a].qualifying)}
         /\ \A a \in Dates : epochs'[a] # None => es[a] # None
<1>1. PICK x \in Dates : x = days[d].epoch /\ epochs[x] # None
  BY DEF IInv, DaySound
<1>2. es[x] = epochs[x] /\ es[x] # None
  BY <1>1 DEF Assessed
<1>3. /\ es[x] \in Epoch /\ es[x].qualifying \in Nat
      /\ es[x].qualifying = Cardinality(CreditedDays(x))
      /\ \A c \in CreditedDays(x) :
           es[x].qualifiedOn # None /\ es[x].started <= c /\ c <= es[x].qualifiedOn
  BY <1>2, AssessedCount
<1> DEFINE f == [es[x] EXCEPT !.qualifying = Less(es[x].qualifying)]
<1>4. Less(es[x].qualifying) \in Nat
  BY <1>3, LessOf
<1>5. /\ f \in Epoch /\ f.started = es[x].started /\ f.earned = es[x].earned
      /\ f.qualifying = Less(es[x].qualifying) /\ f.qualifiedOn = es[x].qualifiedOn
  BY <1>3, <1>4 DEF Epoch
<1>6. es \in [Dates -> Epoch \cup {None}] /\ Earned(es[x]) /\ recovery' # None /\ x <= recovery'
  BY <1>2 DEF Assessed
<1>7. epochs' = [es EXCEPT ![x] = f]
  BY <1>1, <1>6
<1> HIDE DEF f
<1>8. f # None
  BY <1>5
<1>9. /\ epochs' \in [Dates -> Epoch \cup {None}]
      /\ epochs'[x] = f /\ \A a \in Dates \ {x} : epochs'[a] = es[a]
  BY <1>5, <1>6, <1>7
<1>10. ASSUME NEW a \in Dates, a # x PROVE EpochCounted(a)'
  <2>1. CreditedDays(a)' = CreditedDays(a)
    BY <1>1, <1>10, CreditedStay
  <2>2. epochs'[a] = es[a]
    BY <1>9, <1>10
  <2> QED BY <2>1, <2>2, EpochKept
<1>11. EpochCounted(x)'
  <2>1. CreditedDays(x)' = CreditedDays(x) \ {d} /\ d \in CreditedDays(x)
    <3>1. CreditedDays(x)' = {c \in Dates : Credits(c)' /\ days'[c].epoch = x}
      BY CountsNext
    <3>2. CreditedDays(x) = {c \in Dates : Credits(c) /\ days[c].epoch = x}
      BY CountsOf
    <3>3. \A c \in Dates \ {d} : Credits(c)' /\ days'[c].epoch = x <=> Credits(c) /\ days[c].epoch = x
      BY DEF CreditKept
    <3> QED BY <1>1, <3>1, <3>2, <3>3
  <2>2. Cardinality(CreditedDays(x)') = Cardinality(CreditedDays(x)) - 1
    BY <2>1, FiniteCounts, FS_RemoveElement
  <2>3. Cardinality(CreditedDays(x)) # 0
    BY <2>1, FiniteCounts, FS_EmptySet
  <2>4. Less(es[x].qualifying) = es[x].qualifying - 1
    BY <1>3, <2>3 DEF Less
  <2>5. epochs'[x].qualifying = Cardinality(CreditedDays(x)')
    BY <1>3, <1>5, <1>9, <2>2, <2>4
  <2>6. EpochSound(x)'
    BY <1>5, <1>6, <1>9 DEF EpochSound, Earned
  <2>7. \A c \in CreditedDays(x)' :
          /\ epochs'[x] # None /\ epochs'[x].qualifiedOn # None
          /\ epochs'[x].started <= c /\ c <= epochs'[x].qualifiedOn
    BY <1>3, <1>5, <1>8, <1>9, <2>1
  <2> QED BY <2>5, <2>6, <2>7 DEF EpochCounted
<1>12. \A a \in Dates : es[a] # None =>
         /\ epochs'[a] # None /\ epochs'[a].earned = es[a].earned
         /\ epochs'[a].qualifying \in {es[a].qualifying, Less(es[a].qualifying)}
  BY <1>5, <1>8, <1>9
<1>13. \A a \in Dates : epochs'[a] # None => es[a] # None
  BY <1>2, <1>9
<1> QED BY <1>9, <1>10, <1>11, <1>12, <1>13

-----------------------------------------------------------------------------
(* What a step must show.                                                  *)

CapNow == CapOf(healthyDays, lowered, raised, EpochOf(recovery, epochs))

ClosesHealthy ==
  \E d \in Dates : days[d] # None /\ ~days[d].closed /\ days'[d].closed /\ days'[d].healthy

Earns == CapNow' > CapNow => commands' > commands \/ ClosesHealthy

VerdictStays(d) ==
  days[d] # None /\ days[d].closed => days'[d].closed /\ (days'[d].healthy => days[d].healthy)

\* The types apart from the counters, the epochs and the days.
Rest ==
  /\ today \in Dates /\ active \in Dates /\ active <= today
  /\ lowered \in Lowerings \cup {None} /\ raised \in Raises \cup {None}
  /\ precheck \in Precheck \cup {None}
  /\ sends \in 0..MaxSends /\ races \in 0..MaxRaces
  /\ signals \in 0..MaxSignals /\ commands \in 0..MaxCommands

DaysTyped ==
  /\ days \in [Dates -> Day \cup {None}]
  /\ \A d \in Dates : days[d] # None => days[d].sent <= days[d].granted

RampTyped ==
  /\ healthyDays \in 0..LastDay /\ advancedOn \in Dates \cup {None}
  /\ epochs \in [Dates -> Epoch \cup {None}]
  /\ recovery \in {None} \cup {a \in Dates : epochs[a] # None}

LEMMA Parts == IInv <=> Rest /\ DaysTyped /\ RampTyped /\ Sound
  BY DEF IInv, TypeOK, Rest, DaysTyped, RampTyped, Sound

LEMMA PartsNext == Rest' /\ DaysTyped' /\ RampTyped' /\ Sound' => IInv'
  BY DEF IInv, TypeOK, Rest, DaysTyped, RampTyped, Sound

\* An epoch stays, opens without a day, or loses one.
Ebbs(e, f) ==
  \/ f = e
  \/ /\ f # None
     /\ \/ f.qualifying = 0
        \/ e # None /\ f.earned = e.earned /\ f.qualifying \in {e.qualifying, Less(e.qualifying)}

LEMMA PointedNow ==
  ASSUME IInv
  PROVE  /\ EpochOf(recovery, epochs) \in Epoch \cup {None}
         /\ EpochOf(recovery, epochs) # None => Earned(EpochOf(recovery, epochs))
         /\ CapNow \in Nat
<1>1. Assessed(epochs, recovery)
  BY RampStays
<1>2. /\ EpochOf(recovery, epochs) \in Epoch \cup {None}
      /\ EpochOf(recovery, epochs) # None => Earned(EpochOf(recovery, epochs))
  BY <1>1, PointedAt
<1>3. CapNow \in Nat
  BY <1>2, CapIsNat DEF CapNow, IInv, TypeOK
<1> QED BY <1>2, <1>3

\* The cap of the next state is computed from the next state's row and epoch.
LEMMA CapNext == CapNow' = CapOf(healthyDays', lowered', raised', EpochOf(recovery', epochs'))
  BY DEF CapNow, CapOf, EpochOf, Recovering, RequiredDays, StageCap, StageIndex, Lesser

LEMMA NoRise ==
  ASSUME IInv, RampTyped', Sound', UNCHANGED <<lowered, raised>>, healthyDays' <= healthyDays,
         Ebbs(EpochOf(recovery, epochs), EpochOf(recovery', epochs'))
  PROVE  Earns
<1> DEFINE e == EpochOf(recovery, epochs)
           f == EpochOf(recovery', epochs')
<1>1. e \in Epoch \cup {None} /\ (e # None => Earned(e)) /\ CapNow \in Nat
  BY PointedNow
<1>2. f \in Epoch \cup {None} /\ (f # None => Earned(f))
  <2>1. recovery' \in {None} \cup {a \in Dates : epochs'[a] # None}
    BY DEF RampTyped
  <2>2. recovery' # None => epochs'[recovery'] \in Epoch /\ Earned(epochs'[recovery'])
    <3> SUFFICES ASSUME recovery' # None PROVE epochs'[recovery'] \in Epoch /\ Earned(epochs'[recovery'])
      OBVIOUS
    <3>1. recovery' \in Dates /\ epochs'[recovery'] # None
      BY <2>1
    <3>2. \A a \in Dates : EpochSound(a)'
      BY DEF Sound
    <3>3. Earned(epochs'[recovery'])
      BY <3>1, <3>2 DEF EpochSound, Earned
    <3> QED BY <3>1, <3>3 DEF RampTyped
  <2> QED BY <2>2 DEF EpochOf
<1>3. Recovering(e) => Recovering(f) /\ StageCap(f) <= StageCap(e)
  <2>1. CASE f = e
    <3>1. Recovering(e) => StageCap(e) \in Nat
      BY <1>1, StageCapOf DEF Recovering
    <3> HIDE DEF e, f
    <3> QED BY <2>1, <3>1
  <2>2. CASE f # e
    <3>1. /\ f # None
          /\ \/ f.qualifying = 0
             \/ e # None /\ f.earned = e.earned /\ f.qualifying \in {e.qualifying, Less(e.qualifying)}
      BY <2>2 DEF Ebbs
    <3>2. f \in Epoch /\ Earned(f)
      BY <1>2, <3>1
    <3> HIDE DEF e, f
    <3> QED BY <1>1, <3>1, <3>2, EpochFalls
  <2> QED BY <2>1, <2>2
<1> HIDE DEF e, f
<1>4. /\ healthyDays \in 0..LastDay /\ healthyDays' \in 0..healthyDays
      /\ lowered \in Lowerings \cup {None} /\ raised \in Raises \cup {None}
  BY DEF IInv, TypeOK, RampTyped
<1>5. CapOf(healthyDays', lowered, raised, f) <= CapOf(healthyDays, lowered, raised, e)
  BY <1>1, <1>2, <1>3, <1>4, CapFalls
<1>6. CapNow' <= CapNow
  BY <1>5, CapNext DEF CapNow, e, f
<1>7. CapNow' \in Nat
  <2>1. healthyDays' \in 0..LastDay
    BY <1>4
  <2> QED BY <1>2, <1>4, <2>1, CapIsNat, CapNext DEF f
<1> QED BY <1>1, <1>6, <1>7 DEF Earns

LEMMA AssessedEbbs ==
  ASSUME IInv, Assessed(epochs', recovery')
  PROVE  Ebbs(EpochOf(recovery, epochs), EpochOf(recovery', epochs'))
<1>1. CASE recovery' = recovery
  BY <1>1 DEF Assessed, Ebbs
<1>2. CASE recovery' # recovery
  <2>1. recovery' \in Dates /\ epochs[recovery'] = None /\ epochs'[recovery'] # None
    BY <1>2, NullAssumption DEF Assessed, Dates
  <2>2. epochs'[recovery'].qualifying = 0
    BY <2>1 DEF Assessed
  <2>3. recovery' # None
    BY <2>1 DEF Dates
  <2> QED BY <2>1, <2>2, <2>3 DEF Ebbs, EpochOf
<1> QED BY <1>1, <1>2

\* A step that judges no day and takes none back, whatever it does to the day rows.
LEMMA QuietStep ==
  ASSUME IInv, Rest', DaysTyped', \A d \in Dates : DayKept(d), Assessed(epochs', recovery'),
         UNCHANGED <<healthyDays, advancedOn>>,
         commands' > commands \/ UNCHANGED <<lowered, raised>>
  PROVE  IInv' /\ Earns /\ \A d \in Dates : VerdictStays(d)
<1>1. Sound'
  BY KeptSound
<1>2. RampTyped'
  BY DEF Assessed, RampTyped, IInv, TypeOK
<1>3. Earns
  <2>1. CASE commands' > commands
    BY <2>1 DEF Earns
  <2>2. CASE UNCHANGED <<lowered, raised>>
    <3>1. healthyDays' <= healthyDays
      BY DEF IInv, TypeOK
    <3> QED BY <1>1, <1>2, <2>2, <3>1, AssessedEbbs, NoRise
  <2> QED BY <2>1, <2>2
<1>4. \A d \in Dates : VerdictStays(d)
  BY DEF DayKept, VerdictStays
<1> QED BY <1>1, <1>2, <1>3, <1>4, PartsNext

-----------------------------------------------------------------------------
(* The commands, the gate and the count.                                   *)

LEMMA Limits ==
  LastDay \in Nat /\ MaxSends \in Nat /\ MaxRaces \in Nat /\ MaxSignals \in Nat /\ MaxCommands \in Nat
  BY RampAssumption

LEMMA OneMore ==
  ASSUME NEW m \in Nat, NEW c \in 0..m, c < m
  PROVE  c + 1 \in 0..m /\ c + 1 > c
  OBVIOUS

HIDE RampAssumption
HIDE StagesAssumption
HIDE LadderAssumption

\* What every action is shown to do.
Kept == IInv' /\ Earns /\ \A d \in Dates : VerdictStays(d)

LEMMA EnsureSound ==
  ASSUME IInv, NEW now \in Dates, Ensure(now)
  PROVE  Assessed(epochs', recovery')
  BY AssessedSound DEF Ensure

LEMMA Yesterday == ASSUME IInv PROVE today \in Dates /\ today \in Nat /\ Dates \subseteq Nat
  BY DEF IInv, TypeOK, Dates

\* A command of an admin.
LEMMA CommandKeeps ==
  ASSUME IInv, commands < MaxCommands, commands' = commands + 1, Ensure(today),
         lowered' \in Lowerings \cup {None}, raised' \in Raises \cup {None},
         UNCHANGED <<today, active, healthyDays, advancedOn, days, precheck, sends, races, signals>>
  PROVE  Kept
<1>1. Assessed(epochs', recovery')
  BY Yesterday, EnsureSound
<1>2. commands \in 0..MaxCommands /\ commands' \in 0..MaxCommands /\ commands' > commands
  <2>1. commands \in 0..MaxCommands
    BY Parts DEF Rest
  <2> QED BY <2>1, Limits, OneMore
<1>3. Rest'
  BY <1>2, Parts DEF Rest
<1>4. DaysTyped' /\ \A d \in Dates : DayKept(d)
  BY Parts DEF DaysTyped, DayKept
<1> QED BY <1>1, <1>2, <1>3, <1>4, QuietStep DEF Kept

LEMMA SetAdminCapKeeps ==
  ASSUME IInv, NEW low \in Lowerings \cup {None, lowered}, NEW high \in Raises \cup {None, raised},
         SetAdminCap(low, high)
  PROVE  Kept
<1>1. lowered \in Lowerings \cup {None} /\ raised \in Raises \cup {None}
  BY Parts DEF Rest
<1> QED BY <1>1, CommandKeeps DEF SetAdminCap

LEMMA OverrideRaiseKeeps ==
  ASSUME IInv, NEW high \in Raises \cup {None}, OverrideRaise(high)
  PROVE  Kept
<1>1. lowered \in Lowerings \cup {None}
  BY Parts DEF Rest
<1> QED BY <1>1, CommandKeeps DEF OverrideRaise

\* A step that may assess the inactivity, and leaves the days and the caps alone.
LEMMA AssessKeeps ==
  ASSUME IInv, Rest', Assessed(epochs', recovery'),
         UNCHANGED <<healthyDays, advancedOn, lowered, raised, days>>
  PROVE  Kept
<1>1. DaysTyped' /\ \A d \in Dates : DayKept(d)
  BY Parts DEF DaysTyped, DayKept
<1> QED BY <1>1, QuietStep DEF Kept

LEMMA ReadStandingKeeps ==
  ASSUME IInv, ReadStanding
  PROVE  Kept
<1>1. Assessed(epochs', recovery')
  BY Yesterday, EnsureSound DEF ReadStanding
<1>2. Rest'
  BY Parts DEF Rest, ReadStanding, bounds
<1> QED BY <1>1, <1>2, AssessKeeps DEF ReadStanding

LEMMA PrecheckCapKeeps ==
  ASSUME IInv, NEW d \in Dates, PrecheckCap(d)
  PROVE  Kept
<1>1. Assessed(epochs', recovery')
  BY EnsureSound DEF PrecheckCap
<1>2. EffectiveCap(d) \in Nat
  BY EffectiveOf
<1>3. precheck' \in Precheck
  BY <1>2 DEF PrecheckCap, Precheck
<1>4. races \in 0..MaxRaces /\ races' \in 0..MaxRaces
  <2>1. races \in 0..MaxRaces
    BY Parts DEF Rest
  <2> QED BY <2>1, Limits, OneMore DEF PrecheckCap, Race
<1>5. Rest'
  BY <1>3, <1>4, Parts DEF Rest, PrecheckCap
<1> QED BY <1>1, <1>5, AssessKeeps DEF PrecheckCap

\* A day of the table, opened or found.
LEMMA OpenedDay ==
  ASSUME DaysTyped, NEW d \in Dates, NEW cap \in Nat, NEW r \in Dates \cup {None},
         NEW e \in Epoch \cup {None}
  PROVE  LET row == Opened(d, cap, r, e) IN
         /\ row \in Day /\ row # None
         /\ row.sent <= row.granted /\ cap <= row.granted
         /\ days[d] # None => /\ row.closed = days[d].closed /\ row.healthy = days[d].healthy
                              /\ row.credited = days[d].credited /\ row.epoch = days[d].epoch
         /\ days[d] = None => ~row.closed /\ ~row.healthy /\ ~row.credited
<1> DEFINE row == Opened(d, cap, r, e)
<1>1. CASE days[d] = None
  <2> DEFINE stage == IF e = None THEN 0 ELSE StageIndex(e.qualifying)
             kept == IF e = None THEN 0 ELSE cap
  <2>1. stage \in 0..LastStage
    BY StageCapOf, StagesAssumption
  <2>2. kept \in Nat
    OBVIOUS
  <2> HIDE DEF stage, kept
  <2>3. row = [sent |-> 0, granted |-> cap, unsettled |-> 0, adverse |-> FALSE,
               closed |-> FALSE, healthy |-> FALSE, credited |-> FALSE,
               epoch |-> r, stage |-> stage, cap |-> kept]
    BY <1>1 DEF Opened, NewDay, stage, kept
  <2> HIDE DEF row
  <2>4. row \in Day
    BY <2>1, <2>2, <2>3 DEF Day
  <2>5. row.sent = 0 /\ row.granted = cap /\ ~row.closed /\ ~row.healthy /\ ~row.credited
    BY <2>3
  <2> QED BY <1>1, <2>4, <2>5, NullAssumption DEF row
<1>2. CASE days[d] # None
  <2>1. days[d] \in Day /\ days[d].sent \in Nat /\ days[d].granted \in Nat
        /\ days[d].sent <= days[d].granted
    BY <1>2 DEF DaysTyped, Day
  <2> DEFINE more == Granted(days[d].granted, cap)
  <2>2. more \in Nat /\ cap <= more /\ days[d].granted <= more
    BY <2>1 DEF Granted
  <2>3. row = [days[d] EXCEPT !.granted = more]
    BY <1>2 DEF Opened
  <2> HIDE DEF more, row
  <2>4. /\ row \in Day /\ row.granted = more /\ row.sent = days[d].sent
        /\ row.closed = days[d].closed /\ row.healthy = days[d].healthy
        /\ row.credited = days[d].credited /\ row.epoch = days[d].epoch
    BY <2>1, <2>2, <2>3 DEF Day
  <2> QED BY <1>2, <2>1, <2>2, <2>4, NullAssumption DEF row
<1> QED BY <1>1, <1>2

\* A day row is written, and no verdict with it.
LEMMA DayWritten ==
  ASSUME IInv, NEW d \in Dates, NEW row \in Day, days' = [days EXCEPT ![d] = row],
         row.sent <= row.granted,
         days[d] # None => /\ row.closed = days[d].closed /\ row.healthy = days[d].healthy
                           /\ row.credited = days[d].credited /\ row.epoch = days[d].epoch,
         days[d] = None => ~row.closed /\ ~row.healthy /\ ~row.credited
  PROVE  DaysTyped' /\ \A c \in Dates : DayKept(c)
<1>1. days \in [Dates -> Day \cup {None}] /\ DaysTyped
  BY Parts DEF DaysTyped
<1>2. /\ days' \in [Dates -> Day \cup {None}] /\ days'[d] = row
      /\ \A c \in Dates \ {d} : days'[c] = days[c]
  BY <1>1
<1>3. row # None
  BY NullAssumption
<1>4. DaysTyped'
  BY <1>1, <1>2 DEF DaysTyped
<1>5. \A c \in Dates : DayKept(c)
  BY <1>2, <1>3 DEF DayKept
<1> QED BY <1>4, <1>5

LEMMA PrecheckOpenKeeps ==
  ASSUME IInv, PrecheckOpen
  PROVE  Kept
<1>1. precheck \in Precheck /\ precheck.date \in Dates /\ precheck.cap \in Nat
  BY Parts DEF PrecheckOpen, Rest, Precheck
<1> DEFINE row == Opened(precheck.date, precheck.cap, recovery, EpochOf(recovery, epochs))
<1>2. EpochOf(recovery, epochs) \in Epoch \cup {None}
  BY PointedNow
<1>3. recovery \in Dates \cup {None} /\ DaysTyped
  BY Parts DEF RampTyped
<1>4. /\ row \in Day /\ row.sent <= row.granted
      /\ days[precheck.date] # None =>
           /\ row.closed = days[precheck.date].closed /\ row.healthy = days[precheck.date].healthy
           /\ row.credited = days[precheck.date].credited /\ row.epoch = days[precheck.date].epoch
      /\ days[precheck.date] = None => ~row.closed /\ ~row.healthy /\ ~row.credited
  BY <1>1, <1>2, <1>3, OpenedDay
<1>5. days' = [days EXCEPT ![precheck.date] = row]
  BY DEF PrecheckOpen
<1> HIDE DEF row
<1>6. DaysTyped' /\ \A c \in Dates : DayKept(c)
  BY <1>1, <1>4, <1>5, DayWritten
<1>7. Rest'
  BY Parts DEF Rest, PrecheckOpen, bounds, ramp
<1>8. Assessed(epochs', recovery')
  BY RampStays DEF PrecheckOpen, ramp
<1> QED BY <1>6, <1>7, <1>8, QuietStep DEF Kept, PrecheckOpen, ramp

LEMMA DropPrecheckKeeps ==
  ASSUME IInv, DropPrecheck
  PROVE  Kept
<1>1. Rest'
  BY Parts DEF Rest, DropPrecheck, bounds, ramp
<1>2. Assessed(epochs', recovery')
  BY RampStays DEF DropPrecheck, ramp
<1> QED BY <1>1, <1>2, AssessKeeps DEF DropPrecheck, ramp

LEMMA ClaimKeeps ==
  ASSUME IInv, NEW d \in Dates, Claim(d)
  PROVE  Kept
<1> DEFINE cap == EffectiveCap(d)
           row == Opened(d, cap, AssessedRecovery(d), Current(d))
<1>1. /\ cap \in Nat /\ Current(d) \in Epoch \cup {None}
      /\ AssessedRecovery(d) \in Dates \cup {None} /\ DaysTyped
  BY EffectiveOf, Parts
<1>2. /\ row \in Day /\ row.sent <= row.granted /\ cap <= row.granted
      /\ days[d] # None => /\ row.closed = days[d].closed /\ row.healthy = days[d].healthy
                           /\ row.credited = days[d].credited /\ row.epoch = days[d].epoch
      /\ days[d] = None => ~row.closed /\ ~row.healthy /\ ~row.credited
  <2> DEFINE r == AssessedRecovery(d)
             e == Current(d)
  <2> HIDE DEF cap, r, e
  <2>1. /\ cap \in Nat /\ e \in Epoch \cup {None} /\ r \in Dates \cup {None} /\ DaysTyped
    BY <1>1 DEF r, e
  <2>2. /\ Opened(d, cap, r, e) \in Day
        /\ Opened(d, cap, r, e).sent <= Opened(d, cap, r, e).granted
        /\ cap <= Opened(d, cap, r, e).granted
        /\ days[d] # None => /\ Opened(d, cap, r, e).closed = days[d].closed
                             /\ Opened(d, cap, r, e).healthy = days[d].healthy
                             /\ Opened(d, cap, r, e).credited = days[d].credited
                             /\ Opened(d, cap, r, e).epoch = days[d].epoch
        /\ days[d] = None => /\ ~Opened(d, cap, r, e).closed
                             /\ ~Opened(d, cap, r, e).healthy
                             /\ ~Opened(d, cap, r, e).credited
    BY <2>1, OpenedDay
  <2> QED BY <2>2 DEF r, e
<1>3. IF row.sent < cap
      THEN /\ sends < MaxSends
           /\ days' = [days EXCEPT ![d] = [row EXCEPT !.sent = @ + 1, !.unsettled = @ + 1]]
           /\ sends' = sends + 1
      ELSE days' = [days EXCEPT ![d] = row] /\ sends' = sends
  BY DEF Claim
<1>4. Assessed(epochs', recovery')
  BY EnsureSound DEF Claim
<1> HIDE DEF cap, row
<1>5. DaysTyped' /\ \A c \in Dates : DayKept(c)
  <2>1. CASE row.sent < cap
    <3> DEFINE counted == [row EXCEPT !.sent = row.sent + 1, !.unsettled = row.unsettled + 1]
    <3>1. /\ row.sent \in Nat /\ row.unsettled \in Nat /\ row.granted \in Nat
      BY <1>2 DEF Day
    <3>2. row.sent + 1 \in Nat /\ row.unsettled + 1 \in Nat /\ row.sent + 1 <= row.granted
      BY ONLY <1>1, <1>2, <2>1, <3>1
    <3>3. /\ counted \in Day /\ counted.sent = row.sent + 1 /\ counted.granted = row.granted
          /\ counted.closed = row.closed /\ counted.healthy = row.healthy
          /\ counted.credited = row.credited /\ counted.epoch = row.epoch
      BY <1>2, <3>2 DEF Day
    <3>4. days' = [days EXCEPT ![d] = counted]
      BY <1>3, <2>1
    <3> HIDE DEF counted
    <3>5. /\ days[d] # None => /\ counted.closed = days[d].closed /\ counted.healthy = days[d].healthy
                               /\ counted.credited = days[d].credited /\ counted.epoch = days[d].epoch
          /\ days[d] = None => ~counted.closed /\ ~counted.healthy /\ ~counted.credited
          /\ counted.sent <= counted.granted
      BY <1>2, <3>2, <3>3
    <3> QED BY <3>3, <3>4, <3>5, DayWritten
  <2>2. CASE ~(row.sent < cap)
    <3>1. days' = [days EXCEPT ![d] = row]
      BY <1>3, <2>2
    <3> QED BY <1>2, <3>1, DayWritten
  <2> QED BY <2>1, <2>2
<1>6. sends \in 0..MaxSends /\ sends' \in 0..MaxSends
  <2>1. sends \in 0..MaxSends
    BY Parts DEF Rest
  <2> QED BY <1>3, <2>1, Limits, OneMore
<1>7. races \in 0..MaxRaces /\ races' \in 0..MaxRaces
  <2>1. races \in 0..MaxRaces
    BY Parts DEF Rest
  <2>2. races' = races \/ (races < MaxRaces /\ races' = races + 1)
    BY DEF Claim, Race
  <2> QED BY <2>1, <2>2, Limits, OneMore
<1>8. Rest'
  BY <1>6, <1>7, Parts DEF Rest, Claim
<1> QED BY <1>4, <1>5, <1>8, QuietStep DEF Kept, Claim

LEMMA SendRecordedKeeps ==
  ASSUME IInv, NEW d \in Dates, SendRecorded(d)
  PROVE  Kept
<1>1. DaysTyped /\ Rest
  BY Parts
<1>2. days[d] \in Day /\ days[d].unsettled \in Nat /\ days[d].unsettled > 0 /\ days[d] # None
      /\ days[d].sent <= days[d].granted
  BY <1>1 DEF SendRecorded, DaysTyped, Day
<1> DEFINE left == days[d].unsettled - 1
           row == [days[d] EXCEPT !.unsettled = left]
<1>3. left \in Nat
  BY <1>2
<1>4. days' = [days EXCEPT ![d] = row]
  BY <1>1 DEF SendRecorded, DaysTyped
<1> HIDE DEF left
<1>5. /\ row \in Day /\ row.sent = days[d].sent /\ row.granted = days[d].granted
      /\ row.closed = days[d].closed /\ row.healthy = days[d].healthy
      /\ row.credited = days[d].credited /\ row.epoch = days[d].epoch
  BY <1>2, <1>3 DEF Day
<1> HIDE DEF row
<1>6. DaysTyped' /\ \A c \in Dates : DayKept(c)
  BY <1>2, <1>4, <1>5, DayWritten
<1>7. active' \in Dates /\ active' <= today
  <2>1. PICK at \in d..today : active' = IF at > active THEN at ELSE active
    BY DEF SendRecorded
  <2>2. at \in Dates /\ at <= today
    BY <1>1, <2>1, Limits DEF Rest, Dates
  <2> QED BY <1>1, <2>1, <2>2 DEF Rest, Dates
<1>8. Rest'
  BY <1>1, <1>7 DEF Rest, SendRecorded, bounds, ramp
<1>9. Assessed(epochs', recovery')
  BY RampStays DEF SendRecorded, ramp
<1> QED BY <1>6, <1>8, <1>9, QuietStep DEF Kept, SendRecorded, ramp

LEMMA OutsideKeeps ==
  ASSUME IInv, DirectSend \/ Tick
  PROVE  Kept
<1>1. Rest /\ Assessed(epochs, recovery)
  BY Parts, RampStays
<1>2. CASE DirectSend
  <2>1. Rest'
    BY <1>1, <1>2, Limits DEF Rest, DirectSend, bounds, ramp, Dates
  <2> QED BY <1>1, <1>2, <2>1, AssessKeeps DEF DirectSend, ramp
<1>3. CASE Tick
  <2>1. today' \in Dates /\ active <= today'
    BY <1>1, <1>3, Limits DEF Rest, Tick, Dates
  <2>2. Rest'
    BY <1>1, <1>3, <2>1 DEF Rest, Tick, bounds, ramp
  <2> QED BY <1>1, <1>3, <2>2, AssessKeeps DEF Tick, ramp
<1> QED BY <1>2, <1>3

-----------------------------------------------------------------------------
(* The close.                                                              *)

\* closeSendDay, by its verdict and by what the verdict counts for.
LEMMA CloseCases ==
  ASSUME NEW d \in Dates, CloseDay(d)
  PROVE  /\ days[d] # None /\ UNCHANGED <<today, active, lowered, raised, precheck, bounds>>
         /\ \/ days[d].closed /\ Ensure(today) /\ UNCHANGED <<days, healthyDays, advancedOn>>
            \/ /\ ~days[d].closed
               /\ \E good \in BOOLEAN, credit \in BOOLEAN :
                    /\ credit => good /\ Recovering(Current(today))
                    /\ good /\ ~credit => ~Recovering(Current(today))
                    /\ good => ~OutOfStage(d, Current(today)) /\ ~OutOfOrder(d, Current(today))
                    /\ days' = [days EXCEPT ![d].closed = TRUE, ![d].healthy = good,
                                            ![d].credited = credit]
                    /\ recovery' = AssessedRecovery(today)
                    /\ epochs' = IF credit
                                 THEN [AssessedEpochs(today) EXCEPT
                                         ![AssessedRecovery(today)] = Qualified(Current(today), d)]
                                 ELSE AssessedEpochs(today)
                    /\ healthyDays' = IF good /\ ~credit THEN healthyDays + 1 ELSE healthyDays
                    /\ advancedOn' = IF good /\ ~credit THEN d ELSE advancedOn
<1>1. days[d] # None /\ UNCHANGED <<today, active, lowered, raised, precheck, bounds>>
  BY DEF CloseDay
<1>2. CASE days[d].closed
  BY <1>1, <1>2 DEF CloseDay, Judged
<1>3. CASE ~days[d].closed
  <2>1. PICK fit \in BOOLEAN :
          LET e == Current(today)
              r == AssessedRecovery(today)
              good == Healthy(d, fit, e)
              credit == good /\ Recovering(e) IN
          /\ days' = [days EXCEPT ![d].closed = TRUE, ![d].healthy = good, ![d].credited = credit]
          /\ recovery' = r
          /\ epochs' = IF credit THEN [AssessedEpochs(today) EXCEPT ![r] = Qualified(e, d)]
                       ELSE AssessedEpochs(today)
          /\ healthyDays' = IF good /\ ~credit THEN healthyDays + 1 ELSE healthyDays
          /\ advancedOn' = IF good /\ ~credit THEN d ELSE advancedOn
    BY <1>3 DEF CloseDay, Judged
  <2> DEFINE good == Healthy(d, fit, Current(today))
             credit == good /\ Recovering(Current(today))
  <2>2. good \in BOOLEAN /\ credit \in BOOLEAN
    BY DEF Healthy
  <2>3. good => ~OutOfStage(d, Current(today)) /\ ~OutOfOrder(d, Current(today))
    BY DEF Healthy
  <2>4. (credit => good /\ Recovering(Current(today))) /\ (good /\ ~credit => ~Recovering(Current(today)))
    OBVIOUS
  <2>5. /\ days' = [days EXCEPT ![d].closed = TRUE, ![d].healthy = good, ![d].credited = credit]
        /\ recovery' = AssessedRecovery(today)
        /\ epochs' = IF credit
                     THEN [AssessedEpochs(today) EXCEPT
                             ![AssessedRecovery(today)] = Qualified(Current(today), d)]
                     ELSE AssessedEpochs(today)
        /\ healthyDays' = IF good /\ ~credit THEN healthyDays + 1 ELSE healthyDays
        /\ advancedOn' = IF good /\ ~credit THEN d ELSE advancedOn
    BY <2>1
  <2> HIDE DEF good, credit
  <2> QED BY <1>1, <1>3, <2>2, <2>3, <2>4, <2>5
<1> QED BY <1>2, <1>3

\* The row of a closing day, and what that makes it count for.
LEMMA ClosedRow ==
  ASSUME IInv, NEW d \in Dates, days[d] # None, ~days[d].closed,
         NEW good \in BOOLEAN, NEW credit \in BOOLEAN,
         days' = [days EXCEPT ![d].closed = TRUE, ![d].healthy = good, ![d].credited = credit]
  PROVE  /\ DaysTyped'
         /\ days'[d] # None /\ days'[d].closed /\ days'[d].epoch = days[d].epoch
         /\ days'[d].healthy <=> good
         /\ \A c \in Dates \ {d} : days'[c] = days[c]
         /\ ~Counts(d) /\ ~Credits(d)
         /\ Counts(d)' <=> good /\ ~credit
         /\ Credits(d)' <=> good /\ credit
         /\ \A c \in Dates \ {d} : (Counts(c)' <=> Counts(c)) /\ CreditKept(c)
         /\ \A c \in Dates : VerdictStays(c)
<1> DEFINE row == [days[d] EXCEPT !.closed = TRUE, !.healthy = good, !.credited = credit]
<1>1. days \in [Dates -> Day \cup {None}] /\ DaysTyped /\ days[d] \in Day
  BY Parts DEF DaysTyped
<1>2. row \in Day
  BY <1>1 DEF Day
<1>3. /\ row.closed = TRUE /\ row.healthy = good /\ row.credited = credit
      /\ row.epoch = days[d].epoch /\ row.sent = days[d].sent /\ row.granted = days[d].granted
  BY <1>1 DEF Day
<1>4. days' = [days EXCEPT ![d] = row]
  BY <1>1
<1> HIDE DEF row
<1>5. /\ days' \in [Dates -> Day \cup {None}] /\ days'[d] = row
      /\ \A c \in Dates \ {d} : days'[c] = days[c]
  BY <1>1, <1>2, <1>4
<1>6. row # None
  BY <1>2, NullAssumption
<1>7. DaysTyped'
  BY <1>1, <1>3, <1>5 DEF DaysTyped
<1>8. ~Counts(d) /\ ~Credits(d)
  BY DEF Counts, Credits
<1>9. (Counts(d)' <=> good /\ ~credit) /\ (Credits(d)' <=> good /\ credit)
  BY <1>3, <1>5, <1>6 DEF Counts, Credits
<1>10. \A c \in Dates \ {d} : (Counts(c)' <=> Counts(c)) /\ CreditKept(c) /\ VerdictStays(c)
  BY <1>5 DEF Counts, Credits, CreditKept, VerdictStays
<1>11. VerdictStays(d)
  BY DEF VerdictStays
<1>12. days'[d] # None /\ days'[d].closed /\ days'[d].epoch = days[d].epoch /\ (days'[d].healthy <=> good)
  BY <1>3, <1>5, <1>6
<1> QED BY <1>5, <1>7, <1>8, <1>9, <1>10, <1>11, <1>12

\* The verdicts of the next state, when one day row was written.
LEMMA VerdictsNext ==
  ASSUME IInv, NEW d \in Dates, \A c \in Dates \ {d} : days'[c] = days[c],
         days'[d] # None /\ ~days'[d].closed => ~days'[d].healthy /\ ~days'[d].credited,
         Credits(d)' => days'[d].epoch \in Dates /\ epochs'[days'[d].epoch] # None,
         \A a \in Dates : epochs[a] # None => epochs'[a] # None
  PROVE  \A c \in Dates : DaySound(c)'
<1> SUFFICES ASSUME NEW c \in Dates PROVE DaySound(c)'
  OBVIOUS
<1>1. CASE c = d
  BY <1>1 DEF DaySound, Credits
<1>2. CASE c # d
  <2>1. days'[c] = days[c] /\ DaySound(c)
    BY <1>2 DEF IInv
  <2> QED BY <2>1 DEF DaySound, Credits
<1> QED BY <1>1, <1>2

LEMMA CloseDayKeeps ==
  ASSUME IInv, NEW d \in Dates, CloseDay(d)
  PROVE  Kept
<1>1. days[d] # None /\ UNCHANGED <<today, active, lowered, raised, precheck, bounds>>
  BY CloseCases
<1>2. Rest'
  BY <1>1, Parts DEF Rest, bounds
<1> DEFINE e == Current(today)
           r == AssessedRecovery(today)
           es == AssessedEpochs(today)
<1>3. today \in Dates /\ Assessed(es, r)
  BY AssessedSound, Parts DEF Rest
<1>4. e = EpochOf(r, es)
  BY DEF Current
<1>5. RampTyped /\ DaysTyped
  BY Parts
<1>6. CASE days[d].closed /\ Ensure(today) /\ UNCHANGED <<days, healthyDays, advancedOn>>
  BY <1>1, <1>2, <1>3, <1>6, EnsureSound, AssessKeeps
<1>7. ASSUME ~days[d].closed, NEW good \in BOOLEAN, NEW credit \in BOOLEAN,
             credit => good /\ Recovering(e),
             good /\ ~credit => ~Recovering(e),
             good => ~OutOfStage(d, e) /\ ~OutOfOrder(d, e),
             days' = [days EXCEPT ![d].closed = TRUE, ![d].healthy = good, ![d].credited = credit],
             recovery' = r,
             epochs' = IF credit THEN [es EXCEPT ![r] = Qualified(e, d)] ELSE es,
             healthyDays' = IF good /\ ~credit THEN healthyDays + 1 ELSE healthyDays,
             advancedOn' = IF good /\ ~credit THEN d ELSE advancedOn
      PROVE  Kept
  <2> HIDE DEF e, r, es
  <2>1. /\ DaysTyped'
        /\ days'[d] # None /\ days'[d].closed /\ days'[d].epoch = days[d].epoch
        /\ days'[d].healthy <=> good
        /\ \A c \in Dates \ {d} : days'[c] = days[c]
        /\ ~Counts(d) /\ ~Credits(d)
        /\ Counts(d)' <=> good /\ ~credit
        /\ Credits(d)' <=> good /\ credit
        /\ \A c \in Dates \ {d} : (Counts(c)' <=> Counts(c)) /\ CreditKept(c)
        /\ \A c \in Dates : VerdictStays(c)
    BY <1>1, <1>7, ClosedRow
  <2>2. CASE ~good
    <3>1. ~credit /\ epochs' = es /\ UNCHANGED <<healthyDays, advancedOn>>
      BY <1>7, <2>2
    <3>2. Assessed(epochs', recovery')
      BY <1>3, <1>7, <3>1
    <3>3. \A c \in Dates : (Counts(c)' <=> Counts(c)) /\ CreditKept(c)
      BY <2>1, <2>2 DEF CreditKept
    <3>4. ScheduleCounted'
      BY <3>1, <3>3, ScheduleKept
    <3>5. \A a \in Dates : EpochCounted(a)'
      BY <3>2, <3>3, EpochsKept
    <3>6. \A c \in Dates : DaySound(c)'
      <4>1. \A a \in Dates : epochs[a] # None => epochs'[a] # None
        BY <3>2 DEF Assessed
      <4> QED BY <2>1, <2>2, <4>1, VerdictsNext
    <3>7. Sound'
      BY <3>4, <3>5, <3>6, CountedNext
    <3>8. RampTyped'
      BY <1>5, <3>1, <3>2 DEF RampTyped, Assessed
    <3>9. healthyDays' <= healthyDays
      BY <1>5, <3>1 DEF RampTyped
    <3>10. Earns
      BY <1>1, <3>2, <3>7, <3>8, <3>9, AssessedEbbs, NoRise
    <3> QED BY <1>2, <2>1, <3>7, <3>8, <3>10, PartsNext DEF Kept
  <2>3. CASE good
    <3>1. ClosesHealthy
      BY <1>1, <1>7, <2>1, <2>3 DEF ClosesHealthy
    <3>2. Earns
      BY <3>1 DEF Earns
    <3>3. CASE ~credit
      <4>1. /\ ~Recovering(e) /\ ~OutOfOrder(d, e) /\ epochs' = es
            /\ healthyDays' = healthyDays + 1 /\ advancedOn' = d
        BY <1>7, <2>3, <3>3
      <4>2. advancedOn # None => advancedOn < d
        <5>1. advancedOn # None => advancedOn \in Int /\ d \in Int
          BY <1>5 DEF RampTyped, Dates
        <5> QED BY <4>1, <5>1 DEF OutOfOrder
      <4>3. Assessed(epochs', recovery')
        BY <1>3, <1>7, <4>1
      <4>4. ScheduleCounted' /\ healthyDays' \in 0..LastDay
        BY <2>1, <2>3, <3>3, <4>1, <4>2, ScheduleAdvanced
      <4>5. \A c \in Dates : CreditKept(c)
        BY <2>1, <3>3 DEF CreditKept
      <4>6. \A a \in Dates : EpochCounted(a)'
        BY <4>3, <4>5, EpochsKept
      <4>7. \A c \in Dates : DaySound(c)'
        <5>1. \A a \in Dates : epochs[a] # None => epochs'[a] # None
          BY <4>3 DEF Assessed
        <5> QED BY <2>1, <3>3, <5>1, VerdictsNext
      <4>8. Sound'
        BY <4>4, <4>6, <4>7, CountedNext
      <4>9. RampTyped'
        BY <4>1, <4>3, <4>4 DEF RampTyped, Assessed
      <4> QED BY <1>2, <2>1, <3>2, <4>8, <4>9, PartsNext DEF Kept
    <3>4. CASE credit
      <4>1. /\ Recovering(e) /\ ~OutOfStage(d, e)
            /\ epochs' = [es EXCEPT ![r] = Qualified(e, d)]
            /\ UNCHANGED <<healthyDays, advancedOn>>
        BY <1>7, <2>3, <3>4
      <4>2. e # None
        BY <4>1 DEF Recovering
      <4>3. r \in Dates /\ e = es[r]
        BY <1>3, <1>4, <4>2, PointedAt
      <4>4. es[r] # None /\ epochs' = [es EXCEPT ![r] = Qualified(es[r], d)]
        BY <4>1, <4>2, <4>3
      <4>5. e \in Epoch
        BY <1>3, <4>2, <4>3 DEF Assessed
      <4>6. days'[d].epoch = r /\ es[r].started <= d
        BY <2>1, <4>1, <4>2, <4>3, <4>5 DEF OutOfStage, Epoch, Dates, r
      <4>7. es[r].qualifiedOn # None => es[r].qualifiedOn < d
        <5> SUFFICES ASSUME es[r].qualifiedOn # None PROVE es[r].qualifiedOn < d
          OBVIOUS
        <5>1. e.qualifiedOn \in Dates /\ ~(d <= e.qualifiedOn)
          BY <4>1, <4>2, <4>3, <4>5 DEF OutOfStage, Epoch
        <5> QED BY <4>3, <5>1 DEF Dates
      <4>8. /\ \A a \in Dates : EpochCounted(a)'
            /\ epochs' \in [Dates -> Epoch \cup {None}]
            /\ \A a \in Dates : es[a] # None => epochs'[a] # None
        <5>1. Credits(d)' /\ ~Credits(d) /\ \A c \in Dates \ {d} : CreditKept(c)
          BY <2>1, <2>3, <3>4
        <5>2. recovery' = r
          BY <1>7
        <5> QED BY ONLY IInv, d \in Dates, <1>3, <4>3, <4>4, <4>6, <4>7, <5>1, <5>2, EpochAdvanced
      <4>9. \A c \in Dates : Counts(c)' <=> Counts(c)
        BY <2>1, <3>4
      <4>10. ScheduleCounted'
        BY <4>1, <4>9, ScheduleKept
      <4>11. \A a \in Dates : epochs[a] # None => epochs'[a] # None
        BY <1>3, <4>8 DEF Assessed
      <4>12. \A c \in Dates : DaySound(c)'
        BY <2>1, <4>3, <4>4, <4>6, <4>8, <4>11, VerdictsNext
      <4>13. Sound'
        BY <4>8, <4>10, <4>12, CountedNext
      <4>14. RampTyped'
        BY <1>5, <1>7, <4>1, <4>3, <4>4, <4>8 DEF RampTyped
      <4> QED BY <1>2, <2>1, <3>2, <4>13, <4>14, PartsNext DEF Kept
    <3> QED BY <3>3, <3>4
  <2> QED BY <2>2, <2>3
<1> QED BY <1>6, <1>7, CloseCases

-----------------------------------------------------------------------------
(* The signals.                                                            *)

\* The row a signal leaves, and what the day counted for until then.
LEMMA TakenRow ==
  ASSUME IInv, NEW d \in Dates, days[d] # None,
         days' = [days EXCEPT ![d].adverse = TRUE, ![d].healthy = FALSE]
  PROVE  /\ DaysTyped'
         /\ days'[d] # None /\ (days'[d].closed <=> days[d].closed) /\ ~days'[d].healthy
         /\ ~days'[d].closed => ~days'[d].credited
         /\ \A c \in Dates \ {d} : days'[c] = days[c]
         /\ ~Counts(d)' /\ ~Credits(d)'
         /\ Counts(d) <=> Revokes(d) /\ ~days[d].credited
         /\ Credits(d) <=> Revokes(d) /\ days[d].credited
         /\ \A c \in Dates \ {d} : (Counts(c)' <=> Counts(c)) /\ CreditKept(c)
         /\ \A c \in Dates : VerdictStays(c)
<1> DEFINE row == [days[d] EXCEPT !.adverse = TRUE, !.healthy = FALSE]
<1>1. days \in [Dates -> Day \cup {None}] /\ DaysTyped /\ days[d] \in Day /\ DaySound(d)
  BY Parts DEF DaysTyped, Sound
<1>2. row \in Day
  BY <1>1 DEF Day
<1>3. /\ row.healthy = FALSE /\ row.closed = days[d].closed /\ row.credited = days[d].credited
      /\ row.sent = days[d].sent /\ row.granted = days[d].granted
  BY <1>1 DEF Day
<1>4. days' = [days EXCEPT ![d] = row]
  BY <1>1
<1> HIDE DEF row
<1>5. /\ days' \in [Dates -> Day \cup {None}] /\ days'[d] = row
      /\ \A c \in Dates \ {d} : days'[c] = days[c]
  BY <1>1, <1>2, <1>4
<1>6. row # None
  BY <1>2, NullAssumption
<1>7. DaysTyped'
  BY <1>1, <1>3, <1>5 DEF DaysTyped
<1>8. ~Counts(d)' /\ ~Credits(d)'
  BY <1>3, <1>5 DEF Counts, Credits
<1>9. (Counts(d) <=> Revokes(d) /\ ~days[d].credited) /\ (Credits(d) <=> Revokes(d) /\ days[d].credited)
  BY DEF Counts, Credits, Revokes
<1>10. \A c \in Dates \ {d} : (Counts(c)' <=> Counts(c)) /\ CreditKept(c) /\ VerdictStays(c)
  BY <1>5 DEF Counts, Credits, CreditKept, VerdictStays
<1>11. VerdictStays(d)
  BY <1>3, <1>5 DEF VerdictStays
<1>12. /\ days'[d] # None /\ (days'[d].closed <=> days[d].closed) /\ ~days'[d].healthy
       /\ ~days'[d].closed => ~days'[d].credited
  BY <1>1, <1>3, <1>5, <1>6 DEF DaySound
<1> QED BY <1>5, <1>7, <1>8, <1>9, <1>10, <1>11, <1>12

LEMMA TakeBackKeeps ==
  ASSUME IInv, NEW d \in Dates, days[d] # None, NEW es, Assessed(es, recovery'),
         TakeBack(d, es), Rest', UNCHANGED <<advancedOn, lowered, raised>>
  PROVE  Kept
<1>1. /\ DaysTyped'
      /\ days'[d] # None /\ (days'[d].closed <=> days[d].closed) /\ ~days'[d].healthy
      /\ ~days'[d].closed => ~days'[d].credited
      /\ \A c \in Dates \ {d} : days'[c] = days[c]
      /\ ~Counts(d)' /\ ~Credits(d)'
      /\ Counts(d) <=> Revokes(d) /\ ~days[d].credited
      /\ Credits(d) <=> Revokes(d) /\ days[d].credited
      /\ \A c \in Dates \ {d} : (Counts(c)' <=> Counts(c)) /\ CreditKept(c)
      /\ \A c \in Dates : VerdictStays(c)
  BY TakenRow DEF TakeBack
<1>2. /\ epochs' = IF Revokes(d) /\ days[d].credited
                   THEN [es EXCEPT ![days[d].epoch].qualifying = Less(@)] ELSE es
      /\ healthyDays' = IF Revokes(d) /\ ~days[d].credited THEN Less(healthyDays) ELSE healthyDays
  BY DEF TakeBack
<1>3. RampTyped
  BY Parts
<1>4. Less(healthyDays) <= healthyDays /\ healthyDays <= healthyDays
  BY <1>3, LessOf DEF RampTyped
<1>5. healthyDays' <= healthyDays
  BY <1>2, <1>4
<1>6. \A a \in Dates : epochs[a] # None => es[a] # None
  BY DEF Assessed
<1>7. ScheduleCounted' /\ healthyDays' \in 0..LastDay
  <2>1. CASE Counts(d)
    <3>1. healthyDays' = Less(healthyDays)
      BY <1>1, <1>2, <2>1
    <3> QED BY <1>1, <2>1, <3>1, ScheduleLost
  <2>2. CASE ~Counts(d)
    <3>1. healthyDays' = healthyDays
      BY <1>1, <1>2, <2>2
    <3>2. \A c \in Dates : Counts(c)' <=> Counts(c)
      BY <1>1, <2>2
    <3> QED BY <1>3, <3>1, <3>2, ScheduleKept DEF RampTyped
  <2> QED BY <2>1, <2>2
<1>8. /\ \A a \in Dates : EpochCounted(a)'
      /\ epochs' \in [Dates -> Epoch \cup {None}]
      /\ \A a \in Dates : epochs'[a] # None <=> es[a] # None
      /\ Ebbs(EpochOf(recovery, epochs), EpochOf(recovery', epochs'))
  <2>1. CASE Credits(d)
    <3>1. epochs' = [es EXCEPT ![days[d].epoch].qualifying = Less(@)]
      BY <1>1, <1>2, <2>1
    <3>2. /\ \A a \in Dates : EpochCounted(a)'
          /\ epochs' \in [Dates -> Epoch \cup {None}]
          /\ \A a \in Dates : es[a] # None =>
               /\ epochs'[a] # None /\ epochs'[a].earned = es[a].earned
               /\ epochs'[a].qualifying \in {es[a].qualifying, Less(es[a].qualifying)}
          /\ \A a \in Dates : epochs'[a] # None => es[a] # None
      BY <1>1, <2>1, <3>1, EpochLost
    <3>3. Ebbs(EpochOf(recovery, epochs), EpochOf(recovery', epochs'))
      <4>1. CASE recovery' = None
        <5>1. recovery = None
          BY <1>3, <4>1 DEF Assessed, RampTyped
        <5> QED BY <4>1, <5>1 DEF Ebbs, EpochOf
      <4>2. CASE recovery' # None
        <5>1. recovery' \in Dates /\ es[recovery'] # None
          BY <4>2 DEF Assessed
        <5>2. /\ epochs'[recovery'] # None /\ epochs'[recovery'].earned = es[recovery'].earned
              /\ epochs'[recovery'].qualifying \in {es[recovery'].qualifying, Less(es[recovery'].qualifying)}
          BY <3>2, <5>1
        <5>3. CASE recovery' = recovery
          <6>1. es = epochs
            BY <5>3 DEF Assessed
          <6> QED BY <4>2, <5>1, <5>2, <5>3, <6>1 DEF Ebbs, EpochOf
        <5>4. CASE recovery' # recovery
          <6>1. es[recovery'].qualifying = 0
            BY <5>1, <5>4 DEF Assessed
          <6>2. epochs'[recovery'].qualifying = 0
            BY <5>2, <6>1 DEF Less
          <6> QED BY <4>2, <5>2, <6>2 DEF Ebbs, EpochOf
        <5> QED BY <5>3, <5>4
      <4> QED BY <4>1, <4>2
    <3> QED BY <3>2, <3>3
  <2>2. CASE ~Credits(d)
    <3>1. epochs' = es
      BY <1>1, <1>2, <2>2
    <3>2. \A c \in Dates : CreditKept(c)
      BY <1>1, <2>2 DEF CreditKept
    <3>3. Assessed(epochs', recovery')
      BY <3>1
    <3> QED BY <3>1, <3>2, <3>3, EpochsKept, AssessedEbbs DEF Assessed
  <2> QED BY <2>1, <2>2
<1>9. \A c \in Dates : DaySound(c)'
  BY <1>1, <1>6, <1>8, VerdictsNext
<1>10. Sound'
  BY <1>7, <1>8, <1>9, CountedNext
<1>11. RampTyped'
  BY <1>3, <1>7, <1>8 DEF RampTyped, Assessed
<1>12. Earns
  BY <1>5, <1>8, <1>10, <1>11, NoRise
<1> QED BY <1>1, <1>10, <1>11, <1>12, PartsNext DEF Kept

LEMMA SignalKeeps ==
  ASSUME IInv, NEW d \in Dates, DaySignal(d) \/ Bounce(d)
  PROVE  Kept
<1>1. /\ days[d] # None /\ signals < MaxSignals /\ signals' = signals + 1
      /\ UNCHANGED <<today, active, advancedOn, lowered, raised, precheck, sends, races, commands>>
  BY DEF DaySignal, Bounce
<1>2. signals' \in 0..MaxSignals
  <2>1. signals \in 0..MaxSignals
    BY Parts DEF Rest
  <2> QED BY <1>1, <2>1, Limits, OneMore
<1>3. Rest'
  BY <1>1, <1>2, Parts DEF Rest
<1>4. CASE DaySignal(d)
  <2>1. TakeBack(d, epochs) /\ Assessed(epochs, recovery')
    BY <1>4, RampStays DEF DaySignal
  <2> QED BY <1>1, <1>3, <2>1, TakeBackKeeps
<1>5. CASE Bounce(d)
  <2>1. TakeBack(d, AssessedEpochs(today)) /\ Assessed(AssessedEpochs(today), recovery')
    BY <1>5, Yesterday, AssessedSound DEF Bounce
  <2> QED BY <1>1, <1>3, <2>1, TakeBackKeeps
<1> QED BY <1>4, <1>5

-----------------------------------------------------------------------------
(* The theorems.                                                           *)

LEMMA NextKeeps ==
  ASSUME IInv, [Next]_vars
  PROVE  Kept
<1>1. CASE UNCHANGED vars
  <2>1. Rest' /\ Assessed(epochs', recovery')
    BY <1>1, Parts, RampStays DEF vars, ramp, bounds, Rest
  <2> QED BY <1>1, <2>1, AssessKeeps DEF vars, ramp
<1>2. ASSUME NEW low \in Lowerings \cup {None, lowered}, NEW high \in Raises \cup {None, raised},
             SetAdminCap(low, high)
      PROVE  Kept
  BY <1>2, SetAdminCapKeeps
<1>3. ASSUME NEW high \in Raises \cup {None}, OverrideRaise(high)
      PROVE  Kept
  BY <1>3, OverrideRaiseKeeps
<1>4. CASE ReadStanding
  BY <1>4, ReadStandingKeeps
<1>5. CASE PrecheckOpen
  BY <1>5, PrecheckOpenKeeps
<1>6. CASE DropPrecheck
  BY <1>6, DropPrecheckKeeps
<1>7. ASSUME NEW d \in Dates,
             PrecheckCap(d) \/ Claim(d) \/ SendRecorded(d) \/ CloseDay(d) \/ DaySignal(d) \/ Bounce(d)
      PROVE  Kept
  BY <1>7, PrecheckCapKeeps, ClaimKeeps, SendRecordedKeeps, CloseDayKeeps, SignalKeeps
<1>8. CASE DirectSend \/ Tick
  BY <1>8, OutsideKeeps
<1> QED BY <1>1, <1>2, <1>3, <1>4, <1>5, <1>6, <1>7, <1>8 DEF Next

\* The inductive invariant of one mailbox's ramp (ramp.ts, recovery.ts).
THEOREM Invariance == Spec => []IInv
<1>1. IInv /\ [Next]_vars => IInv'
  BY NextKeeps DEF Kept
<1> QED BY <1>1, InitInv, PTL DEF Spec

\* Every row has its type and no day sends past its grant (mailbox_send_days_within_cap),
\* whatever an admin lowers in the middle of the day.
THEOREM TypeCorrect == Spec => []TypeOK
<1>1. IInv => TypeOK
  BY DEF IInv
<1> QED BY <1>1, Invariance, PTL

\* healthy_sending_days and an epoch's qualifying_days are the days that earned them and have
\* not lost them again (closeSendDay, revokeDayAdvancement).
THEOREM CountersMatchDays == Spec => []DaysCounted
<1>1. IInv => DaysCounted
  BY DEF IInv
<1> QED BY <1>1, Invariance, PTL

\* effectiveDailyCap rises only with a day closed healthy or a command of an admin, and a
\* closed day's verdict never improves ("the cap falls, never rises").
THEOREM CapEarned == Spec => CapRisesOnlyEarned
<1>1. IInv /\ [Next]_vars =>
        [/\ CapOf(healthyDays, lowered, raised, EpochOf(recovery, epochs))' >
              CapOf(healthyDays, lowered, raised, EpochOf(recovery, epochs)) =>
            \/ commands' > commands
            \/ \E d \in Dates : days[d] # None /\ ~days[d].closed /\ days'[d].closed /\ days'[d].healthy
         /\ \A d \in Dates : days[d] # None /\ days[d].closed =>
              days'[d].closed /\ (days'[d].healthy => days[d].healthy)]_vars
  BY NextKeeps DEF Kept, Earns, CapNow, ClosesHealthy, VerdictStays
<1> QED BY <1>1, Invariance, PTL DEF Spec, CapRisesOnlyEarned

=============================================================================
