-------------------------------- MODULE Ramp --------------------------------
(***************************************************************************)
(* The reputation ramp of one mailbox (packages/domain/outbound/ramp.ts,   *)
(* recovery.ts): the cap computed from the healthy sending days, the       *)
(* recovery epoch an inactivity opens, the day rows the sends are counted  *)
(* on, their closing, and the adverse signals that arrive when they like.  *)
(*                                                                         *)
(* closeSendDay, a claim, a mail message and an admin's command each run   *)
(* in one transaction that locks the ramp row first, so each is one step.  *)
(* A precheck of the gate has no transaction; its reads are steps.         *)
(***************************************************************************)
EXTENDS Integers, FiniteSets

CONSTANTS
  LastDay,     \* bound on the business dates
  Inactivity,  \* 14: days without a send that open a recovery
  Scheduled,   \* scheduledCap: the cap of each number of healthy days
  LastStage,   \* STAGES.length - 1
  Stages,      \* STAGES: the caps of a recovery
  StageDays,   \* 5: qualifying days per stage
  Settled,     \* RAMP_SETTLED_DAY
  Streak,      \* RAMP_RAISE_HEALTHY_STREAK
  RaiseLimit,  \* RAMP_ADMIN_RAISE_LIMIT
  Ceiling,     \* RAMP_HARD_CEILING
  Lowerings,   \* the caps an admin may lower to
  Raises,      \* the caps an admin may raise to
  MaxSends,    \* bound on the claimed sends
  MaxRaces,    \* bound on the prechecks, and the claims dated before a midnight
  MaxSignals,  \* bound on the adverse signals
  MaxCommands, \* bound on the admins' commands
  None         \* SQL NULL

Dates == 1..LastDay

ASSUME RampAssumption ==
  /\ LastDay \in Nat \ {0, 1} /\ Inactivity \in Nat \ {0}
  /\ Scheduled \in [0..LastDay -> Nat \ {0}]
  /\ StageDays \in Nat \ {0} /\ Settled \in Nat /\ Streak \in Nat
  /\ RaiseLimit \in Nat /\ Ceiling \in Nat \ {0}
  /\ Lowerings \subseteq Nat /\ Raises \subseteq Nat \ {0}
  /\ MaxSends \in Nat /\ MaxRaces \in Nat
  /\ MaxSignals \in Nat /\ MaxCommands \in Nat
  /\ None \notin Int

\* Every earned cap is reached by one of the stages.
ASSUME StagesAssumption ==
  /\ LastStage \in Nat
  /\ Stages \in [0..LastStage -> Nat \ {0}]
  /\ \A h \in 0..LastDay : \E i \in 0..LastStage : Stages[i] >= Scheduled[h]

\* The caps of STAGES and of RAMP_SCHEDULE rise, and the first stage is no more than the
\* schedule starts with.
ASSUME LadderAssumption ==
  /\ \A i, j \in 0..LastStage : i <= j => Stages[i] <= Stages[j]
  /\ \A g, h \in 0..LastDay : g <= h => Scheduled[g] <= Scheduled[h]
  /\ Stages[0] <= Scheduled[0]

VARIABLES
  today,       \* the workspace's business date
  active,      \* the date of the last observed send, at first of the mailbox
  healthyDays, \* mailbox_send_ramp.healthy_sending_days
  advancedOn,  \* last_advanced_on
  lowered,     \* admin_daily_cap
  raised,      \* raised_daily_cap
  recovery,    \* recovery_epoch_id: epochs are named by their activity date
  epochs,      \* mailbox_recovery_epochs
  days,        \* mailbox_send_days
  precheck,    \* the precheck in flight, between its read of the cap and the day row
  sends,       \* how many sends were claimed
  races,       \* how many of MaxRaces there were
  signals,     \* how many adverse signals there were
  commands     \* how many commands of an admin there were

ramp == <<healthyDays, advancedOn, lowered, raised, recovery, epochs>>
bounds == <<sends, races, signals, commands>>
vars == <<today, active, ramp, days, precheck, bounds>>

\* healthy is NULL until the day is closed; unsettled counts the day's claimed
\* fences that are not `sent`; adverse is bounces, opt_outs or provider_errors > 0.
Day == [sent : Nat, granted : Nat, unsettled : Nat, adverse : BOOLEAN,
        closed : BOOLEAN, healthy : BOOLEAN, credited : BOOLEAN,
        epoch : Dates \cup {None}, stage : 0..LastStage, cap : Nat]

Epoch == [started : Dates, earned : Nat, qualifying : Nat,
          qualifiedOn : Dates \cup {None}, stageOn : Dates]

Precheck == [date : Dates, cap : Nat]

\* NULL is no row.
ASSUME NullAssumption == None \notin Day \cup Epoch \cup Precheck

Init ==
  /\ today = 2 /\ active = 1 \* the mailbox was connected the day before
  /\ healthyDays = 0 /\ advancedOn = None
  /\ lowered = None /\ raised = None
  /\ recovery = None
  /\ epochs = [a \in Dates |-> None]
  /\ days = [d \in Dates |-> None]
  /\ precheck = None
  /\ sends = 0 /\ races = 0 /\ signals = 0 /\ commands = 0

-----------------------------------------------------------------------------
(* The recovery.                                                           *)

Lesser(m, n) == IF m <= n THEN m ELSE n

\* recoveryStageIndex counts from 0.
StageIndex(q) == Lesser(q \div StageDays, LastStage)

\* stageCap of readRecovery.
StageCap(e) == Lesser(Stages[StageIndex(e.qualifying)], e.earned)

\* The first stage that reaches the earned cap, and at least one stage.
RequiredDays(e) ==
  LET reach == CHOOSE i \in 0..LastStage :
                 /\ Stages[i] >= e.earned
                 /\ \A j \in 0..LastStage : Stages[j] >= e.earned => i <= j
  IN  IF reach = 0 THEN StageDays ELSE StageDays * reach

Recovering(e) == e # None /\ e.qualifying < RequiredDays(e)

\* assessInactivity: the mailbox was inactive, and no epoch of this inactivity is current.
Lapsed(now) == now - active >= Inactivity /\ (recovery # None => recovery < active)

\* The epochs and the current one after assessInactivity.
AssessedEpochs(now) ==
  IF Lapsed(now) /\ epochs[active] = None
  THEN [epochs EXCEPT ![active] =
          [started |-> now, earned |-> Scheduled[healthyDays], qualifying |-> 0,
           qualifiedOn |-> None, stageOn |-> now]]
  ELSE epochs

AssessedRecovery(now) == IF Lapsed(now) THEN active ELSE recovery

EpochOf(r, es) == IF r = None THEN None ELSE es[r]

\* readRecovery after assessInactivity.
Current(now) == EpochOf(AssessedRecovery(now), AssessedEpochs(now))

\* ensureRamp of its own.
Ensure(now) ==
  /\ epochs' = AssessedEpochs(now)
  /\ recovery' = AssessedRecovery(now)

-----------------------------------------------------------------------------
(* The cap.                                                                *)

\* A plausible slip: a recovery has its own cap, whatever the admin says.
CapOfRecoveryAlone(h, low, high, e) ==
  LET base == IF high = None THEN Scheduled[h] ELSE high
      bounded == Lesser(IF low = None THEN base ELSE Lesser(base, low), Ceiling)
  IN  IF Recovering(e) THEN StageCap(e) ELSE bounded

\* effectiveDailyCap.
CapOf(h, low, high, e) ==
  LET base == IF high = None THEN Scheduled[h] ELSE high
      bounded == Lesser(IF low = None THEN base ELSE Lesser(base, low), Ceiling)
  IN  IF Recovering(e) THEN Lesser(bounded, Lesser(StageCap(e), Scheduled[h])) ELSE bounded

EffectiveCap(now) == CapOf(healthyDays, lowered, raised, Current(now))

\* The closed days something was sent on; one of them counts if no later one failed.
ClosedSendingDays == {d \in Dates : days[d] # None /\ days[d].closed /\ days[d].sent > 0}

HealthyStreak ==
  Cardinality({d \in ClosedSendingDays :
                 \A e \in ClosedSendingDays : e >= d => days[e].healthy})

\* raiseRefusal.
RaiseEarned == healthyDays >= Settled /\ HealthyStreak >= Streak

\* setAdminCap. An absent field leaves its column alone.
SetAdminCap(low, high) ==
  /\ commands < MaxCommands
  /\ high \notin {None, raised} => high <= RaiseLimit /\ RaiseEarned
  /\ lowered' = low /\ raised' = high
  /\ low # lowered \/ high # raised
  /\ commands' = commands + 1
  /\ Ensure(today)
  /\ UNCHANGED <<today, active, healthyDays, advancedOn, days, precheck, sends, races, signals>>

\* overrideRaise: whatever the mailbox's health.
OverrideRaise(high) ==
  /\ commands < MaxCommands
  /\ raised' = high
  /\ high # raised
  /\ commands' = commands + 1
  /\ Ensure(today)
  /\ UNCHANGED <<today, active, healthyDays, advancedOn, lowered, days, precheck, sends, races, signals>>

\* readRampStanding.
ReadStanding ==
  /\ Ensure(today)
  /\ UNCHANGED <<today, active, healthyDays, advancedOn, lowered, raised, days, precheck, bounds>>

-----------------------------------------------------------------------------
(* The gate, and the count.                                                *)

NewDay(cap, r, e) ==
  [sent |-> 0, granted |-> cap, unsettled |-> 0, adverse |-> FALSE,
   closed |-> FALSE, healthy |-> FALSE, credited |-> FALSE,
   epoch |-> r, stage |-> IF e = None THEN 0 ELSE StageIndex(e.qualifying),
   cap |-> IF e = None THEN 0 ELSE cap]

\* A plausible slip: the grant follows the cap down.
GrantedLatest(old, cap) == cap

\* cap_granted is a high-water mark.
Granted(old, cap) == IF old >= cap THEN old ELSE cap

\* openSendDay.
Opened(d, cap, r, e) ==
  IF days[d] = None THEN NewDay(cap, r, e)
  ELSE [days[d] EXCEPT !.granted = Granted(@, cap)]

\* A precheck, or a decisionInstant read before midnight and used after it.
Race == races < MaxRaces /\ races' = races + 1

\* The precheck reads the cap ...
PrecheckCap(d) ==
  /\ precheck = None
  /\ d \in {today, today - 1} /\ Race
  /\ Ensure(d)
  /\ precheck' = [date |-> d, cap |-> EffectiveCap(d)]
  /\ UNCHANGED <<today, active, healthyDays, advancedOn, lowered, raised, days, sends, signals, commands>>

\* ... and opens the day with it, under whatever recovery is current by then.
PrecheckOpen ==
  /\ precheck # None
  /\ days' = [days EXCEPT ![precheck.date] =
                Opened(precheck.date, precheck.cap, recovery, EpochOf(recovery, epochs))]
  /\ precheck' = None
  /\ UNCHANGED <<today, active, ramp, bounds>>

\* The claim: the day, and countAutomatedSend unless the cap is reached. What else the
\* gate asks can only refuse.
Claim(d) ==
  /\ \/ d = today /\ UNCHANGED races
     \/ d = today - 1 /\ Race
  /\ LET cap == EffectiveCap(d)
         day == Opened(d, cap, AssessedRecovery(d), Current(d)) IN
     IF day.sent < cap
     THEN /\ sends < MaxSends
          /\ days' = [days EXCEPT ![d] = [day EXCEPT !.sent = @ + 1, !.unsettled = @ + 1]]
          /\ sends' = sends + 1
     ELSE days' = [days EXCEPT ![d] = day] /\ UNCHANGED sends
  /\ Ensure(d)
  /\ UNCHANGED <<today, active, healthyDays, advancedOn, lowered, raised, precheck, signals, commands>>

\* An error, or the end of the process.
DropPrecheck ==
  /\ precheck # None
  /\ precheck' = None
  /\ UNCHANGED <<today, active, ramp, days, bounds>>

\* A claimed send is recorded sent, by its dispatcher or by the Sent search.
SendRecorded(d) ==
  /\ days[d] # None /\ days[d].unsettled > 0
  /\ days' = [days EXCEPT ![d].unsettled = @ - 1]
  /\ \E at \in d..today : active' = IF at > active THEN at ELSE active
  /\ UNCHANGED <<today, ramp, precheck, bounds>>

\* A person's own send from Gmail is seen.
DirectSend ==
  /\ active' = today
  /\ active # today
  /\ UNCHANGED <<today, ramp, days, precheck, bounds>>

-----------------------------------------------------------------------------
(* closeSendDay.                                                           *)

\* 80% of the cap.
Enough(sent, cap) == 5 * sent >= 4 * cap

\* recoveryOrderFailure.
OutOfStage(d, e) ==
  /\ e # None
  /\ \/ days[d].epoch # AssessedRecovery(today)
     \/ days[d].stage # StageIndex(e.qualifying)
     \/ d < e.started \/ d < e.stageOn
     \/ e.qualifiedOn # None /\ d <= e.qualifiedOn

OutOfOrder(d, e) == ~Recovering(e) /\ advancedOn # None /\ d <= advancedOn

\* rampAdvancementFailure and the checks around it; fit: authentication and coverage.
Healthy(d, fit, e) ==
  /\ ~OutOfStage(d, e)
  /\ fit /\ ~days[d].adverse /\ days[d].sent > 0
  /\ Enough(days[d].sent, IF Recovering(e) THEN days[d].cap ELSE Scheduled[healthyDays])
  /\ days[d].unsettled = 0
  /\ ~OutOfOrder(d, e)

\* A closed verdict is final.
Judged(d) == ~days[d].closed

\* One qualifying day more.
Qualified(e, d) ==
  [e EXCEPT !.qualifying = @ + 1, !.qualifiedOn = d,
            !.stageOn = IF (e.qualifying + 1) % StageDays = 0 THEN d ELSE @]

\* A day the calendar has moved past. Its job may run late, again or never.
CloseDay(d) ==
  /\ days[d] # None /\ d < today
  /\ LET e == Current(today)
         r == AssessedRecovery(today) IN
     IF ~Judged(d)
     THEN Ensure(today) /\ UNCHANGED <<days, healthyDays, advancedOn>>
     ELSE \E fit \in BOOLEAN :
       LET good == Healthy(d, fit, e)
           credit == good /\ Recovering(e) IN
       /\ days' = [days EXCEPT ![d].closed = TRUE, ![d].healthy = good, ![d].credited = credit]
       /\ recovery' = r
       /\ epochs' = IF credit THEN [AssessedEpochs(today) EXCEPT ![r] = Qualified(e, d)]
                    ELSE AssessedEpochs(today)
       /\ healthyDays' = IF good /\ ~credit THEN healthyDays + 1 ELSE healthyDays
       /\ advancedOn' = IF good /\ ~credit THEN d ELSE advancedOn
  /\ UNCHANGED <<today, active, lowered, raised, precheck, bounds>>

-----------------------------------------------------------------------------
(* Adverse signals.                                                        *)

Less(n) == IF n = 0 THEN 0 ELSE n - 1

\* A plausible slip: every late signal takes a day back.
RevokesEach(d) == days[d].closed

\* The healthy flag of a closed day is taken back once.
Revokes(d) == days[d].closed /\ days[d].healthy

\* What a signal does to the counters of the ramp, given the epochs at hand.
TakeBack(d, es) ==
  /\ days' = [days EXCEPT ![d].adverse = TRUE, ![d].healthy = FALSE]
  /\ epochs' = IF Revokes(d) /\ days[d].credited
               THEN [es EXCEPT ![days[d].epoch].qualifying = Less(@)]
               ELSE es
  /\ healthyDays' = IF Revokes(d) /\ ~days[d].credited THEN Less(healthyDays) ELSE healthyDays

\* recordDaySignal: an opt-out, or an error of the provider.
DaySignal(d) ==
  /\ signals < MaxSignals
  /\ days[d] # None
  /\ TakeBack(d, epochs)
  /\ signals' = signals + 1
  /\ UNCHANGED <<today, active, advancedOn, lowered, raised, recovery, precheck, sends, races, commands>>

\* recordBounceAgainstDay, with revokeDayAdvancement.
Bounce(d) ==
  /\ signals < MaxSignals
  /\ days[d] # None
  /\ TakeBack(d, AssessedEpochs(today))
  /\ recovery' = AssessedRecovery(today)
  /\ signals' = signals + 1
  /\ UNCHANGED <<today, active, advancedOn, lowered, raised, precheck, sends, races, commands>>

\* A precheck takes seconds: one midnight may pass in it, never two.
Tick ==
  /\ today < LastDay
  /\ precheck # None => precheck.date = today
  /\ today' = today + 1
  /\ UNCHANGED <<active, ramp, days, precheck, bounds>>

-----------------------------------------------------------------------------
Next ==
  \/ \E low \in Lowerings \cup {None, lowered}, high \in Raises \cup {None, raised} :
       SetAdminCap(low, high)
  \/ \E high \in Raises \cup {None} : OverrideRaise(high)
  \/ ReadStanding
  \/ PrecheckOpen \/ DropPrecheck
  \/ \E d \in Dates : PrecheckCap(d) \/ Claim(d) \/ SendRecorded(d) \/ CloseDay(d) \/ DaySignal(d) \/ Bounce(d)
  \/ DirectSend
  \/ Tick

Spec == Init /\ [][Next]_vars

-----------------------------------------------------------------------------
(* Properties.                                                             *)

\* Every row has its type, a verdict is there exactly when the day is closed, and no day
\* sends past its grant (mailbox_send_days_within_cap), which an admin's lowering in the
\* middle of the day must not make unsatisfiable.
TypeOK ==
  /\ today \in Dates /\ active \in Dates /\ active <= today
  /\ healthyDays \in 0..LastDay /\ advancedOn \in Dates \cup {None}
  /\ lowered \in Lowerings \cup {None} /\ raised \in Raises \cup {None}
  /\ epochs \in [Dates -> Epoch \cup {None}]
  /\ recovery \in {None} \cup {a \in Dates : epochs[a] # None}
  /\ days \in [Dates -> Day \cup {None}]
  /\ \A d \in Dates : days[d] # None => days[d].sent <= days[d].granted
  /\ precheck \in Precheck \cup {None}
  /\ sends \in 0..MaxSends /\ races \in 0..MaxRaces
  /\ signals \in 0..MaxSignals /\ commands \in 0..MaxCommands

\* The days the schedule counts, and the days an epoch counts.
CountedDays ==
  {d \in Dates : days[d] # None /\ days[d].closed /\ days[d].healthy /\ ~days[d].credited}
CreditedDays(a) ==
  {d \in Dates : /\ days[d] # None /\ days[d].closed /\ days[d].healthy
                 /\ days[d].credited /\ days[d].epoch = a}

\* Each counter is the number of days that earned it and have not lost it again, in
\* whatever order days close, close again and hear of bounces: no day counts twice or
\* for both, none is taken back twice, and `greatest(..., 0)` never hides a miscount.
\* And no day counts from after the last date that advanced its counter, so a date that
\* was taken back can never be earned again.
DaysCounted ==
  /\ healthyDays = Cardinality(CountedDays)
  /\ \A a \in Dates : epochs[a] # None => epochs[a].qualifying = Cardinality(CreditedDays(a))
  /\ \A d \in CountedDays : advancedOn # None /\ d <= advancedOn
  /\ \A a \in Dates : \A d \in CreditedDays(a) :
       epochs[a].qualifiedOn # None /\ epochs[a].started <= d /\ d <= epochs[a].qualifiedOn

\* The cap rises only when a day closes healthy or an admin acts: no signal, no
\* inactivity and no new epoch ever raises it (recordBounceAgainstDay: "the cap
\* falls, never rises"); and a day that was closed is never judged better again.
CapRisesOnlyEarned ==
  [][/\ CapOf(healthyDays, lowered, raised, EpochOf(recovery, epochs))' >
          CapOf(healthyDays, lowered, raised, EpochOf(recovery, epochs)) =>
        \/ commands' > commands
        \/ \E d \in Dates : days[d] # None /\ ~days[d].closed /\ days'[d].closed /\ days'[d].healthy
     /\ \A d \in Dates : days[d] # None /\ days[d].closed =>
          days'[d].closed /\ (days'[d].healthy => days[d].healthy)]_vars

=============================================================================
