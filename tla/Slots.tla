-------------------------------- MODULE Slots --------------------------------
(***************************************************************************)
(* Which lane each runner slot of the worker polls (apps/worker/src/       *)
(* runner/slots.ts), in the loop that polls it (bootstrap/worker.ts) and   *)
(* the pass it makes (runOnce in runner/jobRunner.ts). One statement is    *)
(* one action: between the two lanes of a poll other slots claim and new   *)
(* jobs arrive. LanesInit, LanesSpec, ... are named apart from those of    *)
(* JobQueue, which JobQueueProofs extends together with this module.       *)
(***************************************************************************)
EXTENDS Naturals, Sequences

CONSTANTS
  Concurrency,       \* config.concurrency, the number of slots
  UrgentStreakLimit, \* URGENT_STREAK_LIMIT
  MaxWaiting         \* bound on the runnable jobs of one lane

ASSUME LanesAssumption ==
  /\ Concurrency \in Nat \ {0}
  /\ UrgentStreakLimit \in Nat \ {0}
  /\ MaxWaiting \in Nat \ {0}

Classes == {"urgent", "bulk"}
Slots == 0..(Concurrency - 1)

VARIABLES
  waiting,  \* the jobs of each lane a claim would find
  slot      \* each slot's lane memory and the poll it is in

laneVars == <<waiting, slot>>

\* lanes: those the poll has not tried yet. claimed: claimedClass.
\* run: a flexible slot's urgent claims since it last looked at bulk first or lost a
\* poll, which no code keeps; it counts to one more than the limit.
SlotRows == [pc : {"idle", "claiming", "working"},
             lanes : {<<>>, <<"urgent">>, <<"bulk">>, <<"urgent", "bulk">>, <<"bulk", "urgent">>},
             claimed : Classes \cup {"none"}, streak : 0..UrgentStreakLimit,
             flipped : BOOLEAN, run : 0..(UrgentStreakLimit + 1)]

LanesInit ==
  /\ waiting = [c \in Classes |-> 0]
  /\ slot = [s \in Slots |-> [pc |-> "idle", lanes |-> <<>>, claimed |-> "none",
                              streak |-> 0, flipped |-> FALSE, run |-> 0]]

-----------------------------------------------------------------------------
UrgentFirst == <<"urgent", "bulk">>
BulkFirst == <<"bulk", "urgent">>

\* slotClasses.
SlotClasses(s) ==
  IF Concurrency > 1 /\ s = 0 THEN <<"urgent">>
  ELSE IF Concurrency >= 3 /\ s = 1 THEN <<"bulk">>
  ELSE UrgentFirst

Flexible(s) == Len(SlotClasses(s)) = 2

\* A plausible slip: the limit compared with >.
FlipsLate(s) == Flexible(s) /\ slot[s].streak > UrgentStreakLimit

Flips(s) == Flexible(s) /\ slot[s].streak >= UrgentStreakLimit

\* A plausible slip: any claim ends the streak, an urgent one too.
StreakForgotten(s) == 0

\* record(): consecutive unflipped polls that claimed urgent.
Streak(s) ==
  IF Flexible(s) /\ ~slot[s].flipped /\ slot[s].claimed = "urgent"
  THEN slot[s].streak + 1 ELSE 0

\* The ghost `run` after a claim.
RunAfter(s, class) ==
  IF ~Flexible(s) \/ slot[s].flipped \/ class = "bulk" THEN 0
  ELSE IF slot[s].run > UrgentStreakLimit THEN slot[s].run ELSE slot[s].run + 1

-----------------------------------------------------------------------------
\* lanes.order(), as runOnce is called.
Order(s) ==
  /\ slot[s].pc = "idle"
  /\ slot' = [slot EXCEPT
       ![s] = [slot[s] EXCEPT !.pc = "claiming", !.claimed = "none", !.flipped = Flips(s),
                              !.lanes = IF Flips(s) THEN BulkFirst ELSE SlotClasses(s),
                              !.run = IF Flips(s) THEN 0 ELSE slot[s].run]]
  /\ UNCHANGED waiting

\* claimJobs for the next lane of the poll, with a limit of one.
ClaimLane(s) ==
  /\ slot[s].pc = "claiming"
  /\ slot[s].lanes # <<>>
  /\ LET class == Head(slot[s].lanes) IN
     IF waiting[class] > 0
     THEN /\ waiting' = [waiting EXCEPT ![class] = @ - 1]
          /\ slot' = [slot EXCEPT
               ![s] = [slot[s] EXCEPT !.pc = "working", !.claimed = class, !.lanes = <<>>,
                                      !.run = RunAfter(s, class)]]
     ELSE /\ slot' = [slot EXCEPT ![s] = [slot[s] EXCEPT !.lanes = Tail(slot[s].lanes)]]
          /\ UNCHANGED waiting

\* The poll is over, with or without a job: lanes.record(claimedClass).
Record(s) ==
  /\ \/ slot[s].pc = "working"
     \/ slot[s].pc = "claiming" /\ slot[s].lanes = <<>>
  /\ slot' = [slot EXCEPT
       ![s] = [slot[s] EXCEPT !.pc = "idle", !.streak = Streak(s),
                              !.run = IF slot[s].claimed = "none" THEN 0 ELSE slot[s].run]]
  /\ UNCHANGED waiting

\* A statement of the pass throws, the heartbeat after the job included: the loop
\* reports it and polls again, and record() was not reached.
Throw(s) ==
  /\ slot[s].pc # "idle"
  /\ slot' = [slot EXCEPT ![s] = [slot[s] EXCEPT !.pc = "idle", !.lanes = <<>>, !.run = 0]]
  /\ UNCHANGED waiting

\* A job of the lane becomes runnable.
Arrive(class) ==
  /\ waiting[class] < MaxWaiting
  /\ waiting' = [waiting EXCEPT ![class] = @ + 1]
  /\ UNCHANGED slot

LanesNext ==
  \/ \E s \in Slots : Order(s) \/ ClaimLane(s) \/ Record(s) \/ Throw(s)
  \/ \E class \in Classes : Arrive(class)

LanesSpec == LanesInit /\ [][LanesNext]_laneVars

\* startLoop polls for ever and a handler returns. No statement throws every time it is
\* reached: neither the claim of a lane nor what lies between a claim and record().
LanesFairness ==
  \A s \in Slots :
    /\ WF_laneVars(Order(s) \/ ClaimLane(s) \/ Record(s))
    /\ SF_laneVars(Record(s))
    /\ \A class \in Classes : SF_laneVars(ClaimLane(s) /\ Head(slot[s].lanes) = class)

LanesFairSpec == LanesSpec /\ LanesFairness

-----------------------------------------------------------------------------
(* Properties.                                                             *)

\* The lane memory has its type; in particular the streak never passes the limit
\* it is compared with, so it cannot run away from the poll that should flip.
LanesTypeOK ==
  /\ waiting \in [Classes -> 0..MaxWaiting]
  /\ slot \in [Slots -> SlotRows]

\* A flexible slot claims urgent work at most URGENT_STREAK_LIMIT times before it
\* looks at bulk first ("How many polls in a row a flexible slot may claim urgent
\* work before it looks at bulk first", slots.ts), as far as its polls are recorded.
UrgentRunsBounded ==
  \A s \in Slots : Flexible(s) => slot[s].run <= UrgentStreakLimit

\* Bulk work that waits is claimed, however much urgent work keeps arriving ("so
\* bulk work cannot be starved by sustained urgent load", slots.ts).
BulkIsClaimed ==
  waiting["bulk"] > 0 ~> \E s \in Slots : slot[s].pc = "working" /\ slot[s].claimed = "bulk"

=============================================================================
