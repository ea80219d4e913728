----------------------------- MODULE JobLedger -----------------------------
(***************************************************************************)
(* What the job queue promises its handlers: the bounded units of work of  *)
(* one job are committed one after the other, each exactly once, however   *)
(* many processes claim the job, lose its lease or die; a finished job is  *)
(* finished for ever; a dead one comes back only as itself, resuming after *)
(* the last committed unit.                                                *)
(***************************************************************************)
EXTENDS Naturals, Sequences

CONSTANT Jobs

VARIABLES status,     \* "absent" | "open" | "dead" | "done"
          committed   \* the units of work committed so far, in order

vars == <<status, committed>>

Init ==
  /\ status = [j \in Jobs |-> "absent"]
  /\ committed = [j \in Jobs |-> <<>>]

NextUnit(j) == Append(committed[j], Len(committed[j]) + 1)

\* A scheduler pass materializes any number of jobs at once.
Materialize(S) ==
  /\ \A j \in S : status[j] = "absent"
  /\ status' = [j \in Jobs |-> IF j \in S THEN "open" ELSE status[j]]
  /\ UNCHANGED committed

Work(j) ==
  /\ status[j] = "open"
  /\ committed' = [committed EXCEPT ![j] = NextUnit(j)]
  /\ UNCHANGED status

\* The last unit commits with the completion.
Finish(j) ==
  /\ status[j] = "open"
  /\ status' = [status EXCEPT ![j] = "done"]
  /\ committed' = [committed EXCEPT ![j] = NextUnit(j)]

\* A job whose effect is not in the database commits no unit here.
FinishOutside(j) ==
  /\ status[j] = "open"
  /\ status' = [status EXCEPT ![j] = "done"]
  /\ UNCHANGED committed

Bury(j) ==
  /\ status[j] = "open"
  /\ status' = [status EXCEPT ![j] = "dead"]
  /\ UNCHANGED committed

Revive(j) ==
  /\ status[j] = "dead"
  /\ status' = [status EXCEPT ![j] = "open"]
  /\ UNCHANGED committed

Next ==
  \/ \E S \in SUBSET Jobs : Materialize(S)
  \/ \E j \in Jobs :
       Work(j) \/ Finish(j) \/ FinishOutside(j) \/ Bury(j) \/ Revive(j)

Spec == Init /\ [][Next]_vars

=============================================================================
