----------------------------- MODULE Suppression -----------------------------
(***************************************************************************)
(* Suppressions (packages/domain/suppression): the insert-only events, the *)
(* ten-minute correction window and its finalizer, the journal outside the *)
(* database, the copies a firm merge makes (crm/merges.ts), and the replay *)
(* after a point-in-time restore.                                          *)
(*                                                                         *)
(* A command is its journal writes and its commit, each a step of its own: *)
(* a process may die, or its transaction roll back, between any two.       *)
(***************************************************************************)
EXTENDS Naturals

CONSTANTS
  Stops,       \* event ids that suppress, the copies on a survivor included
  Lifts,       \* event ids that supersede one
  Target,      \* supersedes_event_id
  Copy,        \* mergeCopyId on the one survivor; None of what no merge copies
  Manual,      \* stops whose source is salesperson_manual
  Named,       \* the manual stops whose command names a firm
  Old,         \* the handle stops of these whose object was written before objects had
               \* a firm
  Corrections, \* lifts whose source is mistaken_entry_correction
  Legacy,      \* lifts an old binary may have journalled before its commit
  Window,      \* MANUAL_SUPPRESSION_CORRECTION_SECONDS, in ticks
  Margin,      \* how far before the restore point a replay reads, in ticks
  LastTick,    \* bound on the instants that pass
  MaxRestores, \* bound on the point-in-time restores
  None         \* SQL NULL

Events == Stops \cup Lifts

\* Ids are hashes and never meet; a copy's id is told from every other by its
\* prefix, and a copied lift lifts the copy of what the lift lifts.
ASSUME IdsAssumption ==
  /\ Stops \cap Lifts = {}
  /\ None \notin Events \cup Nat
  /\ Manual \subseteq Stops /\ Named \subseteq Manual /\ Old \subseteq Named
  /\ Corrections \subseteq Lifts /\ Legacy \subseteq Lifts
  /\ Target \in [Lifts -> Stops]
  /\ Copy \in [Events -> Events \cup {None}]
  /\ \A e, f \in Events : Copy[e] = Copy[f] => e = f \/ Copy[e] = None
  /\ \A s \in Stops : Copy[s] # None =>
       Copy[s] \in Stops /\ Copy[Copy[s]] = None /\ (Copy[s] \in Manual <=> s \in Manual)
  /\ \A l \in Lifts :
       /\ Copy[l] # None <=> Copy[Target[l]] # None
       /\ Copy[l] # None => /\ Copy[l] \in Lifts /\ Copy[Copy[l]] = None
                            /\ Target[Copy[l]] = Copy[Target[l]]
                            /\ Copy[l] \in Corrections <=> l \in Corrections

ASSUME BoundsAssumption ==
  /\ Window \in Nat \ {0} /\ Margin \in Nat /\ LastTick \in Nat /\ MaxRestores \in Nat

\* isMergeCopyId.
Copies == {Copy[e] : e \in Events} \ {None}

Ticks == 0..LastTick

VARIABLES
  rows,      \* suppression_events: recorded_at, or None while there is no row
  claim,     \* suppression_finalizations.outcome
  hold,      \* stops whose manual_suppression_review hold is open
  job,       \* stops whose suppression.finalize job is owed
  merged,    \* the source firm is merged into the survivor
  journal,   \* the object at each event's key
  stopping,  \* the recordSuppression between its journal write and its commit
  lifting,   \* the correction or supersession that holds the history lock
  merging,   \* the merge that holds the gate and the history lock
  unwritten, \* lifts that committed and whose journal write is still to come
  clock,     \* database time
  saved,     \* the state the next restore goes back to, and its instant
  from,      \* the instant the replay reads the journal from
  serving,   \* the services run
  restores,  \* how many restores there were
  acked,     \* (history) when each event's command last committed
  lost       \* (history) lifts whose journal write never came

db == <<rows, claim, hold, job, merged>>
commands == <<stopping, lifting, merging, unwritten>>
recovery == <<saved, from, serving, restores>>
vars == <<db, journal, commands, clock, recovery, acked, lost>>

Outcomes == {"none", "finalized", "corrected"}

\* at: LastModified. committed: the release marker.
Objects == [at : Ticks, recorded : Ticks, committed : BOOLEAN]

Db == [at : Ticks, rows : [Events -> Ticks \cup {None}], claim : [Stops -> Outcomes],
       hold : SUBSET Stops, job : SUBSET Stops, merged : BOOLEAN]

\* NULL is no object, no state and no command.
ASSUME NullAssumption ==
  /\ None \notin Objects \cup Db
  /\ None \notin [event : Stops, now : Ticks] \cup [now : Ticks, copied : SUBSET Stops]
  /\ None \notin [event : Lifts, now : Ticks, claimed : BOOLEAN]

Current == [at |-> clock, rows |-> rows, claim |-> claim, hold |-> hold, job |-> job,
            merged |-> merged]

Init ==
  /\ rows = [e \in Events |-> None]
  /\ claim = [s \in Stops |-> "none"]
  /\ hold = {} /\ job = {}
  /\ merged = FALSE
  /\ journal = [e \in Events |-> None]
  /\ stopping = None /\ lifting = None /\ merging = None
  /\ unwritten = {}
  /\ clock = 0
  /\ saved = None
  /\ from = None
  /\ serving = TRUE
  /\ restores = 0
  /\ acked = [e \in Events |-> None]
  /\ lost = {}

-----------------------------------------------------------------------------
(* Reading the history.                                                    *)

Recorded(e) == rows[e] # None

\* alreadySuperseded, and the NOT EXISTS of effective_suppressions.
Unlifted(s) == \A l \in Lifts : Recorded(l) => Target[l] # s

Effective(s) == Recorded(s) /\ Unlifted(s)

\* A plausible slip: the deadline is inclusive.
InWindowInclusive(recorded, now) == now <= recorded + Window

\* mayCorrectSuppression: the deadline is exclusive.
InWindow(recorded, now) == now < recorded + Window

\* lockSendGateForStopFact and lockSuppressionHistory.
GateFree == stopping = None /\ merging = None
HistoryFree == lifting = None /\ merging = None

\* A plausible slip: a merge takes the history lock only.
MergeLocksHistoryOnly == HistoryFree

MergeLocks == GateFree /\ HistoryFree

\* The conditional put: an object that is there stays as it is, and a 412 is success.
Appended(objects, e, recorded, committed) ==
  [objects EXCEPT ![e] =
     IF @ = None THEN [at |-> clock, recorded |-> recorded, committed |-> committed] ELSE @]

-----------------------------------------------------------------------------
(* recordSuppression.                                                      *)

\* The gate, the existing event, and the append before the row. A window has to
\* close before LastTick.
JournalStop(s) ==
  /\ serving
  /\ s \notin Copies
  /\ GateFree
  /\ ~Recorded(s)
  /\ s \in Manual => clock + Window <= LastTick
  /\ journal' = Appended(journal, s, clock, FALSE)
  /\ stopping' = [event |-> s, now |-> clock]
  /\ UNCHANGED <<db, lifting, merging, unwritten, clock, recovery, acked, lost>>

\* The row, and a claim at once, or the finalizer and, on the firm named, the review hold.
CommitStop ==
  /\ stopping # None
  /\ LET s == stopping.event IN
     /\ rows' = [rows EXCEPT ![s] = stopping.now]
     /\ acked' = [acked EXCEPT ![s] = clock]
     /\ IF s \in Manual
        THEN /\ hold' = hold \cup ({s} \cap Named)
             /\ job' = job \cup {s} /\ UNCHANGED claim
        ELSE claim' = [claim EXCEPT ![s] = "finalized"] /\ UNCHANGED <<hold, job>>
  /\ stopping' = None
  /\ UNCHANGED <<merged, journal, lifting, merging, unwritten, clock, recovery, lost>>

\* The command fails after its journal write, or its process dies.
RollBackStop ==
  /\ stopping # None
  /\ stopping' = None
  /\ UNCHANGED <<db, journal, lifting, merging, unwritten, clock, recovery, acked, lost>>

-----------------------------------------------------------------------------
(* recordCorrection and recordAdminSupersession.                           *)

\* Both: the history lock, the original, alreadySuperseded.
MayLift(l) ==
  /\ serving
  /\ l \notin Copies
  /\ HistoryFree
  /\ Effective(Target[l])

BeginCorrection(l) ==
  /\ l \in Corrections
  /\ MayLift(l)
  /\ Target[l] \in Manual
  /\ InWindow(rows[Target[l]], clock)
  /\ lifting' = [event |-> l, now |-> clock, claimed |-> FALSE]
  /\ UNCHANGED <<db, journal, stopping, merging, unwritten, clock, recovery, acked, lost>>

BeginSupersession(l) ==
  /\ l \notin Corrections
  /\ MayLift(l)
  /\ lifting' = [event |-> l, now |-> clock, claimed |-> FALSE]
  /\ UNCHANGED <<db, journal, stopping, merging, unwritten, clock, recovery, acked, lost>>

Correcting == lifting # None /\ lifting.event \in Corrections

\* A plausible slip: the claim is made whether or not another has been.
ClaimableAlways(s) == TRUE

\* ON CONFLICT DO NOTHING returns a row: nobody has decided the event.
Claimable(s) == claim[s] = "none"

\* claimFinalization, uncommitted; a correction that loses it refuses.
ClaimCorrection ==
  /\ Correcting
  /\ ~lifting.claimed
  /\ IF Claimable(Target[lifting.event])
     THEN lifting' = [lifting EXCEPT !.claimed = TRUE]
     ELSE lifting' = None
  /\ UNCHANGED <<db, journal, stopping, merging, unwritten, clock, recovery, acked, lost>>

\* A plausible slip: the survivor's copy is forgotten.
LiftedTogetherAlone(l) == {l}

\* liftMergeCopies: the lift, and its copy on a survivor whose copy of the stop is
\* not lifted yet.
LiftedTogether(l) ==
  {l} \cup {k \in Lifts : Copy[l] = k /\ Effective(Target[k])}

CommitLift ==
  /\ lifting # None
  /\ Correcting => lifting.claimed
  /\ LET l == lifting.event
         s == Target[l]
         new == LiftedTogether(l) IN
     /\ rows' = [e \in Events |-> IF e \in new THEN lifting.now ELSE rows[e]]
     /\ claim' = IF Correcting THEN [claim EXCEPT ![s] = "corrected"] ELSE claim
     /\ hold' = hold \ {s}
     /\ unwritten' = unwritten \cup new
     /\ acked' = [e \in Events |-> IF e \in new THEN clock ELSE acked[e]]
  /\ lifting' = None
  /\ UNCHANGED <<job, merged, journal, stopping, merging, clock, recovery, lost>>

RollBackLift ==
  /\ lifting # None
  /\ lifting' = None
  /\ UNCHANGED <<db, journal, stopping, merging, unwritten, clock, recovery, acked, lost>>

\* journalCommittedLifts, after the commit and marked.
JournalLift(l) ==
  /\ l \in unwritten
  /\ journal' = Appended(journal, l, rows[l], TRUE)
  /\ unwritten' = unwritten \ {l}
  /\ UNCHANGED <<db, stopping, lifting, merging, clock, recovery, acked, lost>>

\* Every retry of the append failed, or the process died first.
LoseLift(l) ==
  /\ l \in unwritten
  /\ unwritten' = unwritten \ {l}
  /\ lost' = lost \cup {l}
  /\ UNCHANGED <<db, journal, stopping, lifting, merging, clock, recovery, acked>>

\* A binary of before the marker journalled its release inside a transaction that
\* rolled back.
JournalLegacyLift(l) ==
  /\ l \in Legacy
  /\ journal[l] = None
  /\ MayLift(l)
  /\ journal' = Appended(journal, l, clock, FALSE)
  /\ UNCHANGED <<db, commands, clock, recovery, acked, lost>>

\* finalizeManualSuppression at its deadline. It waits for an uncommitted claim.
Finalize(s) ==
  /\ serving
  /\ s \in job
  /\ ~InWindow(rows[s], clock)
  /\ ~(Correcting /\ lifting.claimed /\ Target[lifting.event] = s)
  /\ IF Claimable(s)
     THEN claim' = [claim EXCEPT ![s] = "finalized"] /\ hold' = hold \ {s}
     ELSE UNCHANGED <<claim, hold>>
  /\ job' = job \ {s}
  /\ UNCHANGED <<rows, merged, journal, commands, clock, recovery, acked, lost>>

-----------------------------------------------------------------------------
(* mergeFirms, as far as preserveFirmSuppressions.                         *)

BeginMerge ==
  /\ serving
  /\ ~merged
  /\ MergeLocks
  /\ merging' = [now |-> clock, copied |-> {}]
  /\ UNCHANGED <<db, journal, stopping, lifting, unwritten, clock, recovery, acked, lost>>

\* The source's events whose copy the survivor does not have.
Uncopied == {e \in Events : Copy[e] # None /\ Recorded(e) /\ ~Recorded(Copy[e])}

\* A copied stop is journalled before its row.
JournalCopy(s) ==
  /\ merging # None
  /\ s \in (Uncopied \cap Stops) \ merging.copied
  /\ journal' = Appended(journal, Copy[s], merging.now, FALSE)
  /\ merging' = [merging EXCEPT !.copied = @ \cup {s}]
  /\ UNCHANGED <<db, stopping, lifting, unwritten, clock, recovery, acked, lost>>

\* The bare rows: no claim, no hold, no finalizer. A copied lift of a copy that is
\* lifted already fails on the unique index, and the merge with it.
CommitMerge ==
  /\ merging # None
  /\ Uncopied \cap Stops = merging.copied
  /\ \A l \in Uncopied \cap Lifts : Unlifted(Copy[Target[l]])
  /\ LET new == {Copy[e] : e \in Uncopied} IN
     /\ rows' = [e \in Events |-> IF e \in new THEN merging.now ELSE rows[e]]
     /\ acked' = [e \in Events |-> IF e \in new THEN clock ELSE acked[e]]
     /\ unwritten' = unwritten \cup (new \cap Lifts)
  /\ merged' = TRUE
  /\ merging' = None
  /\ UNCHANGED <<claim, hold, job, journal, stopping, lifting, clock, recovery, lost>>

RollBackMerge ==
  /\ merging # None
  /\ merging' = None
  /\ UNCHANGED <<db, journal, stopping, lifting, unwritten, clock, recovery, acked, lost>>

-----------------------------------------------------------------------------
(* The restore, and replaySuppressionJournal.                              *)

\* The instant the next restore will go back to.
Backup ==
  /\ serving
  /\ saved = None
  /\ restores < MaxRestores
  /\ saved' = Current
  /\ UNCHANGED <<db, journal, commands, clock, from, serving, restores, acked, lost>>

\* The services stop; the database goes back to its state at the restore point.
Restore ==
  /\ serving
  /\ saved # None
  /\ rows' = saved.rows /\ claim' = saved.claim /\ hold' = saved.hold
  /\ job' = saved.job /\ merged' = saved.merged
  /\ stopping' = None /\ lifting' = None /\ merging' = None
  /\ unwritten' = {} /\ lost' = lost \cup unwritten
  /\ from' = IF saved.at < Margin THEN 0 ELSE saved.at - Margin
  /\ serving' = FALSE
  /\ restores' = restores + 1
  /\ saved' = None
  /\ UNCHANGED <<journal, clock, acked>>

\* A plausible slip: an object of the restore point's own instant is left out.
ReadAfter == {e \in Events : journal[e] # None /\ journal[e].at > from}

\* source.read, by LastModified.
Read == {e \in Events : journal[e] # None /\ journal[e].at >= from}

\* A plausible slip: what the database holds is applied again.
MissingOrKnown == Read

\* The records this database is missing.
Missing == {e \in Read : ~Recorded(e)}

Marked(l) == journal[l].committed

\* The corrections that claim their original, as opposed to copies of one.
Claiming == Corrections \ Copies

\* staleCorrections: the original was finalized, or is terminal.
Stale(l) ==
  /\ l \in Claiming
  /\ LET s == Target[l] IN
     IF claim[s] # "none" THEN claim[s] = "finalized" ELSE s \in Missing \ Manual

\* J3 and J4: the releases that may compete for their original.
Valid == {l \in Missing \cap Lifts : Marked(l) /\ ~Stale(l)}

Rivals(s) == {l \in Valid : Target[l] = s}

\* Earliest first; the ids, being hashes, order what was recorded at one instant.
Earliest(lifts) ==
  CHOOSE l \in lifts : \A r \in lifts : journal[l].recorded <= journal[r].recorded

\* R2: the supersession the database holds, or else the earliest.
Winners == {l \in Valid : Unlifted(Target[l]) /\ l = Earliest(Rivals(Target[l]))}

\* R3: a release whose original is nowhere is an orphan.
Placed == {l \in Winners : Recorded(Target[l]) \/ Target[l] \in Missing}

Inserted == (Missing \cap Stops) \cup Placed

\* The stops a replayed correction takes back, which decides them.
TakenBack == {Target[l] : l \in Placed \cap Claiming}

\* Stops that come back, but for merge copies, which are rows and nothing else.
Returned == (Missing \cap Stops) \ Copies

\* The window is measured from the journalled instant.
Reopened == {s \in Returned \cap Manual : InWindow(journal[s].recorded, clock)}

\* holdFirm: the firm the object names. What an old object names is not known, and its
\* stop is reported (unreconstructedHolds).
Reheld == Reopened \cap (Named \ Old)

Finalized == Returned \ (Reopened \cup TakenBack)

\* A plausible slip: a supersession leaves the hold to a finalizer.
RelievedByCorrection == TakenBack

\* The stops whose hold a replayed lift ends.
Relieved == {Target[l] : l \in Placed \ Copies}

\* One transaction, under the gate and the history lock. It may be run again.
Replay ==
  /\ from # None
  /\ GateFree /\ HistoryFree
  /\ rows' = [e \in Events |-> IF e \in Inserted THEN journal[e].recorded ELSE rows[e]]
  /\ claim' = [s \in Stops |-> IF s \in TakenBack THEN "corrected"
                               ELSE IF s \in Finalized THEN "finalized" ELSE claim[s]]
  /\ hold' = (hold \cup Reheld) \ Relieved
  /\ job' = job \cup Reopened
  /\ serving' = TRUE
  /\ UNCHANGED <<merged, journal, commands, clock, saved, from, restores, acked, lost>>

\* A session idle in its transaction is ended (idle_in_transaction_session_timeout)
\* long before Margin is over: what a transaction journals and its commit are at
\* most Margin apart.
Tick ==
  /\ clock < LastTick
  /\ stopping # None => clock < stopping.now + Margin
  /\ merging # None => clock < merging.now + Margin
  /\ clock' = clock + 1
  /\ UNCHANGED <<db, journal, commands, recovery, acked, lost>>

-----------------------------------------------------------------------------
Next ==
  \/ \E s \in Stops : JournalStop(s) \/ Finalize(s) \/ JournalCopy(s)
  \/ \E l \in Lifts : \/ BeginCorrection(l) \/ BeginSupersession(l)
                      \/ JournalLift(l) \/ LoseLift(l) \/ JournalLegacyLift(l)
  \/ CommitStop \/ RollBackStop
  \/ ClaimCorrection \/ CommitLift \/ RollBackLift
  \/ BeginMerge \/ CommitMerge \/ RollBackMerge
  \/ Backup \/ Restore \/ Replay
  \/ Tick

Spec == Init /\ [][Next]_vars

\* What the code's scheduling justifies: time passes, a transaction ends, a restore is
\* followed by its replay, and the queue runs a finalizer that is due until it is done.
Fairness ==
  /\ SF_vars(Tick)
  /\ WF_vars(~serving /\ Replay)
  /\ WF_vars(CommitStop \/ RollBackStop)
  /\ WF_vars(CommitLift \/ RollBackLift)
  /\ WF_vars(RollBackMerge)
  /\ \A s \in Stops : WF_vars(Finalize(s))

FairSpec == Spec /\ Fairness

-----------------------------------------------------------------------------
(* Properties.                                                             *)

Commands ==
  /\ stopping \in {None} \cup [event : Stops, now : Ticks]
  /\ lifting \in {None} \cup [event : Lifts, now : Ticks, claimed : BOOLEAN]
  /\ merging \in {None} \cup [now : Ticks, copied : SUBSET Stops]
  /\ unwritten \subseteq Lifts

\* Every table, object and command in flight has its type, and the two locks
\* have at most one holder each.
TypeOK ==
  /\ Current \in Db /\ saved \in Db \cup {None}
  /\ journal \in [Events -> Objects \cup {None}]
  /\ Commands
  /\ stopping # None => merging = None
  /\ lifting # None => merging = None
  /\ clock \in Ticks
  /\ from \in Ticks \cup {None}
  /\ serving \in BOOLEAN
  /\ restores \in 0..MaxRestores
  /\ acked \in [Events -> Ticks \cup {None}]
  /\ lost \subseteq Lifts

\* One winner: a stop is decided `corrected` exactly when a correction of it is in
\* the history, and the finalizer's answer excludes one, whatever of either a
\* restore took away and a replay put back (finalize.ts, replay.ts).
OneDecision ==
  \A s \in Stops \ Copies :
    claim[s] = "corrected" <=> \E l \in Claiming : Recorded(l) /\ Target[l] = s

\* The manual stops that are neither decided nor lifted.
Undecided == {s \in Manual \ Copies : claim[s] = "none" /\ Effective(s)}

\* The review hold of a stop that named a firm is open exactly while the stop is undecided,
\* but for an old object's after a restore, and the finalizer of every undecided stop is
\* owed: no correction, supersession, finalizer, restore or replay leaves a hold behind,
\* opens one where none was, releases one early, or leaves a window open for want of a job.
HeldWhileUndecided ==
  /\ hold \subseteq Undecided \cap Named
  /\ \A s \in (Undecided \cap Named) \ hold : s \in Old /\ restores # 0
  /\ \A s \in Manual \ Copies : Recorded(s) /\ claim[s] = "none" => s \in job

\* The margin of a replay covers an acknowledged stop: its journal object, which an
\* earlier attempt may have written, is at most Margin older than its commit.
Covered(s) == acked[s] # None /\ acked[s] <= journal[s].at + Margin

\* The history is what committed, whatever a restore lost and a replay put back: a stop
\* that was acknowledged is in the database whenever the services run, if the margin
\* covers it; and a lift is there only if its command committed at some time, for the one
\* journal object a replay must never apply is a release that did not (events.ts,
\* replay.ts).
AckedStopsKept ==
  /\ serving => \A s \in Stops : Covered(s) => Recorded(s)
  /\ \A l \in Lifts : Recorded(l) => acked[l] # None

\* The journal has no marked object of this lift: its write never came, or an old binary's
\* unmarked object was there already.
Unmarked(l) == l \in lost \/ (journal[l] # None /\ ~Marked(l))

\* A survivor's copy is lifted with the stop it copies, whichever of merge and lift came
\* first and whatever restores undid, unless a lift of the copy was not marked in the
\* journal. The margin covers both stops: a stop that a replay left out may come back with
\* a later one, and its lift with it, to a survivor that was merged in between.
LiftReachesSurvivor ==
  serving => \A l \in Lifts :
    LET s == Target[l] IN
    Recorded(l) /\ Copy[l] # None /\ Covered(s) /\ Covered(Copy[s]) =>
      ~Effective(Copy[s]) \/ \E x \in Lifts : Target[x] = Copy[s] /\ Unmarked(x)

\* A replay that is run again changes nothing.
ReplayIdempotent ==
  [][Replay => (Inserted = {} /\ TakenBack = {} /\ Reopened = {})']_vars

\* Every manual stop is decided in the end, or is gone with a restore.
EveryWindowCloses ==
  \A s \in Manual \ Copies : Recorded(s) ~> (claim[s] # "none" \/ ~Recorded(s))
=============================================================================
