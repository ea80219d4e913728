-------------------------- MODULE SuppressionProofs --------------------------
(***************************************************************************)
(* What holds of any stops, lifts and merge copies, for any window, margin *)
(* and number of restores.                                                 *)
(***************************************************************************)
EXTENDS Suppression, WellFoundedInduction, TLAPS

-----------------------------------------------------------------------------
(* The inductive invariant.                                                *)

\* The hold of a stop that named a firm is open while the stop is undecided, but for an old
\* object's after a restore.
HoldOf(s, open, undecided) ==
  /\ open => undecided /\ s \in Named
  /\ undecided /\ s \in Named /\ (s \in Old => restores = 0) => open

\* A table of events and the decisions that go with it, current or saved: a lift follows
\* what it lifts, what has no row has no decision and no finalizer, a decision is a correction
\* exactly when one has a row, and the holds and finalizers are those of the undecided.
Sound(table, decided, held, owed) ==
  /\ \A l \in Lifts : table[l] # None => table[Target[l]] # None /\ acked[l] # None
  /\ \A s \in Stops : table[s] = None => decided[s] = "none"
  /\ \A s \in Stops \ Copies :
       decided[s] = "corrected" <=> \E l \in Claiming : table[l] # None /\ Target[l] = s
  /\ \A s \in Stops :
       HoldOf(s, s \in held, /\ s \in Manual \ Copies /\ decided[s] = "none" /\ table[s] # None
                             /\ \A l \in Lifts : table[l] # None => Target[l] # s)
  /\ \A s \in Manual \ Copies : table[s] # None /\ decided[s] = "none" => s \in owed
  /\ \A s \in owed : table[s] # None

\* What the commands in flight rely on while they hold their locks.
StoppingSound ==
  stopping # None => /\ stopping.event \notin Copies /\ ~Recorded(stopping.event)
                     /\ journal[stopping.event] # None

LiftingSound ==
  lifting # None =>
    /\ lifting.event \notin Copies /\ Effective(Target[lifting.event])
    /\ lifting.event \in Corrections => Target[lifting.event] \in Manual
    /\ lifting.claimed => lifting.event \in Corrections /\ claim[Target[lifting.event]] = "none"

MergingSound ==
  merging # None => \A s \in merging.copied : Copy[s] # None /\ journal[Copy[s]] # None

InFlight ==
  StoppingSound /\ LiftingSound /\ MergingSound /\ \A l \in unwritten : Recorded(l)

\* What was acknowledged: a stop is in the journal, a correction is of a manual stop, and
\* of the lifts the journal marks those that committed.
Acknowledged ==
  /\ \A s \in Stops : acked[s] # None => journal[s] # None
  /\ \A l \in Corrections \ Copies : acked[l] # None => Target[l] \in Manual
  /\ \A l \in Lifts : journal[l] # None /\ journal[l].committed => acked[l] # None

\* A covered stop is in the database; or the replay that is due reads it; and it is in the
\* backup, or came to be after it.
Restorable ==
  /\ serving => \A s \in Stops : Covered(s) => Recorded(s)
  /\ from # None => restores # 0
  /\ ~serving => from # None /\ \A s \in Stops : Covered(s) /\ ~Recorded(s) => journal[s].at >= from
  /\ saved # None =>
       /\ serving /\ saved.at <= clock /\ restores < MaxRestores
       /\ \A s \in Stops : Covered(s) /\ saved.rows[s] = None => acked[s] >= saved.at

IInv ==
  /\ TypeOK
  /\ Sound(rows, claim, hold, job)
  /\ saved # None => Sound(saved.rows, saved.claim, saved.hold, saved.job)
  /\ InFlight
  /\ Acknowledged
  /\ Restorable

-----------------------------------------------------------------------------
(* The ids, the types and the initial state.                               *)

LEMMA Ids ==
  /\ Stops \cap Lifts = {} /\ Stops \subseteq Events /\ Lifts \subseteq Events
  /\ Manual \subseteq Stops /\ Corrections \subseteq Lifts /\ Named \subseteq Manual
  /\ \A l \in Lifts : Target[l] \in Stops
  /\ None \notin Events /\ None \notin Nat
  /\ \A s \in Stops : Copy[s] \in (Stops \cap Copies) \cup {None}
  /\ \A l \in Lifts : Copy[l] \in (Lifts \cap Copies) \cup {None}
  /\ \A e \in Events : Copy[e] \in Events \cup {None}
  BY IdsAssumption DEF Events, Copies

\* A copied lift lifts the copy of what the lift lifts.
LEMMA CopiedLifts ==
  ASSUME NEW l \in Lifts, Copy[l] # None
  PROVE  /\ Copy[l] \in Lifts /\ Copy[Target[l]] # None /\ Target[Copy[l]] = Copy[Target[l]]
         /\ Copy[l] \in Corrections <=> l \in Corrections
  BY IdsAssumption

\* Only a copy lifts a copy that a merge makes of a lift.
LEMMA CopiesLiftCopies ==
  ASSUME NEW l \in Lifts \cap Copies
  PROVE  Target[l] \in Copies
<1>1. PICK e \in Events : Copy[e] = l /\ l # None
  BY DEF Copies
<1>2. e \in Lifts
  <2>1. e \in Stops => Copy[e] \in Stops \cup {None}
    BY Ids
  <2> QED BY <1>1, <2>1, Ids DEF Events
<1>3. Target[l] = Copy[Target[e]] /\ Copy[Target[e]] # None /\ Target[e] \in Events
  BY <1>1, <1>2, CopiedLifts, Ids
<1> QED BY <1>3 DEF Copies

\* The types, one table at a time.
DbTyped ==
  /\ rows \in [Events -> Ticks \cup {None}] /\ claim \in [Stops -> Outcomes]
  /\ hold \subseteq Stops /\ job \subseteq Stops /\ merged \in BOOLEAN
  /\ clock \in Ticks

LocksTyped ==
  /\ Commands
  /\ stopping # None => merging = None
  /\ lifting # None => merging = None

RecoveryTyped ==
  /\ saved \in Db \cup {None}
  /\ from \in Ticks \cup {None}
  /\ serving \in BOOLEAN
  /\ restores \in 0..MaxRestores

JournalTyped == journal \in [Events -> Objects \cup {None}]

HistoryTyped == acked \in [Events -> Ticks \cup {None}] /\ lost \subseteq Lifts

LEMMA CurrentTyped == Current \in Db <=> DbTyped
  BY DEF Current, Db, DbTyped

LEMMA Types == TypeOK <=> DbTyped /\ LocksTyped /\ RecoveryTyped /\ JournalTyped /\ HistoryTyped
  BY CurrentTyped DEF TypeOK, LocksTyped, RecoveryTyped, JournalTyped, HistoryTyped, DbTyped

LEMMA TypesNext ==
  ASSUME DbTyped', LocksTyped', RecoveryTyped', JournalTyped', HistoryTyped'
  PROVE  TypeOK'
<1>1. Current' \in Db
  BY DEF Current, Db, DbTyped
<1> QED BY <1>1 DEF TypeOK, LocksTyped, RecoveryTyped, JournalTyped, HistoryTyped, DbTyped

LEMMA ClockIsNat == Ticks \subseteq Nat /\ 0 \in Ticks /\ None \notin Ticks
  BY BoundsAssumption, Ids DEF Ticks

LEMMA InitInv == Init => IInv
<1> SUFFICES ASSUME Init PROVE IInv
  OBVIOUS
<1>1. TypeOK
  <2>1. DbTyped
    BY ClockIsNat DEF Init, DbTyped, Outcomes
  <2>2. LocksTyped
    BY DEF Init, LocksTyped, Commands
  <2>3. RecoveryTyped
    BY BoundsAssumption DEF Init, RecoveryTyped
  <2>4. JournalTyped /\ HistoryTyped
    BY DEF Init, JournalTyped, HistoryTyped
  <2> QED BY <2>1, <2>2, <2>3, <2>4, Types
<1>2. Sound(rows, claim, hold, job)
  <2>1. \A e \in Events : rows[e] = None
    BY DEF Init
  <2>2. \A s \in Stops : claim[s] = "none"
    BY DEF Init
  <2>3. \A l \in Lifts : rows[l] = None
    BY <2>1, Ids
  <2>4. \A s \in Stops : rows[s] = None
    BY <2>1, Ids
  <2>5. hold = {} /\ job = {}
    BY DEF Init
  <2>6. Claiming \subseteq Lifts /\ Manual \subseteq Stops
    BY Ids DEF Claiming
  <2>7. \A s \in Stops : HoldOf(s, s \in hold, /\ s \in Manual \ Copies /\ claim[s] = "none" /\ rows[s] # None
                                               /\ \A l \in Lifts : rows[l] # None => Target[l] # s)
    BY <2>4, <2>5 DEF HoldOf
  <2> QED BY <2>2, <2>3, <2>4, <2>5, <2>6, <2>7 DEF Sound
<1>3. InFlight
  BY DEF Init, InFlight, StoppingSound, LiftingSound, MergingSound
<1>4. Acknowledged
  BY Ids DEF Init, Acknowledged
<1>5. Restorable
  BY Ids DEF Init, Restorable, Covered
<1> QED BY <1>1, <1>2, <1>3, <1>4, <1>5 DEF IInv, Init

-----------------------------------------------------------------------------
(* Steps that leave the database alone.                                    *)

\* Objects are never written again, and a marked lift has committed.
JournalGrows ==
  /\ JournalTyped'
  /\ \A e \in Events : journal[e] # None => journal'[e] = journal[e]
  /\ \A l \in Lifts : journal[l] = None /\ journal'[l] # None /\ journal'[l].committed => acked[l] # None

LEMMA GrowsAlone ==
  ASSUME IInv, UNCHANGED journal
  PROVE  JournalGrows
  BY Ids, Types DEF JournalGrows, JournalTyped, IInv

LEMMA GrowsByOne ==
  ASSUME IInv, NEW e \in Events, NEW recorded \in Ticks, NEW committed \in BOOLEAN,
         journal' = Appended(journal, e, recorded, committed),
         committed /\ e \in Lifts => acked[e] # None
  PROVE  JournalGrows /\ journal'[e] # None
<1> DEFINE new == [at |-> clock, recorded |-> recorded, committed |-> committed]
<1>1. journal \in [Events -> Objects \cup {None}] /\ clock \in Ticks
  BY Types DEF IInv, JournalTyped, DbTyped
<1>2. new \in Objects /\ (new.committed <=> committed)
  BY <1>1 DEF Objects
<1>3. new # None
  BY <1>2, NullAssumption
<1>4. journal' = [journal EXCEPT ![e] = IF journal[e] = None THEN new ELSE journal[e]]
  BY <1>1 DEF Appended
<1> HIDE DEF new
<1>5. /\ journal' \in [Events -> Objects \cup {None}]
      /\ \A f \in Events \ {e} : journal'[f] = journal[f]
      /\ journal'[e] = IF journal[e] = None THEN new ELSE journal[e]
  BY <1>1, <1>2, <1>4
<1>6. \A l \in Lifts : journal[l] = None /\ journal'[l] # None /\ journal'[l].committed => acked[l] # None
  BY <1>2, <1>5, Ids
<1> QED BY <1>3, <1>5, <1>6 DEF JournalGrows, JournalTyped

\* A command in flight goes on, ends, or is sound.
FlightKept ==
  /\ LocksTyped'
  /\ stopping' \in {stopping, None} \/ StoppingSound'
  /\ lifting' \in {lifting, None} \/ LiftingSound'
  /\ merging' \in {merging, None} \/ MergingSound'
  /\ unwritten' \subseteq unwritten

LEMMA FlightNext ==
  ASSUME IInv, UNCHANGED <<rows, claim>>, JournalGrows, FlightKept
  PROVE  InFlight'
<1>1. InFlight /\ LocksTyped /\ \A e \in Events : journal[e] # None => journal'[e] = journal[e]
  BY Types DEF IInv, JournalGrows
<1>2. StoppingSound'
  <2>1. CASE stopping' = stopping
    <3>1. stopping # None => stopping.event \in Events
      BY <1>1, Ids DEF LocksTyped, Commands
    <3> QED BY <1>1, <2>1, <3>1 DEF InFlight, StoppingSound, Recorded
  <2>2. CASE stopping' = None
    BY <2>2 DEF StoppingSound
  <2> QED BY <2>1, <2>2 DEF FlightKept
<1>3. LiftingSound'
  <2>1. CASE lifting' = lifting
    BY <1>1, <2>1 DEF InFlight, LiftingSound, Effective, Unlifted, Recorded
  <2>2. CASE lifting' = None
    BY <2>2 DEF LiftingSound
  <2> QED BY <2>1, <2>2 DEF FlightKept
<1>4. MergingSound'
  <2>1. CASE merging' = merging
    <3> SUFFICES ASSUME merging # None, NEW s \in merging.copied
                 PROVE  Copy[s] # None /\ journal'[Copy[s]] # None
      BY <2>1 DEF MergingSound
    <3>1. s \in Stops
      BY <1>1 DEF LocksTyped, Commands
    <3>2. Copy[s] # None /\ journal[Copy[s]] # None
      BY <1>1 DEF InFlight, MergingSound
    <3> QED BY <1>1, <3>1, <3>2, Ids
  <2>2. CASE merging' = None
    BY <2>2 DEF MergingSound
  <2> QED BY <2>1, <2>2 DEF FlightKept
<1>5. \A l \in unwritten' : Recorded(l)'
  BY <1>1 DEF InFlight, FlightKept, Recorded
<1> QED BY <1>2, <1>3, <1>4, <1>5 DEF InFlight

LEMMA AcknowledgedKept ==
  ASSUME IInv, JournalGrows, UNCHANGED acked
  PROVE  Acknowledged'
<1>1. Acknowledged /\ \A e \in Events : journal[e] # None => journal'[e] = journal[e]
  BY DEF IInv, JournalGrows
<1>2. \A s \in Stops : acked'[s] # None => journal'[s] # None
  BY <1>1, Ids DEF Acknowledged
<1>3. \A l \in Lifts : journal'[l] # None /\ journal'[l].committed => acked'[l] # None
  BY <1>1, Ids DEF Acknowledged, JournalGrows
<1> QED BY <1>1, <1>2, <1>3 DEF Acknowledged

\* A stop that was acknowledged keeps its object, so whether the margin covers it.
LEMMA CoveredKept ==
  ASSUME IInv, JournalGrows, NEW s \in Stops, acked'[s] = acked[s]
  PROVE  /\ Covered(s)' <=> Covered(s)
         /\ Covered(s) => journal'[s] = journal[s]
<1>1. acked[s] # None => journal'[s] = journal[s]
  BY Ids DEF IInv, Acknowledged, JournalGrows
<1> QED BY <1>1 DEF Covered

LEMMA RestorableKept ==
  ASSUME IInv, JournalGrows, UNCHANGED <<rows, acked, recovery>>, clock' >= clock,
         clock' \in Nat
  PROVE  Restorable'
<1>1. Restorable /\ clock \in Nat /\ (saved # None => saved.at \in Nat)
  BY Types, ClockIsNat DEF IInv, DbTyped, RecoveryTyped, Db
<1>2. \A s \in Stops : (Covered(s)' <=> Covered(s)) /\ (Covered(s) => journal'[s] = journal[s])
  BY CoveredKept
<1>3. serving' => \A s \in Stops : Covered(s)' => Recorded(s)'
  BY <1>1, <1>2 DEF Restorable, Recorded, recovery
<1>4. ~serving' => from' # None /\ \A s \in Stops : Covered(s)' /\ ~Recorded(s)' => journal'[s].at >= from'
  BY <1>1, <1>2 DEF Restorable, Recorded, recovery
<1>5. saved' # None =>
        /\ serving' /\ saved'.at <= clock' /\ restores' < MaxRestores
        /\ \A s \in Stops : Covered(s)' /\ saved'.rows[s] = None => acked'[s] >= saved'.at
  BY <1>1, <1>2 DEF Restorable, recovery
<1>6. from' # None => restores' # 0
  BY <1>1 DEF Restorable, recovery
<1> QED BY <1>3, <1>4, <1>5, <1>6 DEF Restorable

LEMMA QuietStep ==
  ASSUME IInv, UNCHANGED <<db, recovery, acked>>, clock' \in Ticks, clock' >= clock,
         lost' \subseteq Lifts, JournalGrows, FlightKept
  PROVE  IInv'
<1>1. TypeOK'
  <2>1. DbTyped /\ RecoveryTyped /\ HistoryTyped
    BY Types DEF IInv
  <2>2. DbTyped'
    BY <2>1 DEF DbTyped, db
  <2>3. RecoveryTyped'
    BY <2>1 DEF RecoveryTyped, recovery
  <2>4. HistoryTyped'
    BY <2>1 DEF HistoryTyped
  <2> QED BY <2>2, <2>3, <2>4, TypesNext DEF JournalGrows, FlightKept
<1>2. Sound(rows, claim, hold, job)' /\ (saved' # None => Sound(saved.rows, saved.claim, saved.hold, saved.job)')
  BY DEF IInv, Sound, HoldOf, db, recovery
<1>3. InFlight' /\ Acknowledged'
  BY FlightNext, AcknowledgedKept DEF db
<1>4. Restorable'
  BY ClockIsNat, RestorableKept DEF db, recovery
<1> QED BY <1>1, <1>2, <1>3, <1>4 DEF IInv

\* Most commands move one of the locks and nothing else.
LEMMA QuietFacts ==
  ASSUME IInv
  PROVE  /\ clock \in Ticks /\ clock >= clock /\ lost \subseteq Lifts
         /\ LocksTyped /\ LiftingSound /\ MergingSound /\ StoppingSound
         /\ \A l \in unwritten : Recorded(l)
<1>1. clock \in Ticks /\ clock \in Nat
  BY Types, ClockIsNat DEF IInv, DbTyped
<1>2. clock >= clock
  BY <1>1
<1>3. lost \subseteq Lifts /\ LocksTyped
  BY Types DEF IInv, HistoryTyped
<1> QED BY <1>1, <1>2, <1>3 DEF IInv, InFlight

LEMMA JournalStopKeeps ==
  ASSUME IInv, NEW s \in Stops, JournalStop(s)
  PROVE  IInv'
<1>1. journal' = Appended(journal, s, clock, FALSE)
  BY DEF JournalStop
<1>2. JournalGrows /\ journal'[s] # None
  <2>1. s \in Events /\ clock \in Ticks /\ FALSE \in BOOLEAN /\ ~(FALSE /\ s \in Lifts)
    BY Ids, QuietFacts
  <2> QED BY <1>1, <2>1, GrowsByOne
<1>3. FlightKept
  <2>1. /\ stopping' = [event |-> s, now |-> clock] /\ merging = None
        /\ UNCHANGED <<lifting, merging, unwritten>>
    BY DEF JournalStop, GateFree
  <2>2. stopping' \in [event : Stops, now : Ticks] /\ stopping'.event = s
    BY <2>1, QuietFacts
  <2>3. LocksTyped'
    BY <2>1, <2>2, QuietFacts DEF LocksTyped, Commands
  <2>4. StoppingSound'
    BY <1>2, <2>2 DEF JournalStop, StoppingSound, Recorded, db
  <2> QED BY <2>1, <2>3, <2>4 DEF FlightKept
<1>4. UNCHANGED <<db, recovery, acked, clock, lost>>
  BY DEF JournalStop
<1> QED BY <1>2, <1>3, <1>4, QuietFacts, QuietStep

LEMMA RollBackStopKeeps ==
  ASSUME IInv, RollBackStop \/ RollBackLift \/ RollBackMerge
  PROVE  IInv'
<1>1. /\ UNCHANGED <<db, recovery, acked, clock, lost, journal, unwritten>>
      /\ stopping' \in {stopping, None} /\ lifting' \in {lifting, None} /\ merging' \in {merging, None}
  BY DEF RollBackStop, RollBackLift, RollBackMerge
<1>2. FlightKept
  BY <1>1, QuietFacts DEF FlightKept, LocksTyped, Commands
<1> QED BY <1>1, <1>2, GrowsAlone, QuietFacts, QuietStep

LEMMA BeginLiftKeeps ==
  ASSUME IInv, NEW l \in Lifts, BeginCorrection(l) \/ BeginSupersession(l)
  PROVE  IInv'
<1>1. /\ UNCHANGED <<db, recovery, acked, clock, lost, journal, stopping, merging, unwritten>>
      /\ lifting' = [event |-> l, now |-> clock, claimed |-> FALSE]
      /\ MayLift(l) /\ (l \in Corrections => Target[l] \in Manual)
  BY DEF BeginCorrection, BeginSupersession
<1>2. /\ lifting' \in [event : Lifts, now : Ticks, claimed : BOOLEAN]
      /\ lifting'.event = l /\ ~lifting'.claimed
  BY <1>1, QuietFacts
<1>3. LiftingSound'
  BY <1>1, <1>2 DEF LiftingSound, MayLift, Effective, Unlifted, Recorded, db
<1>4. LocksTyped'
  BY <1>1, <1>2, QuietFacts DEF LocksTyped, Commands, MayLift, HistoryFree
<1>5. FlightKept
  BY <1>1, <1>3, <1>4 DEF FlightKept
<1> QED BY <1>1, <1>5, GrowsAlone, QuietFacts, QuietStep

LEMMA ClaimCorrectionKeeps ==
  ASSUME IInv, ClaimCorrection
  PROVE  IInv'
<1>1. /\ UNCHANGED <<db, recovery, acked, clock, lost, journal, stopping, merging, unwritten>>
      /\ lifting # None /\ lifting.event \in Corrections
      /\ lifting' = IF claim[Target[lifting.event]] = "none"
                    THEN [lifting EXCEPT !.claimed = TRUE] ELSE None
  BY DEF ClaimCorrection, Correcting, Claimable
<1>2. CASE lifting' = None
  <2>1. FlightKept
    BY <1>1, <1>2, QuietFacts DEF FlightKept, LocksTyped, Commands
  <2> QED BY <1>1, <2>1, GrowsAlone, QuietFacts, QuietStep
<1>3. CASE lifting' # None
  <2>1. claim[Target[lifting.event]] = "none" /\ lifting' = [lifting EXCEPT !.claimed = TRUE]
    BY <1>1, <1>3
  <2>2. lifting \in [event : Lifts, now : Ticks, claimed : BOOLEAN]
    BY <1>1, QuietFacts DEF LocksTyped, Commands
  <2>3. /\ lifting' \in [event : Lifts, now : Ticks, claimed : BOOLEAN]
        /\ lifting'.event = lifting.event
    BY <2>1, <2>2
  <2>4. LocksTyped'
    BY <1>1, <2>3, QuietFacts DEF LocksTyped, Commands
  <2>5. LiftingSound'
    BY <1>1, <2>1, <2>3, QuietFacts DEF LiftingSound, Effective, Unlifted, Recorded, db
  <2>6. FlightKept
    BY <1>1, <2>4, <2>5 DEF FlightKept
  <2> QED BY <1>1, <2>6, GrowsAlone, QuietFacts, QuietStep
<1> QED BY <1>2, <1>3

\* journalCommittedLifts, its failure, and the release of an old binary.
LEMMA JournalLiftKeeps ==
  ASSUME IInv, NEW l \in Lifts, JournalLift(l) \/ LoseLift(l) \/ JournalLegacyLift(l)
  PROVE  IInv'
<1>1. /\ UNCHANGED <<db, recovery, acked, clock, stopping, lifting, merging>>
      /\ unwritten' \subseteq unwritten /\ lost' \subseteq Lifts
  BY QuietFacts DEF JournalLift, LoseLift, JournalLegacyLift, commands
<1>2. FlightKept
  BY <1>1, QuietFacts DEF FlightKept, LocksTyped, Commands
<1>3. JournalGrows
  <2>1. CASE JournalLift(l)
    <3>1. rows[l] # None /\ l \in Events
      BY <2>1, QuietFacts, Ids DEF JournalLift, Recorded
    <3>2. rows[l] \in Ticks /\ acked[l] # None
      BY <3>1, Types DEF IInv, DbTyped, Sound
    <3>3. journal' = Appended(journal, l, rows[l], TRUE)
      BY <2>1 DEF JournalLift
    <3> HIDE DEF Appended
    <3> QED BY <3>1, <3>2, <3>3, GrowsByOne
  <2>2. CASE LoseLift(l)
    BY <2>2, GrowsAlone DEF LoseLift
  <2>3. CASE JournalLegacyLift(l)
    <3>1. journal' = Appended(journal, l, clock, FALSE)
      BY <2>3 DEF JournalLegacyLift
    <3>2. l \in Events /\ clock \in Ticks /\ FALSE \in BOOLEAN /\ ~(FALSE /\ l \in Lifts)
      BY Ids, QuietFacts
    <3> QED BY <3>1, <3>2, GrowsByOne
  <2> QED BY <2>1, <2>2, <2>3
<1> QED BY <1>1, <1>2, <1>3, QuietFacts, QuietStep

LEMMA BeginMergeKeeps ==
  ASSUME IInv, BeginMerge
  PROVE  IInv'
<1>1. /\ UNCHANGED <<db, recovery, acked, clock, lost, journal, stopping, lifting, unwritten>>
      /\ merging' = [now |-> clock, copied |-> {}] /\ stopping = None /\ lifting = None
  BY DEF BeginMerge, MergeLocks, GateFree, HistoryFree
<1>2. merging' \in [now : Ticks, copied : SUBSET Stops] /\ merging'.copied = {}
  BY <1>1, QuietFacts
<1>3. LocksTyped' /\ MergingSound'
  BY <1>1, <1>2, QuietFacts DEF LocksTyped, Commands, MergingSound
<1>4. FlightKept
  BY <1>1, <1>3 DEF FlightKept
<1> QED BY <1>1, <1>4, GrowsAlone, QuietFacts, QuietStep

LEMMA JournalCopyKeeps ==
  ASSUME IInv, NEW s \in Stops, JournalCopy(s)
  PROVE  IInv'
<1>1. /\ UNCHANGED <<db, recovery, acked, clock, lost, stopping, lifting, unwritten>>
      /\ merging # None /\ Copy[s] # None
      /\ merging' = [merging EXCEPT !.copied = merging.copied \cup {s}]
      /\ journal' = Appended(journal, Copy[s], merging.now, FALSE)
  BY DEF JournalCopy, Uncopied
<1>2. merging \in [now : Ticks, copied : SUBSET Stops]
  BY <1>1, QuietFacts DEF LocksTyped, Commands
<1> DEFINE more == merging.copied \cup {s}
<1>3. more \in SUBSET Stops /\ merging.now \in Ticks
  BY <1>2
<1>4. merging' = [now |-> merging.now, copied |-> more]
  BY <1>1, <1>2
<1> HIDE DEF more
<1>5. merging' \in [now : Ticks, copied : SUBSET Stops] /\ merging'.copied = more
  BY <1>3, <1>4
<1>6. JournalGrows /\ journal'[Copy[s]] # None
  <2>1. Copy[s] \in Events /\ FALSE \in BOOLEAN /\ ~(FALSE /\ Copy[s] \in Lifts)
    BY <1>1, Ids
  <2> QED BY <1>1, <1>3, <2>1, GrowsByOne
<1>7. MergingSound'
  <2> SUFFICES ASSUME NEW t \in more PROVE Copy[t] # None /\ journal'[Copy[t]] # None
    BY <1>5 DEF MergingSound
  <2>1. CASE t = s
    BY <1>1, <1>6, <2>1
  <2>2. CASE t \in merging.copied
    <3>1. Copy[t] # None /\ journal[Copy[t]] # None /\ t \in Stops
      BY <1>1, <1>2, <2>2, QuietFacts DEF MergingSound
    <3> QED BY <1>6, <3>1, Ids DEF JournalGrows
  <2> QED BY <2>1, <2>2 DEF more
<1>8. LocksTyped'
  BY <1>1, <1>5, QuietFacts DEF LocksTyped, Commands
<1>9. FlightKept
  BY <1>1, <1>7, <1>8 DEF FlightKept
<1> QED BY <1>1, <1>6, <1>9, QuietFacts, QuietStep

LEMMA TickKeeps ==
  ASSUME IInv, Tick
  PROVE  IInv'
<1>1. /\ UNCHANGED <<db, recovery, acked, lost, journal, stopping, lifting, merging, unwritten>>
      /\ clock < LastTick /\ clock' = clock + 1
  BY DEF Tick, commands
<1>2. clock' \in Ticks /\ clock' >= clock
  BY <1>1, BoundsAssumption, QuietFacts DEF Ticks
<1>3. FlightKept
  BY <1>1, QuietFacts DEF FlightKept, LocksTyped, Commands
<1> QED BY <1>1, <1>2, <1>3, GrowsAlone, QuietFacts, QuietStep

LEMMA BackupKeeps ==
  ASSUME IInv, Backup
  PROVE  IInv'
<1>1. /\ UNCHANGED <<rows, claim, hold, job, merged, journal, stopping, lifting, merging, unwritten,
                     clock, from, serving, restores, acked, lost>>
      /\ serving /\ saved' = Current /\ restores < MaxRestores
  BY DEF Backup, db, commands
<1>2. /\ saved'.at = clock /\ saved'.rows = rows /\ saved'.claim = claim
      /\ saved'.hold = hold /\ saved'.job = job
  BY <1>1 DEF Current
<1>3. TypeOK'
  <2>1. TypeOK /\ Current \in Db
    BY DEF IInv, TypeOK
  <2>2. Current' = Current
    BY <1>1 DEF Current
  <2> QED BY <1>1, <2>1, <2>2 DEF TypeOK, Commands
<1>4. Sound(rows, claim, hold, job)' /\ Sound(saved.rows, saved.claim, saved.hold, saved.job)'
  BY <1>1, <1>2 DEF IInv, Sound, HoldOf
<1>5. InFlight' /\ Acknowledged'
  BY <1>1 DEF IInv, InFlight, StoppingSound, LiftingSound, MergingSound, Acknowledged, Effective,
              Unlifted, Recorded
<1>6. Restorable'
  BY <1>1, <1>2, QuietFacts, ClockIsNat DEF IInv, Restorable, Covered, Recorded
<1> QED BY <1>3, <1>4, <1>5, <1>6 DEF IInv

-----------------------------------------------------------------------------
(* Commits.                                                                *)

\* What a commit adds is acknowledged at its instant, and nothing else changes hands.
Commits ==
  /\ UNCHANGED <<journal, recovery, clock>>
  /\ \A e \in Events : rows[e] # None => rows'[e] # None
  /\ \A e \in Events : acked'[e] = acked[e] \/ (acked'[e] = clock /\ rows'[e] # None)
  /\ \A s \in Stops : acked'[s] = acked[s] \/ journal[s] # None
  /\ \A l \in Corrections \ Copies : acked'[l] = acked[l] \/ Target[l] \in Manual

LEMMA CommitStep ==
  ASSUME IInv, Commits, DbTyped', LocksTyped', HistoryTyped', Sound(rows, claim, hold, job)',
         InFlight'
  PROVE  IInv'
<1>1. Restorable /\ Acknowledged /\ RecoveryTyped /\ JournalTyped /\ clock \in Nat
      /\ (saved # None => saved.at \in Nat)
  BY Types, ClockIsNat DEF IInv, DbTyped, RecoveryTyped, Db
<1>2. \A e \in Events : acked[e] # None => acked'[e] # None
  BY <1>1, Ids DEF Commits
<1>3. TypeOK'
  BY <1>1, TypesNext DEF RecoveryTyped, JournalTyped, Commits, recovery
<1>4. saved' # None => Sound(saved.rows, saved.claim, saved.hold, saved.job)'
  <2> SUFFICES ASSUME saved # None PROVE Sound(saved.rows, saved.claim, saved.hold, saved.job)'
    BY DEF Commits, recovery
  <2>1. Sound(saved.rows, saved.claim, saved.hold, saved.job) /\ saved' = saved
    BY DEF IInv, Commits, recovery
  <2> QED BY <1>2, <2>1, Ids DEF Sound, HoldOf, Commits, recovery
<1>5. Acknowledged'
  <2>1. \A s \in Stops : acked'[s] # None => journal'[s] # None
    BY <1>1 DEF Acknowledged, Commits
  <2>2. \A l \in Corrections \ Copies : acked'[l] # None => Target[l] \in Manual
    BY <1>1 DEF Acknowledged, Commits
  <2>3. \A l \in Lifts : journal'[l] # None /\ journal'[l].committed => acked'[l] # None
    BY <1>1, <1>2, Ids DEF Acknowledged, Commits
  <2> QED BY <2>1, <2>2, <2>3 DEF Acknowledged
<1>6. ASSUME NEW s \in Stops
      PROVE  \/ (Covered(s)' <=> Covered(s)) /\ acked'[s] = acked[s]
             \/ acked'[s] = clock /\ rows'[s] # None
  BY Ids DEF Commits, Covered
<1>7. Restorable'
  <2>1. serving' => \A s \in Stops : Covered(s)' => Recorded(s)'
    BY <1>1, <1>6, Ids DEF Restorable, Recorded, Commits, recovery
  <2>2. ~serving' => from' # None /\ \A s \in Stops : Covered(s)' /\ ~Recorded(s)' => journal'[s].at >= from'
    BY <1>1, <1>6, Ids DEF Restorable, Recorded, Commits, recovery
  <2>3. saved' # None => serving' /\ saved'.at <= clock' /\ restores' < MaxRestores
    BY <1>1 DEF Restorable, Commits, recovery
  <2>4. ASSUME saved' # None, NEW s \in Stops, Covered(s)', saved'.rows[s] = None
        PROVE  acked'[s] >= saved'.at
    <3>1. saved' = saved /\ saved # None /\ clock >= saved.at
      BY <1>1, <2>4 DEF Restorable, Commits, recovery
    <3>2. CASE acked'[s] = clock
      BY <3>1, <3>2
    <3>3. CASE Covered(s) /\ acked'[s] = acked[s]
      BY <1>1, <2>4, <3>1, <3>3 DEF Restorable
    <3> QED BY <1>6, <2>4, <3>2, <3>3
  <2>5. from' # None => restores' # 0
    BY <1>1 DEF Restorable, Commits, recovery
  <2> QED BY <2>1, <2>2, <2>3, <2>4, <2>5 DEF Restorable
<1> QED BY <1>3, <1>4, <1>5, <1>7 DEF IInv

LEMMA CommitStopKeeps ==
  ASSUME IInv, CommitStop
  PROVE  IInv'
<1> DEFINE s == stopping.event
<1>1. stopping \in [event : Stops, now : Ticks] /\ s \in Stops /\ s \in Events /\ stopping.now \in Ticks
  BY QuietFacts, Ids DEF CommitStop, LocksTyped, Commands
<1>2. s \notin Copies /\ rows[s] = None /\ journal[s] # None /\ merging = None
  BY QuietFacts DEF CommitStop, StoppingSound, Recorded, LocksTyped
<1>3. /\ rows' = [rows EXCEPT ![s] = stopping.now] /\ acked' = [acked EXCEPT ![s] = clock]
      /\ IF s \in Manual THEN hold' = hold \cup ({s} \cap Named) /\ job' = job \cup {s} /\ claim' = claim
         ELSE claim' = [claim EXCEPT ![s] = "finalized"] /\ hold' = hold /\ job' = job
      /\ stopping' = None
      /\ UNCHANGED <<merged, journal, lifting, merging, unwritten, clock, recovery, lost>>
  BY DEF CommitStop
<1> HIDE DEF s
<1>4. DbTyped /\ HistoryTyped /\ Sound(rows, claim, hold, job) /\ LocksTyped
  BY Types DEF IInv
<1>5. /\ rows' \in [Events -> Ticks \cup {None}] /\ rows'[s] \in Ticks /\ rows'[s] # None
      /\ \A e \in Events \ {s} : rows'[e] = rows[e]
  BY <1>1, <1>3, <1>4, ClockIsNat DEF DbTyped
<1>6. /\ claim' \in [Stops -> Outcomes]
      /\ \A t \in Stops \ {s} : claim'[t] = claim[t]
      /\ claim'[s] = IF s \in Manual THEN "none" ELSE "finalized"
  <2>1. claim[s] = "none"
    BY <1>1, <1>2, <1>4 DEF Sound
  <2>2. CASE s \in Manual
    BY <1>3, <1>4, <2>1, <2>2 DEF DbTyped
  <2>3. CASE s \notin Manual
    BY <1>1, <1>3, <1>4, <2>3 DEF DbTyped, Outcomes
  <2> QED BY <2>2, <2>3
<1>7. DbTyped'
  BY <1>1, <1>3, <1>4, <1>5, <1>6 DEF DbTyped
<1>8. LocksTyped'
  BY <1>2, <1>3, <1>4 DEF LocksTyped, Commands
<1>9. /\ HistoryTyped' /\ acked'[s] = clock /\ \A e \in Events \ {s} : acked'[e] = acked[e]
  BY <1>1, <1>3, <1>4, QuietFacts DEF HistoryTyped
<1>10. Commits
  BY <1>1, <1>2, <1>3, <1>5, <1>9, Ids DEF Commits
<1>11. \A l \in Lifts : l # s /\ rows'[l] = rows[l] /\ (rows[l] # None => Target[l] # s)
  BY <1>1, <1>2, <1>4, <1>5, Ids DEF Sound
<1>12. Sound(rows, claim, hold, job)'
  <2>1. \A l \in Lifts : rows'[l] # None => rows'[Target[l]] # None /\ acked'[l] # None
    BY <1>4, <1>5, <1>9, <1>11, Ids DEF Sound
  <2>2. \A t \in Stops : rows'[t] = None => claim'[t] = "none"
    BY <1>4, <1>5, <1>6, Ids DEF Sound
  <2>3. ASSUME NEW t \in Stops \ Copies
        PROVE  claim'[t] = "corrected" <=> \E l \in Claiming : rows'[l] # None /\ Target[l] = t
    <3>1. Claiming \subseteq Lifts
      BY Ids DEF Claiming
    <3>2. CASE t = s
      BY <1>6, <1>11, <3>1, <3>2
    <3>3. CASE t # s
      BY <1>4, <1>6, <1>11, <3>1, <3>3 DEF Sound
    <3> QED BY <3>2, <3>3
  <2>4. ASSUME NEW t \in Stops
        PROVE  HoldOf(t, t \in hold, /\ t \in Manual \ Copies /\ claim[t] = "none" /\ rows[t] # None
                                     /\ \A l \in Lifts : rows[l] # None => Target[l] # t)'
    <3>1. CASE t = s
      <4>1. s \in hold' <=> s \in Named
        BY <1>2, <1>3, <1>4, <1>1, Ids DEF Sound, HoldOf
      <4>2. s \in Named => s \in Manual
        BY Ids
      <4> QED BY <1>2, <1>5, <1>6, <1>11, <3>1, <4>1, <4>2 DEF HoldOf
    <3>2. CASE t # s
      <4>1. (t \in hold' <=> t \in hold) /\ rows'[t] = rows[t] /\ claim'[t] = claim[t]
        BY <1>3, <1>5, <1>6, <3>2, Ids
      <4>2. HoldOf(t, t \in hold, /\ t \in Manual \ Copies /\ claim[t] = "none" /\ rows[t] # None
                                    /\ \A l \in Lifts : rows[l] # None => Target[l] # t)
        BY <1>4 DEF Sound
      <4>3. restores' = restores
        BY <1>3 DEF recovery
      <4> QED BY <1>11, <4>1, <4>2, <4>3 DEF HoldOf
    <3> QED BY <3>1, <3>2
  <2>5. \A t \in Manual \ Copies : rows'[t] # None /\ claim'[t] = "none" => t \in job'
    <3>1. job \subseteq job' /\ (s \in Manual => s \in job')
      BY <1>3
    <3>2. \A t \in Manual \ Copies : t # s /\ rows'[t] # None /\ claim'[t] = "none" => t \in job
      BY <1>4, <1>5, <1>6, Ids DEF Sound
    <3> QED BY <3>1, <3>2
  <2>6. \A t \in job' : rows'[t] # None
    <3>1. job' \subseteq job \cup {s} /\ job \subseteq Events
      BY <1>3, <1>4, Ids DEF DbTyped
    <3> QED BY <1>4, <1>5, <3>1 DEF Sound
  <2> QED BY <2>1, <2>2, <2>3, <2>4, <2>5, <2>6 DEF Sound
<1>13. InFlight'
  <2>1. StoppingSound' /\ MergingSound'
    BY <1>2, <1>3 DEF StoppingSound, MergingSound
  <2>2. LiftingSound'
    <3> SUFFICES ASSUME lifting # None
                 PROVE  /\ lifting.event \notin Copies /\ Effective(Target[lifting.event])'
                        /\ lifting.event \in Corrections => Target[lifting.event] \in Manual
                        /\ lifting.claimed => lifting.event \in Corrections /\ claim'[Target[lifting.event]] = "none"
      BY <1>3 DEF LiftingSound
    <3>1. lifting.event \in Lifts /\ Target[lifting.event] \in Stops
      BY <1>4, Ids DEF LocksTyped, Commands
    <3>2. Effective(Target[lifting.event]) /\ Target[lifting.event] # s
      BY <1>2, QuietFacts DEF LiftingSound, Effective, Recorded
    <3>3. Effective(Target[lifting.event])'
      <4>1. rows'[Target[lifting.event]] # None
        BY <1>5, <3>1, <3>2, Ids DEF Effective, Recorded
      <4>2. \A l \in Lifts : rows'[l] # None => Target[l] # Target[lifting.event]
        BY <1>11, <3>2 DEF Effective, Unlifted, Recorded
      <4> QED BY <1>3, <4>1, <4>2 DEF Effective, Unlifted, Recorded
    <3> QED BY <1>6, <3>1, <3>2, <3>3, QuietFacts DEF LiftingSound
  <2>3. \A l \in unwritten' : Recorded(l)'
    BY <1>3, <1>4, <1>11, QuietFacts DEF Recorded, LocksTyped, Commands
  <2> QED BY <2>1, <2>2, <2>3 DEF InFlight
<1> QED BY <1>7, <1>8, <1>9, <1>10, <1>12, <1>13, CommitStep

LEMMA CommitLiftKeeps ==
  ASSUME IInv, CommitLift
  PROVE  IInv'
<1> DEFINE l == lifting.event
           s == Target[l]
           new == LiftedTogether(l)
<1>1. /\ lifting \in [event : Lifts, now : Ticks, claimed : BOOLEAN]
      /\ l \in Lifts /\ s \in Stops /\ lifting.now \in Ticks
  BY QuietFacts, Ids DEF CommitLift, LocksTyped, Commands
<1>2. /\ l \notin Copies /\ Effective(s) /\ merging = None
      /\ l \in Corrections => s \in Manual /\ claim[s] = "none"
  BY QuietFacts DEF CommitLift, LiftingSound, LocksTyped, Correcting
<1>3. /\ rows' = [e \in Events |-> IF e \in new THEN lifting.now ELSE rows[e]]
      /\ claim' = IF l \in Corrections THEN [claim EXCEPT ![s] = "corrected"] ELSE claim
      /\ hold' = hold \ {s}
      /\ unwritten' = unwritten \cup new
      /\ acked' = [e \in Events |-> IF e \in new THEN clock ELSE acked[e]]
      /\ lifting' = None
      /\ UNCHANGED <<job, merged, journal, stopping, merging, clock, recovery, lost>>
  BY DEF CommitLift, Correcting
<1>4. /\ new \subseteq Lifts /\ l \in new
      /\ \A k \in new : Effective(Target[k])
      /\ \A k \in new : k = l \/ (k \in Copies /\ Target[k] \in Copies)
  <2>1. l \in new
    BY DEF LiftedTogether
  <2>2. ASSUME NEW k \in new, k # l
        PROVE  k \in Lifts /\ Effective(Target[k]) /\ k \in Copies /\ Target[k] \in Copies
    <3>1. k \in Lifts /\ Copy[l] = k /\ Effective(Target[k])
      BY <2>2 DEF LiftedTogether
    <3>2. k \in Copies
      BY <1>1, <3>1, Ids
    <3> QED BY <3>1, <3>2, CopiesLiftCopies
  <2> QED BY <1>1, <1>2, <2>1, <2>2
<1> HIDE DEF l, s, new
<1>5. s = Target[l]
  BY DEF s
<1>6. DbTyped /\ HistoryTyped /\ Sound(rows, claim, hold, job) /\ LocksTyped
  BY Types DEF IInv
<1>7. \A k \in new : rows[k] = None /\ rows[Target[k]] # None
  BY <1>4 DEF Effective, Unlifted, Recorded
<1>8. /\ rows' \in [Events -> Ticks \cup {None}]
      /\ \A e \in Events \ new : rows'[e] = rows[e]
      /\ \A e \in new : rows'[e] \in Ticks /\ rows'[e] # None
  BY <1>1, <1>3, <1>4, <1>6, Ids, ClockIsNat DEF DbTyped
<1>9. \A t \in Stops : rows'[t] = rows[t]
  BY <1>4, <1>8, Ids
<1>10. /\ claim' \in [Stops -> Outcomes]
       /\ \A t \in Stops \ {s} : claim'[t] = claim[t]
       /\ claim'[s] = IF l \in Corrections THEN "corrected" ELSE claim[s]
  <2>1. CASE l \in Corrections
    BY <1>1, <1>3, <1>6, <2>1 DEF DbTyped, Outcomes
  <2>2. CASE l \notin Corrections
    BY <1>3, <1>6, <2>2 DEF DbTyped
  <2> QED BY <2>1, <2>2
<1>11. DbTyped'
  BY <1>3, <1>6, <1>8, <1>10 DEF DbTyped
<1>12. LocksTyped'
  BY <1>3, <1>4, <1>6 DEF LocksTyped, Commands
<1>13. /\ HistoryTyped'
       /\ \A e \in Events \ new : acked'[e] = acked[e]
       /\ \A e \in new : acked'[e] = clock /\ acked'[e] # None
  BY <1>3, <1>4, <1>6, Ids, QuietFacts, ClockIsNat DEF HistoryTyped
<1>14. Commits
  <2>1. \A e \in Events : rows[e] # None => rows'[e] # None
    BY <1>8
  <2>2. \A e \in Events : acked'[e] = acked[e] \/ (acked'[e] = clock /\ rows'[e] # None)
    BY <1>8, <1>13
  <2>3. \A t \in Stops : acked'[t] = acked[t]
    BY <1>4, <1>13, Ids
  <2>4. \A k \in Corrections \ Copies : acked'[k] = acked[k] \/ Target[k] \in Manual
    BY <1>2, <1>4, <1>5, <1>13, Ids
  <2> QED BY <1>3, <2>1, <2>2, <2>3, <2>4 DEF Commits
<1>15. Sound(rows, claim, hold, job)'
  <2>1. \A k \in Lifts : rows'[k] # None => rows'[Target[k]] # None /\ acked'[k] # None
    BY <1>6, <1>7, <1>8, <1>9, <1>13, Ids DEF Sound
  <2>2. \A t \in Stops : rows'[t] = None => claim'[t] = "none"
    BY <1>2, <1>6, <1>9, <1>10 DEF Sound, Effective, Recorded
  <2>3. ASSUME NEW t \in Stops \ Copies
        PROVE  claim'[t] = "corrected" <=> \E k \in Claiming : rows'[k] # None /\ Target[k] = t
    <3>1. Claiming \subseteq Lifts /\ (l \in Claiming <=> l \in Corrections)
      BY <1>2, Ids DEF Claiming
    <3>2. \A k \in Claiming : k # l => rows'[k] = rows[k]
      BY <1>4, <1>8, <3>1, Ids DEF Claiming
    <3>3. rows'[l] # None /\ rows[l] = None
      BY <1>4, <1>7, <1>8
    <3>4. claim[t] = "corrected" <=> \E k \in Claiming : rows[k] # None /\ Target[k] = t
      BY <1>6 DEF Sound
    <3>5. CASE t = s /\ l \in Corrections
      BY <1>5, <1>10, <3>1, <3>3, <3>5
    <3>6. CASE ~(t = s /\ l \in Corrections)
      <4>1. claim'[t] = claim[t]
        BY <1>10, <3>6
      <4>2. \A k \in Claiming : Target[k] = t => rows'[k] = rows[k]
        BY <1>5, <3>1, <3>2, <3>6
      <4> QED BY <3>4, <4>1, <4>2
    <3> QED BY <3>5, <3>6
  <2>4. ASSUME NEW t \in Stops
        PROVE  HoldOf(t, t \in hold, /\ t \in Manual \ Copies /\ claim[t] = "none" /\ rows[t] # None
                                     /\ \A k \in Lifts : rows[k] # None => Target[k] # t)'
    <3>1. CASE t = s
      <4>1. t \notin hold' /\ rows'[l] # None
        BY <1>3, <1>4, <1>8, <3>1
      <4> QED BY <1>1, <1>5, <3>1, <4>1 DEF HoldOf
    <3>2. CASE t # s
      <4>1. (t \in hold' <=> t \in hold) /\ rows'[t] = rows[t] /\ claim'[t] = claim[t]
        BY <1>3, <1>9, <1>10, <3>2
      <4>2. HoldOf(t, t \in hold, /\ t \in Manual \ Copies /\ claim[t] = "none" /\ rows[t] # None
                                    /\ \A k \in Lifts : rows[k] # None => Target[k] # t)
        BY <1>6 DEF Sound
      <4>3. t \notin Copies => \A k \in Lifts : Target[k] = t => rows'[k] = rows[k]
        BY <1>4, <1>5, <1>8, <3>2, Ids
      <4>4. restores' = restores
        BY <1>3 DEF recovery
      <4> QED BY <4>1, <4>2, <4>3, <4>4 DEF HoldOf
    <3> QED BY <3>1, <3>2
  <2>5. \A t \in Manual \ Copies : rows'[t] # None /\ claim'[t] = "none" => t \in job'
    BY <1>3, <1>6, <1>9, <1>10, Ids DEF Sound
  <2>6. \A t \in job' : rows'[t] # None
    BY <1>3, <1>6, <1>9 DEF DbTyped, Sound
  <2> QED BY <2>1, <2>2, <2>3, <2>4, <2>5, <2>6 DEF Sound
<1>16. InFlight'
  <2>1. StoppingSound'
    <3>1. stopping # None => stopping.event \in Stops
      BY <1>6 DEF LocksTyped, Commands
    <3> QED BY <1>3, <1>9, <3>1, QuietFacts DEF StoppingSound, Recorded
  <2>2. LiftingSound' /\ MergingSound'
    BY <1>2, <1>3 DEF LiftingSound, MergingSound
  <2>3. \A k \in unwritten' : Recorded(k)'
    <3>1. unwritten \subseteq Events
      BY <1>6, Ids DEF LocksTyped, Commands
    <3> QED BY <1>3, <1>8, <3>1, QuietFacts DEF Recorded
  <2> QED BY <2>1, <2>2, <2>3 DEF InFlight
<1> QED BY <1>11, <1>12, <1>13, <1>14, <1>15, <1>16, CommitStep

LEMMA CommitMergeKeeps ==
  ASSUME IInv, CommitMerge
  PROVE  IInv'
<1> DEFINE new == {Copy[e] : e \in Uncopied}
<1>1. /\ rows' = [e \in Events |-> IF e \in new THEN merging.now ELSE rows[e]]
      /\ acked' = [e \in Events |-> IF e \in new THEN clock ELSE acked[e]]
      /\ unwritten' = unwritten \cup (new \cap Lifts)
      /\ merged' = TRUE /\ merging' = None
      /\ UNCHANGED <<claim, hold, job, journal, stopping, lifting, clock, recovery, lost>>
      /\ merging # None /\ Uncopied \cap Stops = merging.copied
  BY DEF CommitMerge
<1>2. merging \in [now : Ticks, copied : SUBSET Stops] /\ merging.now \in Ticks
  BY <1>1, QuietFacts DEF LocksTyped, Commands
<1>3. stopping = None /\ lifting = None
  BY <1>1, QuietFacts DEF LocksTyped
<1>4. DbTyped /\ HistoryTyped /\ Sound(rows, claim, hold, job) /\ LocksTyped
  BY Types DEF IInv
<1>5. /\ new \subseteq Events /\ new \subseteq Copies
      /\ \A e \in new : rows[e] = None
  BY Ids DEF Uncopied, Recorded, Copies
<1>6. \A t \in new \cap Stops : journal[t] # None
  <2> SUFFICES ASSUME NEW e \in Uncopied, Copy[e] \in Stops PROVE journal[Copy[e]] # None
    OBVIOUS
  <2>1. e \in Events /\ Copy[e] # None
    BY DEF Uncopied
  <2>2. e \in Stops
    BY <2>1, Ids DEF Events
  <2>3. e \in merging.copied
    BY <1>1, <2>2
  <2> QED BY <1>1, <2>3, QuietFacts DEF MergingSound
<1>7. ASSUME NEW k \in new \cap Lifts
      PROVE  Target[k] \in new \/ rows[Target[k]] # None
  <2>1. PICK e \in Uncopied : Copy[e] = k
    OBVIOUS
  <2>2. e \in Events /\ Copy[e] # None /\ rows[e] # None
    BY <2>1 DEF Uncopied, Recorded
  <2>3. e \in Lifts
    BY <2>1, <2>2, Ids DEF Events
  <2>4. Target[k] = Copy[Target[e]] /\ Copy[Target[e]] # None /\ rows[Target[e]] # None
    BY <1>4, <2>1, <2>2, <2>3, CopiedLifts DEF Sound
  <2>5. Target[e] \in Events
    BY <2>3, Ids
  <2> QED BY <2>4, <2>5 DEF Uncopied, Recorded
<1>8. \A k \in new \cap Lifts : Target[k] \in Copies
  BY <1>5, CopiesLiftCopies
<1> HIDE DEF new
<1>9. /\ rows' \in [Events -> Ticks \cup {None}]
      /\ \A e \in Events \ new : rows'[e] = rows[e]
      /\ \A e \in new : rows'[e] \in Ticks /\ rows'[e] # None
  BY <1>1, <1>2, <1>4, <1>5, ClockIsNat DEF DbTyped
<1>10. DbTyped'
  BY <1>1, <1>4, <1>9 DEF DbTyped
<1>11. LocksTyped'
  BY <1>1, <1>4 DEF LocksTyped, Commands
<1>12. /\ HistoryTyped'
       /\ \A e \in Events \ new : acked'[e] = acked[e]
       /\ \A e \in new : acked'[e] = clock /\ acked'[e] # None
  BY <1>1, <1>4, <1>5, QuietFacts, ClockIsNat DEF HistoryTyped
<1>13. Commits
  <2>1. \A e \in Events : rows[e] # None => rows'[e] # None
    BY <1>9
  <2>2. \A e \in Events : acked'[e] = acked[e] \/ (acked'[e] = clock /\ rows'[e] # None)
    BY <1>9, <1>12
  <2>3. \A t \in Stops : acked'[t] = acked[t] \/ journal[t] # None
    BY <1>6, <1>12, Ids
  <2>4. \A k \in Corrections \ Copies : acked'[k] = acked[k]
    BY <1>5, <1>12, Ids
  <2> QED BY <1>1, <2>1, <2>2, <2>3, <2>4 DEF Commits
<1>14. Sound(rows, claim, hold, job)'
  <2>1. ASSUME NEW k \in Lifts, rows'[k] # None
        PROVE  rows'[Target[k]] # None /\ acked'[k] # None
    <3>1. Target[k] \in Events /\ k \in Events
      BY Ids
    <3>2. CASE k \in new
      BY <1>7, <1>9, <1>12, <3>1, <3>2
    <3>3. CASE k \notin new
      BY <1>4, <1>9, <1>12, <2>1, <3>1, <3>3 DEF Sound
    <3> QED BY <3>2, <3>3
  <2>2. \A t \in Stops : rows'[t] = None => claim'[t] = "none"
    BY <1>1, <1>4, <1>9, Ids DEF Sound
  <2>3. ASSUME NEW t \in Stops \ Copies
        PROVE  claim'[t] = "corrected" <=> \E k \in Claiming : rows'[k] # None /\ Target[k] = t
    <3>1. \A k \in Claiming : rows'[k] = rows[k]
      BY <1>5, <1>9, Ids DEF Claiming
    <3>2. claim[t] = "corrected" <=> \E k \in Claiming : rows[k] # None /\ Target[k] = t
      BY <1>4 DEF Sound
    <3> QED BY <1>1, <3>1, <3>2
  <2>4. ASSUME NEW t \in Stops
        PROVE  HoldOf(t, t \in hold, /\ t \in Manual \ Copies /\ claim[t] = "none" /\ rows[t] # None
                                     /\ \A k \in Lifts : rows[k] # None => Target[k] # t)'
    <3>1. HoldOf(t, t \in hold, /\ t \in Manual \ Copies /\ claim[t] = "none" /\ rows[t] # None
                                  /\ \A k \in Lifts : rows[k] # None => Target[k] # t)
      BY <1>4 DEF Sound
    <3>2. t \notin Copies => rows'[t] = rows[t] /\ \A k \in Lifts : Target[k] = t => rows'[k] = rows[k]
      BY <1>5, <1>8, <1>9, Ids
    <3>3. restores' = restores
      BY <1>1 DEF recovery
    <3> QED BY <1>1, <3>1, <3>2, <3>3 DEF HoldOf
  <2>5. \A t \in Manual \ Copies : rows'[t] # None /\ claim'[t] = "none" => t \in job'
    BY <1>1, <1>4, <1>5, <1>9, Ids DEF Sound
  <2>6. \A t \in job' : rows'[t] # None
    BY <1>1, <1>4, <1>9, Ids DEF DbTyped, Sound
  <2> QED BY <2>1, <2>2, <2>3, <2>4, <2>5, <2>6 DEF Sound
<1>15. InFlight'
  <2>1. StoppingSound' /\ LiftingSound' /\ MergingSound'
    BY <1>1, <1>3 DEF StoppingSound, LiftingSound, MergingSound
  <2>2. \A k \in unwritten' : Recorded(k)'
    <3>1. unwritten \subseteq Events
      BY <1>4, Ids DEF LocksTyped, Commands
    <3> QED BY <1>1, <1>9, <3>1, QuietFacts DEF Recorded
  <2> QED BY <2>1, <2>2 DEF InFlight
<1> QED BY <1>10, <1>11, <1>12, <1>13, <1>14, <1>15, CommitStep

LEMMA FinalizeKeeps ==
  ASSUME IInv, NEW s \in Stops, Finalize(s)
  PROVE  IInv'
<1>1. /\ s \in job /\ job' = job \ {s}
      /\ ~(lifting # None /\ lifting.event \in Corrections /\ lifting.claimed /\ Target[lifting.event] = s)
      /\ IF claim[s] = "none" THEN claim' = [claim EXCEPT ![s] = "finalized"] /\ hold' = hold \ {s}
         ELSE claim' = claim /\ hold' = hold
      /\ UNCHANGED <<rows, merged, journal, stopping, lifting, merging, unwritten, clock, recovery,
                     acked, lost>>
  BY DEF Finalize, Correcting, Claimable, commands
<1>2. DbTyped /\ HistoryTyped /\ Sound(rows, claim, hold, job) /\ LocksTyped
  BY Types DEF IInv
<1>3. /\ claim' \in [Stops -> Outcomes]
      /\ \A t \in Stops \ {s} : claim'[t] = claim[t]
      /\ claim'[s] # "none" /\ (claim'[s] = "corrected" <=> claim[s] = "corrected")
  <2>1. CASE claim[s] = "none"
    BY <1>1, <1>2, <2>1 DEF DbTyped, Outcomes
  <2>2. CASE claim[s] # "none"
    BY <1>1, <1>2, <2>2 DEF DbTyped
  <2> QED BY <2>1, <2>2
<1>4. rows[s] # None
  BY <1>1, <1>2 DEF Sound
<1>5. hold' \subseteq hold /\ s \notin hold' /\ \A t \in hold : t # s => t \in hold'
  BY <1>1, <1>2 DEF Sound, HoldOf
<1>6. DbTyped'
  BY <1>1, <1>2, <1>3, <1>5 DEF DbTyped
<1>7. LocksTyped' /\ HistoryTyped'
  BY <1>1, <1>2 DEF LocksTyped, Commands, HistoryTyped
<1>8. Commits
  BY <1>1 DEF Commits
<1>9. Sound(rows, claim, hold, job)'
  <2>1. \A l \in Lifts : rows'[l] # None => rows'[Target[l]] # None /\ acked'[l] # None
    BY <1>1, <1>2 DEF Sound
  <2>2. \A t \in Stops : rows'[t] = None => claim'[t] = "none"
    BY <1>1, <1>2, <1>3, <1>4 DEF Sound
  <2>3. \A t \in Stops \ Copies :
          claim'[t] = "corrected" <=> \E l \in Claiming : rows'[l] # None /\ Target[l] = t
    <3>1. \A t \in Stops : claim'[t] = "corrected" <=> claim[t] = "corrected"
      BY <1>3
    <3> QED BY <1>1, <1>2, <3>1 DEF Sound
  <2>4. ASSUME NEW t \in Stops
        PROVE  HoldOf(t, t \in hold, /\ t \in Manual \ Copies /\ claim[t] = "none" /\ rows[t] # None
                                     /\ \A l \in Lifts : rows[l] # None => Target[l] # t)'
    <3>1. t # s => (t \in hold' <=> t \in hold) /\ claim'[t] = claim[t]
      BY <1>3, <1>5
    <3>2. restores' = restores
      BY <1>1 DEF recovery
    <3> QED BY <1>1, <1>2, <1>3, <1>5, <3>1, <3>2 DEF Sound, HoldOf
  <2>5. \A t \in Manual \ Copies : rows'[t] # None /\ claim'[t] = "none" => t \in job'
    BY <1>1, <1>2, <1>3, Ids DEF Sound
  <2>6. \A t \in job' : rows'[t] # None
    BY <1>1, <1>2 DEF Sound
  <2> QED BY <2>1, <2>2, <2>3, <2>4, <2>5, <2>6 DEF Sound
<1>10. InFlight'
  <2>1. StoppingSound' /\ MergingSound' /\ \A l \in unwritten' : Recorded(l)'
    BY <1>1, QuietFacts DEF StoppingSound, MergingSound, Recorded
  <2>2. LiftingSound'
    <3>1. lifting # None => Target[lifting.event] \in Stops
      BY <1>2, Ids DEF LocksTyped, Commands
    <3>2. lifting # None => (Effective(Target[lifting.event])' <=> Effective(Target[lifting.event]))
      BY <1>1 DEF Effective, Unlifted, Recorded
    <3> QED BY <1>1, <1>3, <3>1, <3>2, QuietFacts DEF LiftingSound
  <2> QED BY <2>1, <2>2 DEF InFlight
<1> QED BY <1>6, <1>7, <1>8, <1>9, <1>10, CommitStep

-----------------------------------------------------------------------------
(* The restore and its replay.                                             *)

LEMMA RestoreKeeps ==
  ASSUME IInv, Restore
  PROVE  IInv'
<1>1. /\ saved # None
      /\ rows' = saved.rows /\ claim' = saved.claim /\ hold' = saved.hold
      /\ job' = saved.job /\ merged' = saved.merged
      /\ stopping' = None /\ lifting' = None /\ merging' = None
      /\ unwritten' = {} /\ lost' = lost \cup unwritten
      /\ from' = IF saved.at < Margin THEN 0 ELSE saved.at - Margin
      /\ serving' = FALSE /\ restores' = restores + 1 /\ saved' = None
      /\ UNCHANGED <<journal, clock, acked>>
  BY DEF Restore
<1>2. /\ saved \in Db /\ saved.at \in Nat /\ Margin \in Nat /\ saved.at \in Ticks /\ clock \in Ticks
      /\ restores \in 0..MaxRestores /\ restores < MaxRestores
      /\ LocksTyped /\ HistoryTyped /\ JournalTyped
  <2>1. saved \in Db
    BY <1>1, Types DEF IInv, RecoveryTyped
  <2>2. restores < MaxRestores
    BY <1>1 DEF IInv, Restorable
  <2> QED BY <2>1, <2>2, Types, ClockIsNat, BoundsAssumption DEF IInv, RecoveryTyped, DbTyped, Db
<1>3. from' \in Ticks /\ from' # None
  <2>1. from' \in Ticks
    BY <1>1, <1>2, BoundsAssumption DEF Ticks
  <2> QED BY <2>1, ClockIsNat
<1>4. TypeOK'
  <2>1. DbTyped'
    BY <1>1, <1>2 DEF DbTyped, Db
  <2>2. LocksTyped'
    BY <1>1, <1>2 DEF LocksTyped, Commands
  <2>3. restores' \in 0..MaxRestores
    BY <1>1, <1>2, BoundsAssumption
  <2>4. RecoveryTyped'
    BY <1>1, <1>3, <2>3 DEF RecoveryTyped
  <2>5. JournalTyped' /\ HistoryTyped'
    BY <1>1, <1>2 DEF JournalTyped, HistoryTyped, LocksTyped, Commands
  <2> QED BY <2>1, <2>2, <2>4, <2>5, TypesNext
<1>5. Sound(rows, claim, hold, job)'
  <2>1. Sound(saved.rows, saved.claim, saved.hold, saved.job)
    BY <1>1 DEF IInv
  <2>2. restores' # 0 /\ restores \in Nat
    BY <1>1, <1>2
  <2> QED BY <1>1, <2>1, <2>2 DEF Sound, HoldOf
<1>6. InFlight'
  BY <1>1 DEF InFlight, StoppingSound, LiftingSound, MergingSound
<1>7. Acknowledged'
  BY <1>1 DEF IInv, Acknowledged
<1>8. Restorable'
  <2> SUFFICES ASSUME NEW s \in Stops, Covered(s), saved.rows[s] = None
               PROVE  journal[s].at >= from'
    <3>1. restores' # 0
      BY <1>1, <1>2
    <3> QED BY <1>1, <1>3, <3>1 DEF Restorable, Covered, Recorded
  <2>1. acked[s] >= saved.at /\ acked[s] <= journal[s].at + Margin /\ acked[s] # None
    BY <1>1 DEF IInv, Restorable, Covered
  <2>2. journal[s].at \in Nat
    <3>1. journal[s] # None /\ s \in Events
      BY <2>1, Ids DEF IInv, Acknowledged
    <3>2. journal[s] \in Objects
      BY <1>2, <3>1 DEF JournalTyped
    <3> QED BY <3>2, ClockIsNat DEF Objects
  <2>3. acked[s] \in Nat
    BY <1>2, <2>1, Ids, ClockIsNat DEF HistoryTyped
  <2>4. from' = 0 \/ from' = saved.at - Margin
    BY <1>1
  <2> QED BY <1>2, <2>1, <2>2, <2>3, <2>4
<1> QED BY <1>1, <1>4, <1>5, <1>6, <1>7, <1>8 DEF IInv

\* What a replay reads and inserts.
LEMMA Replayed ==
  ASSUME IInv
  PROVE  /\ Missing \subseteq Events
         /\ \A e \in Missing : rows[e] = None /\ journal[e] \in Objects /\ journal[e].recorded \in Ticks
         /\ Inserted \subseteq Missing /\ Missing \cap Stops \subseteq Inserted
         /\ Placed \subseteq Inserted \cap Lifts /\ Inserted \cap Lifts \subseteq Placed
         /\ \A l \in Placed : acked[l] # None /\ Unlifted(Target[l]) /\ ~Stale(l)
         /\ \A l \in Placed : rows[Target[l]] # None \/ Target[l] \in Missing \cap Stops
<1>1. Missing \subseteq Events /\ \A e \in Missing : rows[e] = None /\ journal[e] # None
  BY DEF Missing, Read, Recorded
<1>2. \A e \in Missing : journal[e] \in Objects /\ journal[e].recorded \in Ticks
  BY <1>1, Types DEF IInv, JournalTyped, Objects
<1>3. \A l \in Placed : /\ l \in Missing /\ l \in Lifts /\ Marked(l) /\ Unlifted(Target[l]) /\ ~Stale(l)
                        /\ rows[Target[l]] # None \/ Target[l] \in Missing
  BY DEF Placed, Winners, Valid, Recorded
<1>4. \A l \in Placed : acked[l] # None
  BY <1>1, <1>3 DEF IInv, Acknowledged, Marked
<1>5. Inserted \subseteq Missing /\ Missing \cap Stops \subseteq Inserted /\ Placed \subseteq Inserted
  BY <1>3 DEF Inserted
<1>6. Inserted \cap Lifts \subseteq Placed
  BY Ids DEF Inserted
<1> QED BY <1>1, <1>2, <1>3, <1>4, <1>5, <1>6, Ids

LEMMA ReplayKeeps ==
  ASSUME IInv, Replay
  PROVE  IInv'
<1>1. /\ stopping = None /\ lifting = None /\ merging = None /\ from # None
      /\ rows' = [e \in Events |-> IF e \in Inserted THEN journal[e].recorded ELSE rows[e]]
      /\ claim' = [s \in Stops |-> IF s \in TakenBack THEN "corrected"
                                   ELSE IF s \in Finalized THEN "finalized" ELSE claim[s]]
      /\ hold' = (hold \cup Reheld) \ Relieved
      /\ job' = job \cup Reopened /\ serving' = TRUE
      /\ UNCHANGED <<merged, journal, stopping, lifting, merging, unwritten, clock, saved, from,
                     restores, acked, lost>>
  BY DEF Replay, GateFree, HistoryFree, commands
<1>2. TypeOK /\ DbTyped /\ HistoryTyped /\ JournalTyped /\ RecoveryTyped /\ LocksTyped
      /\ Sound(rows, claim, hold, job)
  BY Types DEF IInv
<1>3. /\ rows' \in [Events -> Ticks \cup {None}]
      /\ \A e \in Events \ Inserted : rows'[e] = rows[e]
      /\ \A e \in Inserted : rows'[e] # None /\ rows[e] = None
  BY <1>1, <1>2, Replayed, ClockIsNat DEF DbTyped
<1>4. \A e \in Events : rows[e] # None => rows'[e] = rows[e]
  BY <1>3
<1>5. /\ Returned \subseteq Missing \cap Stops /\ Returned \cap Copies = {}
      /\ Reopened \subseteq Returned \cap Manual /\ Finalized \subseteq Returned
      /\ Returned \subseteq Reopened \cup TakenBack \cup Finalized
      /\ Reopened \cap Finalized = {}
  BY DEF Returned, Reopened, Finalized
<1>6. /\ TakenBack \subseteq Stops
      /\ \A t \in TakenBack : rows[t] # None \/ t \in Missing \cap Stops
      /\ \A t \in TakenBack : t \in Relieved
  BY Replayed, Ids DEF TakenBack, Relieved, Claiming
<1>7. \A l \in Placed : Target[l] \notin Copies => Target[l] \in Relieved
  BY Replayed, CopiesLiftCopies DEF Relieved
<1>8. \A t \in Relieved : \E l \in Lifts : rows'[l] # None /\ Target[l] = t
  BY <1>3, Replayed DEF Relieved
<1>9. \A t \in Missing \cap Stops : /\ rows[t] = None /\ claim[t] = "none" /\ rows'[t] # None
                                    /\ t \notin hold
                                    /\ \A l \in Lifts : rows[l] # None => Target[l] # t
  BY <1>2, <1>3, Replayed DEF Sound, HoldOf
<1>10. /\ claim' \in [Stops -> Outcomes]
       /\ \A t \in Stops : claim'[t] = IF t \in TakenBack THEN "corrected"
                                       ELSE IF t \in Finalized THEN "finalized" ELSE claim[t]
  BY <1>1, <1>2 DEF DbTyped, Outcomes
<1>11. \A t \in Stops : rows'[t] # None => rows[t] # None \/ t \in Missing \cap Stops
  BY <1>3, Replayed, Ids
<1>12. TypeOK'
  <2>1. DbTyped'
    <3>1. Reheld \subseteq Stops /\ Reopened \subseteq Stops
      BY <1>5, Ids DEF Reheld
    <3> QED BY <1>1, <1>2, <1>3, <1>10, <3>1 DEF DbTyped
  <2>2. LocksTyped' /\ RecoveryTyped' /\ JournalTyped' /\ HistoryTyped'
    BY <1>1, <1>2 DEF LocksTyped, Commands, RecoveryTyped, JournalTyped, HistoryTyped
  <2> QED BY <2>1, <2>2, TypesNext
<1>13. Sound(rows, claim, hold, job)'
  <2>1. ASSUME NEW l \in Lifts, rows'[l] # None
        PROVE  rows'[Target[l]] # None /\ acked'[l] # None
    <3>1. l \in Events /\ Target[l] \in Events
      BY Ids
    <3>2. CASE l \in Placed
      BY <1>1, <1>4, <1>9, <3>1, <3>2, Replayed
    <3>3. CASE l \notin Placed
      BY <1>1, <1>2, <1>3, <1>4, <2>1, <3>1, <3>3, Replayed DEF Sound
    <3> QED BY <3>2, <3>3
  <2>2. ASSUME NEW t \in Stops, rows'[t] = None PROVE claim'[t] = "none"
    <3>1. rows[t] = None /\ t \notin Missing
      BY <1>4, <1>9, <2>2, Ids
    <3>2. t \notin TakenBack /\ t \notin Finalized
      BY <1>5, <1>6, <3>1
    <3> QED BY <1>2, <1>10, <3>1, <3>2 DEF Sound
  <2>3. ASSUME NEW t \in Stops \ Copies
        PROVE  claim'[t] = "corrected" <=> \E l \in Claiming : rows'[l] # None /\ Target[l] = t
    <3>1. claim[t] = "corrected" <=> \E l \in Claiming : rows[l] # None /\ Target[l] = t
      BY <1>2 DEF Sound
    <3>2. Claiming \subseteq Lifts /\ Claiming \subseteq Events
      BY Ids DEF Claiming
    <3>3. t \in TakenBack <=> \E l \in Claiming : l \in Placed /\ Target[l] = t
      BY DEF TakenBack
    <3>4. \A l \in Claiming : rows'[l] # None <=> rows[l] # None \/ l \in Placed
      BY <1>3, <1>4, <3>2, Replayed
    <3>5. t \in Finalized => claim[t] # "corrected"
      BY <1>5, <1>9
    <3>6. claim'[t] = "corrected" <=> t \in TakenBack \/ claim[t] = "corrected"
      BY <1>10, <3>5
    <3> QED BY <3>1, <3>3, <3>4, <3>6
  <2>4. ASSUME NEW t \in Stops
        PROVE  HoldOf(t, t \in hold, /\ t \in Manual \ Copies /\ claim[t] = "none" /\ rows[t] # None
                                     /\ \A l \in Lifts : rows[l] # None => Target[l] # t)'
    <3>1. HoldOf(t, t \in hold, /\ t \in Manual \ Copies /\ claim[t] = "none" /\ rows[t] # None
                                  /\ \A l \in Lifts : rows[l] # None => Target[l] # t)
      BY <1>2 DEF Sound
    <3>2. t \in hold' <=> (t \in hold \/ t \in Reheld) /\ t \notin Relieved
      BY <1>1
    <3>8. /\ restores' = restores /\ restores # 0
          /\ t \in Reheld <=> t \in Reopened /\ t \in Named /\ t \notin Old
      BY <1>1 DEF Reheld, IInv, Restorable
    <3>3. ASSUME t \notin Relieved, t \notin Copies, NEW l \in Lifts
          PROVE  Target[l] = t => (rows'[l] # None <=> rows[l] # None)
      <4>1. Target[l] = t => l \notin Placed
        BY <1>7, <3>3
      <4> QED BY <1>3, <4>1, Replayed, Ids
    <3>4. CASE t \in Relieved
      BY <1>8, <3>2, <3>4 DEF HoldOf
    <3>5. CASE t \notin Relieved /\ t \in Copies
      BY <1>5, <3>1, <3>2, <3>5, <3>8 DEF HoldOf
    <3>6. CASE t \notin Relieved /\ t \notin Copies /\ t \in Missing
      <4>1. t \in hold' <=> t \in Reopened /\ t \in Named /\ t \notin Old
        BY <1>9, <3>2, <3>6, <3>8
      <4>2. \A l \in Lifts : rows'[l] # None => Target[l] # t
        BY <1>9, <3>3, <3>6
      <4>3. claim'[t] = IF t \in Finalized THEN "finalized" ELSE "none"
        BY <1>6, <1>9, <1>10, <3>6
      <4>4. t \in Reopened <=> t \in Manual /\ t \notin Finalized
        <5>1. t \in Returned /\ t \notin TakenBack
          BY <1>6, <3>6 DEF Returned
        <5> QED BY <1>5, <5>1 DEF Reopened, Finalized
      <4>5. t \in Named => t \in Manual
        BY Ids
      <4> QED BY <1>9, <3>6, <3>8, <4>1, <4>2, <4>3, <4>4, <4>5 DEF HoldOf
    <3>7. CASE t \notin Relieved /\ t \notin Copies /\ t \notin Missing
      <4>1. t \in hold' <=> t \in hold
        BY <1>5, <3>2, <3>7, <3>8
      <4>2. rows'[t] # None <=> rows[t] # None
        BY <1>4, <1>11, <3>7, Ids
      <4>3. claim'[t] = claim[t]
        BY <1>5, <1>6, <1>10, <3>7
      <4>4. \A l \in Lifts : Target[l] = t => (rows'[l] # None <=> rows[l] # None)
        BY <3>3, <3>7
      <4> QED BY <3>1, <3>8, <4>1, <4>2, <4>3, <4>4 DEF HoldOf
    <3> QED BY <3>4, <3>5, <3>6, <3>7
  <2>5. ASSUME NEW t \in Manual \ Copies, rows'[t] # None, claim'[t] = "none"
        PROVE  t \in job'
    <3>1. t \in Stops
      BY Ids
    <3>2. t \notin TakenBack /\ t \notin Finalized /\ claim[t] = "none"
      BY <1>10, <2>5, <3>1
    <3>3. CASE rows[t] # None
      BY <1>1, <1>2, <3>2, <3>3 DEF Sound
    <3>4. CASE t \in Missing
      BY <1>1, <1>5, <3>1, <3>2, <3>4 DEF Returned
    <3> QED BY <1>11, <2>5, <3>1, <3>3, <3>4
  <2>6. \A t \in job' : rows'[t] # None
    <3>1. \A t \in job : rows[t] # None /\ t \in Events
      BY <1>2, Ids DEF Sound, DbTyped
    <3> QED BY <1>1, <1>4, <1>5, <1>9, <3>1
  <2> QED BY <2>1, <2>2, <2>3, <2>4, <2>5, <2>6 DEF Sound
<1>14. InFlight'
  <2>1. unwritten \subseteq Events
    BY <1>2, Ids DEF LocksTyped, Commands
  <2>2. \A l \in unwritten' : Recorded(l)'
    BY <1>1, <1>4, <2>1, QuietFacts DEF Recorded
  <2> QED BY <1>1, <2>2 DEF InFlight, StoppingSound, LiftingSound, MergingSound
<1>15. Acknowledged'
  BY <1>1 DEF IInv, Acknowledged
<1>16. Restorable'
  <2>1. Restorable /\ Acknowledged
    BY DEF IInv
  <2>2. ASSUME NEW s \in Stops, Covered(s) PROVE rows'[s] # None
    <3>1. s \in Events
      BY Ids
    <3>2. CASE rows[s] # None
      BY <1>4, <3>1, <3>2
    <3>3. CASE rows[s] = None
      <4>1. journal[s] # None /\ journal[s].at >= from
        BY <2>1, <2>2, <3>3 DEF Restorable, Acknowledged, Covered, Recorded
      <4>2. s \in Missing
        BY <3>1, <3>3, <4>1 DEF Missing, Read, Recorded
      <4> QED BY <1>9, <4>2
    <3> QED BY <3>2, <3>3
  <2> QED BY <1>1, <2>1, <2>2 DEF Restorable, Covered, Recorded
<1>17. saved' # None => Sound(saved.rows, saved.claim, saved.hold, saved.job)'
  BY <1>1 DEF IInv, Sound, HoldOf
<1> QED BY <1>12, <1>13, <1>14, <1>15, <1>16, <1>17 DEF IInv

-----------------------------------------------------------------------------
(* The theorems.                                                           *)

LEMMA NextKeeps == IInv /\ [Next]_vars => IInv'
<1> SUFFICES ASSUME IInv, [Next]_vars PROVE IInv'
  OBVIOUS
<1>1. ASSUME NEW s \in Stops, JournalStop(s) \/ Finalize(s) \/ JournalCopy(s)
      PROVE  IInv'
  BY <1>1, JournalStopKeeps, FinalizeKeeps, JournalCopyKeeps
<1>2. ASSUME NEW l \in Lifts,
             \/ BeginCorrection(l) \/ BeginSupersession(l)
             \/ JournalLift(l) \/ LoseLift(l) \/ JournalLegacyLift(l)
      PROVE  IInv'
  BY <1>2, BeginLiftKeeps, JournalLiftKeeps
<1>3. CASE CommitStop \/ RollBackStop \/ RollBackLift \/ RollBackMerge
  BY <1>3, CommitStopKeeps, RollBackStopKeeps
<1>4. CASE ClaimCorrection \/ CommitLift
  BY <1>4, ClaimCorrectionKeeps, CommitLiftKeeps
<1>5. CASE BeginMerge \/ CommitMerge
  BY <1>5, BeginMergeKeeps, CommitMergeKeeps
<1>6. CASE Backup \/ Restore \/ Replay \/ Tick
  BY <1>6, BackupKeeps, RestoreKeeps, ReplayKeeps, TickKeeps
<1>7. CASE UNCHANGED vars
  <2>1. UNCHANGED <<db, recovery, acked, clock, lost, journal, stopping, lifting, merging, unwritten>>
    BY <1>7 DEF vars, commands
  <2>2. FlightKept
    BY <2>1, QuietFacts DEF FlightKept, LocksTyped, Commands
  <2> QED BY <2>1, <2>2, GrowsAlone, QuietFacts, QuietStep
<1> QED BY <1>1, <1>2, <1>3, <1>4, <1>5, <1>6, <1>7 DEF Next

\* The inductive invariant holds in every state of every behaviour: the tables, current
\* and saved, the journal and the locks agree after every command, crash, restore and replay.
THEOREM Invariance == Spec => []IInv
BY InitInv, NextKeeps, PTL DEF Spec

\* Tables, objects, locks and the backup have their types (suppression/events.ts).
THEOREM TypeCorrect == Spec => []TypeOK
<1>1. IInv => TypeOK
  BY DEF IInv
<1> QED BY <1>1, Invariance, PTL

\* claimFinalization decides a stop once: it reads `corrected` exactly when a correction
\* of it is in the history, after any restore and replay (finalize.ts, replay.ts).
THEOREM OneWinner == Spec => []OneDecision
<1>1. IInv => OneDecision
  BY DEF IInv, Sound, OneDecision, Recorded
<1> QED BY <1>1, Invariance, PTL

\* The review hold of a stop that named a firm is open exactly while nobody has decided or
\* lifted the stop, but for an old object's after a restore, and the finalizer of an
\* undecided stop is owed (events.ts, finalize.ts, replay.ts).
THEOREM HoldIsHonest == Spec => []HeldWhileUndecided
<1>1. IInv => HeldWhileUndecided
  <2> SUFFICES ASSUME IInv PROVE HeldWhileUndecided
    OBVIOUS
  <2>1. Sound(rows, claim, hold, job) /\ hold \subseteq Stops
    BY Types DEF IInv, DbTyped
  <2>2. \A s \in Stops : HoldOf(s, s \in hold, s \in Undecided)
    <3> SUFFICES ASSUME NEW s \in Stops PROVE HoldOf(s, s \in hold, s \in Undecided)
      OBVIOUS
    <3>1. s \in Undecided <=> /\ s \in Manual \ Copies /\ claim[s] = "none" /\ rows[s] # None
                              /\ \A l \in Lifts : rows[l] # None => Target[l] # s
      BY DEF Undecided, Effective, Unlifted, Recorded
    <3>2. HoldOf(s, s \in hold, /\ s \in Manual \ Copies /\ claim[s] = "none" /\ rows[s] # None
                                /\ \A l \in Lifts : rows[l] # None => Target[l] # s)
      BY <2>1 DEF Sound
    <3> QED BY <3>1, <3>2 DEF HoldOf
  <2>3. Named \subseteq Stops
    BY Ids
  <2> QED BY <2>1, <2>2, <2>3 DEF HeldWhileUndecided, HoldOf, Sound, Recorded
<1> QED BY <1>1, Invariance, PTL

\* No restore loses a stop its margin covers, and no replay puts back a release that did
\* not commit (recordSuppression's journal before its row, replaySuppressionJournal).
THEOREM StopsSurvive == Spec => []AckedStopsKept
<1>1. IInv => AckedStopsKept
  BY DEF IInv, Sound, Restorable, AckedStopsKept, Covered, Recorded
<1> QED BY <1>1, Invariance, PTL

-----------------------------------------------------------------------------
(* A replay that is run again.                                             *)

LEMMA EarliestIsOne ==
  ASSUME NEW lifts, lifts # {}, \A l \in lifts : journal[l].recorded \in Nat
  PROVE  Earliest(lifts) \in lifts
<1> DEFINE R == OpToRel(<, Nat)
           times == {journal[l].recorded : l \in lifts}
<1>1. times \in SUBSET Nat /\ times # {}
  OBVIOUS
<1>2. \A a, b \in Nat : <<a, b>> \in R <=> a < b
  BY DEF OpToRel
<1>3. \E m \in times : \A n \in times : ~(<<n, m>> \in R)
  <2> HIDE DEF R, times
  <2>1. IsWellFoundedOn(R, Nat)
    BY NatLessThanWellFounded DEF R
  <2> QED BY <1>1, <2>1, WFMin
<1>4. PICK w \in lifts : \A r \in lifts : ~(<<journal[r].recorded, journal[w].recorded>> \in R)
  BY <1>3
<1>5. ASSUME NEW r \in lifts PROVE journal[w].recorded <= journal[r].recorded
  <2>1. ~(journal[r].recorded < journal[w].recorded)
    <3> HIDE DEF R
    <3> QED BY <1>2, <1>4
  <2> QED BY <2>1
<1> QED BY <1>5 DEF Earliest

\* A stop whose valid release the journal has is lifted by the replay, by that or a rival.
LEMMA ReplayLifts ==
  ASSUME IInv, NEW l \in Valid, Unlifted(Target[l]),
         Recorded(Target[l]) \/ Target[l] \in Missing
  PROVE  \E w \in Placed : Target[w] = Target[l]
<1> DEFINE s == Target[l]
           w == Earliest(Rivals(s))
<1>1. l \in Rivals(s)
  BY DEF Rivals
<1>2. \A r \in Rivals(s) : journal[r].recorded \in Nat
  BY Replayed, ClockIsNat DEF Rivals, Valid
<1>3. w \in Rivals(s)
  BY <1>1, <1>2, EarliestIsOne
<1>4. w \in Valid /\ Target[w] = s
  BY <1>3 DEF Rivals
<1>5. w \in Placed
  BY <1>4 DEF Placed, Winners, Recorded
<1> QED BY <1>4, <1>5

LEMMA ReplayAgain ==
  ASSUME IInv, Replay
  PROVE  (Inserted = {} /\ TakenBack = {} /\ Reopened = {})'
<1>1. /\ rows' = [e \in Events |-> IF e \in Inserted THEN journal[e].recorded ELSE rows[e]]
      /\ claim' = [s \in Stops |-> IF s \in TakenBack THEN "corrected"
                                   ELSE IF s \in Finalized THEN "finalized" ELSE claim[s]]
      /\ UNCHANGED <<journal, from, acked>>
  BY DEF Replay
<1>2. /\ \A e \in Events \ Inserted : rows'[e] = rows[e]
      /\ \A e \in Inserted : rows'[e] # None /\ rows[e] = None
  BY <1>1, Replayed, ClockIsNat
<1>3. Missing' \subseteq Missing /\ Missing' \cap Inserted = {}
  BY <1>1, <1>2 DEF Missing, Read, Recorded
<1>4. Missing' \cap Stops = {}
  BY <1>3, Replayed
<1>5. Placed' = {}
  <2> SUFFICES ASSUME NEW l \in Placed' PROVE FALSE
    OBVIOUS
  <2> DEFINE s == Target[l]
  <2>1. /\ l \in Missing' /\ l \in Lifts /\ journal'[l].committed /\ ~Stale(l)' /\ Unlifted(s)'
        /\ rows'[s] # None \/ s \in Missing'
    BY DEF Placed, Winners, Valid, Marked, Recorded
  <2>2. s \in Stops /\ s \in Events /\ l \in Missing
    BY <1>3, <2>1, Ids
  <2> HIDE DEF s
  <2>3. rows'[s] # None
    BY <1>4, <2>1, <2>2
  <2>4. s \in Missing \/ rows[s] # None
    BY <1>2, <2>2, <2>3, Replayed
  <2>5. Marked(l) /\ journal[l] # None /\ s = Target[l]
    BY <1>1, <2>1, <2>2, NullAssumption DEF Marked, Missing, Read, s
  <2>6. ~Stale(l)
    <3> SUFFICES ASSUME Stale(l) PROVE FALSE
      OBVIOUS
    <3>1. l \in Claiming /\ s \in Manual
      BY <2>1, <2>5 DEF IInv, Acknowledged, Stale, Claiming, Marked
    <3>2. claim[s] = "finalized"
      BY <2>5, <3>1 DEF Stale
    <3>3. s \notin TakenBack
      BY <3>2, Replayed DEF TakenBack, Stale
    <3>4. claim'[s] = "finalized"
      BY <1>1, <2>2, <3>2, <3>3
    <3> QED BY <2>1, <2>5, <3>1, <3>4 DEF Stale
  <2>7. l \in Valid
    BY <2>1, <2>2, <2>5, <2>6 DEF Valid
  <2>8. Unlifted(s)
    BY <1>2, <2>1, Ids DEF Unlifted, Recorded
  <2>9. PICK w \in Placed : Target[w] = s
    BY <2>4, <2>5, <2>7, <2>8, ReplayLifts DEF Recorded
  <2>10. rows'[w] # None /\ w \in Lifts
    BY <1>2, <2>9, Replayed
  <2> QED BY <2>1, <2>9, <2>10 DEF Unlifted, Recorded
<1> QED BY <1>4, <1>5 DEF Inserted, TakenBack, Reopened, Returned

\* A replay that dies after its commit, or is run again for any reason, finds nothing left
\* to insert, decide or reopen (replaySuppressionJournal).
THEOREM ReplayOnce == Spec => ReplayIdempotent
<1>1. IInv => [Replay => (Inserted = {} /\ TakenBack = {} /\ Reopened = {})']_vars
  BY ReplayAgain
<1> QED BY <1>1, Invariance, PTL DEF ReplayIdempotent

-----------------------------------------------------------------------------
(* Lifts: what the journal and the backup keep of them, and their copies.  *)

LiftedIn(table, s) == \E l \in Lifts : table[l] # None /\ Target[l] = s

\* The journal has, or is about to have, the marked object of a lift that committed.
Kept(l) == acked[l] # None /\ (l \in unwritten \/ (journal[l] # None /\ Marked(l)))

\* No commit of this stop from now on is covered by the margin.
Late(s) == journal[s].at + Margin < clock

\* Rows and commits leave a trace in the journal, and no command runs before the replay.
Traced ==
  /\ \A s \in Stops : Recorded(s) => journal[s] # None
  /\ \A e \in Events : acked[e] # None => acked[e] <= clock
  /\ \A l \in Lifts : acked[l] # None => l \in unwritten \/ l \in lost \/ journal[l] # None
  /\ ~serving => unwritten = {} /\ stopping = None /\ lifting = None /\ merging = None

\* The backup is a past of the database, which has decided nothing otherwise since.
BackupBehind ==
  saved # None => /\ \A e \in Events : saved.rows[e] # None => Recorded(e)
                  /\ \A s \in Stops : saved.claim[s] # "none" => claim[s] = saved.claim[s]

\* A stop that was lifted and never acknowledged came with a replay: it is there, or the
\* replay that is due reads it, or else it is too late for the margin to cover it.
UncommittedLate ==
  \A l \in Lifts : LET s == Target[l] IN
    acked[l] # None /\ acked[s] = None =>
      /\ journal[s] # None
      /\ Recorded(s) \/ Late(s) \/ (~serving /\ journal[s].at >= from)

\* The marked object of a lift of a covered stop was written after the last commit of it.
MarkedAfterCommit ==
  \A l \in Lifts : journal[l] # None /\ Marked(l) /\ Covered(Target[l]) => journal[l].at >= acked[l]

\* A lift of a covered stop that the journal keeps holds: the stop is lifted, or the replay
\* that is due reads the lift and nothing bars it.
LiftsHold ==
  \A l \in Lifts : LET s == Target[l] IN
    Covered(s) /\ Kept(l) =>
      \/ LiftedIn(rows, s)
      \/ ~serving /\ journal[l].at >= from /\ (l \in Claiming => claim[s] # "finalized")

\* So does one that a restore undoes: the backup has the stop lifted, or the lift came after.
LiftsSurvive ==
  saved # None =>
    \A l \in Lifts : LET s == Target[l] IN
      Covered(s) /\ Kept(l) =>
        \/ LiftedIn(saved.rows, s)
        \/ acked[l] >= saved.at /\ (l \in Claiming => saved.claim[s] # "finalized")

\* A lift of a stop that has a copy has reached it at some time.
InHistory(l) == Recorded(l) \/ Kept(l) \/ (saved # None /\ saved.rows[l] # None)

CopiesReached ==
  \A l \in Lifts : LET s == Target[l] IN
    InHistory(l) /\ Copy[l] # None /\ Covered(s) /\ Covered(Copy[s]) =>
      \E x \in Lifts : Target[x] = Copy[s] /\ acked[x] # None

LInv ==
  /\ Traced /\ BackupBehind /\ UncommittedLate /\ MarkedAfterCommit
  /\ LiftsHold /\ LiftsSurvive /\ CopiesReached

LEMMA LInvInit == Init => LInv
<1> SUFFICES ASSUME Init PROVE LInv
  OBVIOUS
<1>1. /\ \A e \in Events : rows[e] = None /\ acked[e] = None /\ journal[e] = None
      /\ saved = None /\ serving
  BY DEF Init
<1>2. Stops \subseteq Events /\ Lifts \subseteq Events
  BY Ids
<1>3. Traced /\ BackupBehind /\ UncommittedLate
  BY <1>1, <1>2 DEF Traced, BackupBehind, UncommittedLate, Recorded
<1>4. MarkedAfterCommit /\ LiftsHold /\ LiftsSurvive
  BY <1>1, <1>2 DEF MarkedAfterCommit, LiftsHold, LiftsSurvive, Kept
<1>5. CopiesReached
  BY <1>1, <1>2 DEF CopiesReached, InHistory, Kept, Recorded
<1> QED BY <1>3, <1>4, <1>5 DEF LInv

\* A step of the running system: rows, decisions and objects are added and never changed,
\* and a row is added by the commit that acknowledges it.
Added == {e \in Events : rows[e] = None /\ rows'[e] # None}

Appends ==
  \A e \in Events :
    \/ journal'[e] = journal[e]
    \/ /\ journal[e] = None /\ journal'[e] # None /\ journal'[e].at = clock
       /\ e \in Lifts /\ journal'[e].committed => e \in unwritten

AddsRows ==
  /\ \A e \in Events : rows[e] # None => rows'[e] # None
  /\ \A e \in Events : acked'[e] = IF e \in Added THEN clock ELSE acked[e]
  /\ \A s \in Stops : claim[s] # "none" => claim'[s] = claim[s]
  /\ Added # {} => serving /\ UNCHANGED <<journal, clock>>
  /\ \A l \in Added \cap Lifts :
       /\ l \in unwritten' /\ Unlifted(Target[l])
       /\ l \in Claiming => claim'[Target[l]] = "corrected"

\* A lift and the copy of what it lifts that meet in a commit come with a lift of the copy.
AddsCopies ==
  \A l \in Lifts :
    LET k == Copy[Target[l]] IN
    /\ Copy[l] # None /\ rows'[l] # None /\ rows'[k] # None /\ (l \in Added \/ k \in Added)
    => LiftedIn(rows', k)

WritesLifts ==
  /\ unwritten' \subseteq unwritten \cup Added
  /\ lost \subseteq lost'
  /\ \A l \in unwritten : l \in unwritten' \/ l \in lost' \/ journal'[l] # None

Onward ==
  /\ UNCHANGED recovery /\ clock' >= clock
  /\ ~serving => UNCHANGED <<rows, claim, commands>>
  /\ Appends /\ AddsRows /\ AddsCopies /\ WritesLifts

\* The types that the arithmetic needs.
LEMMA Instants ==
  ASSUME IInv
  PROVE  /\ clock \in Nat /\ Margin \in Nat
         /\ \A e \in Events : acked[e] \in Nat \cup {None}
         /\ \A e \in Events : journal[e] # None => journal[e].at \in Nat
         /\ saved # None => saved.at \in Nat /\ saved.at <= clock /\ serving
<1>1. DbTyped /\ JournalTyped /\ HistoryTyped /\ RecoveryTyped
  BY Types DEF IInv
<1>2. \A e \in Events : journal[e] # None => journal[e].at \in Nat
  BY <1>1, ClockIsNat DEF JournalTyped, Objects
<1>3. saved # None => saved.at \in Nat /\ saved.at <= clock /\ serving
  BY <1>1, ClockIsNat DEF RecoveryTyped, Db, IInv, Restorable
<1> QED BY <1>1, <1>2, <1>3, ClockIsNat, BoundsAssumption DEF DbTyped, HistoryTyped

\* What was lifted before is never acknowledged again within its margin.
LEMMA AddedStops ==
  ASSUME IInv, LInv, Onward, NEW l \in Lifts, acked[l] # None, Target[l] \in Added
  PROVE  ~Covered(Target[l])'
<1> DEFINE s == Target[l]
<1>1. s \in Stops /\ s \in Events
  BY Ids
<1> HIDE DEF s
<1>2. rows[s] = None /\ acked'[s] = clock /\ serving /\ journal' = journal /\ s = Target[l]
  BY <1>1 DEF Onward, AddsRows, Added, s
<1> SUFFICES ASSUME clock <= journal[s].at + Margin PROVE FALSE
  BY <1>2 DEF Covered
<1>3. CASE acked[s] = None
  <2>1. journal[s] # None /\ Late(s)
    BY <1>2, <1>3 DEF LInv, UncommittedLate, Recorded
  <2> QED BY <1>1, <2>1, Instants DEF Late
<1>4. CASE acked[s] # None
  <2>1. journal[s] # None /\ acked[s] <= clock
    BY <1>1, <1>4 DEF IInv, Acknowledged, LInv, Traced
  <2>2. Covered(s)
    BY <1>1, <1>4, <2>1, Instants DEF Covered
  <2> QED BY <1>1, <1>2, <2>2 DEF IInv, Restorable, Recorded
<1> QED BY <1>3, <1>4

\* So a stop that is covered after a step, and was lifted before it, was covered already.
LEMMA CoveredBefore ==
  ASSUME IInv, LInv, Onward, NEW l \in Lifts, acked[l] # None, Covered(Target[l])'
  PROVE  Covered(Target[l]) /\ acked'[Target[l]] = acked[Target[l]]
         /\ journal'[Target[l]] = journal[Target[l]]
<1> DEFINE s == Target[l]
<1>1. s \in Stops /\ s \in Events
  BY Ids
<1>2. s \notin Added
  BY AddedStops
<1> HIDE DEF s
<1>3. acked'[s] = acked[s] /\ acked[s] # None
  BY <1>1, <1>2 DEF Onward, AddsRows, Covered, s
<1>4. journal[s] # None
  BY <1>1, <1>3 DEF IInv, Acknowledged
<1>5. journal'[s] = journal[s]
  BY <1>1, <1>4 DEF Onward, Appends
<1>6. Covered(s)
  BY <1>3, <1>5 DEF Covered, s
<1> QED BY <1>3, <1>5, <1>6 DEF s

LEMMA KeptBefore ==
  ASSUME IInv, LInv, Onward, NEW l \in Lifts, Kept(l)', l \notin Added
  PROVE  Kept(l) /\ acked'[l] = acked[l]
<1>1. l \in Events
  BY Ids
<1>2. acked'[l] = acked[l] /\ acked[l] # None
  BY <1>1 DEF Onward, AddsRows, Kept
<1>3. CASE l \in unwritten'
  BY <1>2, <1>3 DEF Onward, WritesLifts, Kept
<1>4. CASE journal'[l] # None /\ journal'[l].committed
  BY <1>1, <1>2, <1>4 DEF Onward, Appends, Kept, Marked
<1> QED BY <1>2, <1>3, <1>4 DEF Kept, Marked

LEMMA OnwardTraced ==
  ASSUME IInv, IInv', LInv, Onward
  PROVE  Traced' /\ BackupBehind' /\ UncommittedLate'
<1>1. Stops \subseteq Events /\ Lifts \subseteq Events
  BY Ids
<1>2. Traced'
  <2>1. ASSUME NEW s \in Stops, rows'[s] # None PROVE journal'[s] # None
    <3>1. CASE s \in Added
      <4>1. acked'[s] # None
        BY <1>1, <3>1, Instants, Ids DEF Onward, AddsRows
      <4> QED BY <4>1 DEF IInv, Acknowledged
    <3>2. CASE s \notin Added
      <4>1. journal[s] # None
        BY <1>1, <2>1, <3>2 DEF LInv, Traced, Recorded, Added
      <4> QED BY <1>1, <4>1 DEF Onward, Appends
    <3> QED BY <3>1, <3>2
  <2>2. ASSUME NEW e \in Events, acked'[e] # None PROVE acked'[e] <= clock'
    <3>1. acked'[e] = clock \/ acked'[e] = acked[e]
      BY DEF Onward, AddsRows
    <3>2. clock' \in Nat /\ clock \in Nat /\ clock' >= clock
      BY Instants, ClockIsNat, Types DEF Onward, IInv, TypeOK
    <3> QED BY <2>2, <3>1, <3>2, Instants, Ids DEF LInv, Traced
  <2>3. ASSUME NEW l \in Lifts, acked'[l] # None
        PROVE  l \in unwritten' \/ l \in lost' \/ journal'[l] # None
    <3>1. CASE l \in Added
      BY <3>1 DEF Onward, AddsRows
    <3>2. CASE l \notin Added
      <4>1. l \in unwritten \/ l \in lost \/ journal[l] # None
        BY <1>1, <2>3, <3>2 DEF Onward, AddsRows, LInv, Traced
      <4> QED BY <1>1, <4>1 DEF Onward, WritesLifts, Appends
    <3> QED BY <3>1, <3>2
  <2>4. ~serving' => unwritten' = {} /\ stopping' = None /\ lifting' = None /\ merging' = None
    BY DEF Onward, recovery, commands, LInv, Traced
  <2> QED BY <2>1, <2>2, <2>3, <2>4 DEF Traced, Recorded
<1>3. BackupBehind'
  <2> SUFFICES ASSUME saved # None
               PROVE  /\ \A e \in Events : saved.rows[e] # None => rows'[e] # None
                      /\ \A s \in Stops : saved.claim[s] # "none" => claim'[s] = saved.claim[s]
    BY DEF BackupBehind, Onward, recovery, Recorded
  <2> QED BY DEF LInv, BackupBehind, Onward, AddsRows, Recorded
<1>4. UncommittedLate'
  <2> SUFFICES ASSUME NEW l \in Lifts, acked'[l] # None, acked'[Target[l]] = None
               PROVE  /\ journal'[Target[l]] # None
                      /\ rows'[Target[l]] # None \/ Late(Target[l])' \/ (~serving' /\ journal'[Target[l]].at >= from')
    BY DEF UncommittedLate, Recorded
  <2> DEFINE s == Target[l]
  <2>1. s \in Stops /\ s \in Events /\ l \in Events
    BY Ids
  <2>2. CASE l \in Added
    <3>1. rows'[s] # None
      BY <2>2 DEF IInv, Sound, Added
    <3> QED BY <1>2, <2>1, <3>1 DEF Traced, Recorded
  <2>3. CASE l \notin Added
    <3>1. acked[l] # None /\ acked[s] = None
      <4>1. s \notin Added
        BY <2>1, Instants, Ids DEF Onward, AddsRows
      <4> QED BY <2>1, <2>3, <4>1 DEF Onward, AddsRows
    <3>2. journal[s] # None /\ (rows[s] # None \/ Late(s) \/ (~serving /\ journal[s].at >= from))
      BY <3>1 DEF LInv, UncommittedLate, Recorded
    <3>3. journal'[s] = journal[s]
      BY <2>1, <3>2 DEF Onward, Appends
    <3>4. Late(s) => Late(s)'
      <4>1. clock' \in Nat /\ clock \in Nat /\ clock' >= clock /\ journal[s].at \in Nat /\ Margin \in Nat
        BY <2>1, <3>2, Instants, ClockIsNat DEF Onward, IInv, TypeOK
      <4> HIDE DEF s
      <4> QED BY <3>3, <4>1 DEF Late
    <3> QED BY <2>1, <3>2, <3>3, <3>4 DEF Onward, AddsRows, recovery
  <2> QED BY <2>2, <2>3
<1> QED BY <1>2, <1>3, <1>4

LEMMA OnwardLifts ==
  ASSUME IInv, IInv', LInv, Onward
  PROVE  MarkedAfterCommit' /\ LiftsHold' /\ LiftsSurvive'
<1>1. Stops \subseteq Events /\ Lifts \subseteq Events /\ \A l \in Lifts : Target[l] \in Stops
  BY Ids
<1>2. MarkedAfterCommit'
  <2> SUFFICES ASSUME NEW l \in Lifts, journal'[l] # None, journal'[l].committed, Covered(Target[l])'
               PROVE  journal'[l].at >= acked'[l]
    BY DEF MarkedAfterCommit, Marked
  <2>1. CASE l \in Added
    <3>1. journal[l] # None /\ Marked(l) /\ serving /\ Unlifted(Target[l])
      BY <2>1 DEF Onward, AddsRows, Marked
    <3>2. acked[l] # None
      BY <3>1 DEF IInv, Acknowledged, Marked
    <3>3. Covered(Target[l])
      BY <3>2, CoveredBefore
    <3>4. LiftedIn(rows, Target[l])
      BY <3>1, <3>2, <3>3 DEF LInv, LiftsHold, Kept
    <3> QED BY <3>1, <3>4 DEF LiftedIn, Unlifted, Recorded
  <2>2. CASE l \notin Added
    <3>1. acked'[l] = acked[l]
      BY <1>1, <2>2 DEF Onward, AddsRows
    <3>2. acked[l] # None
      BY <3>1 DEF IInv, Acknowledged
    <3>3. CASE journal'[l] = journal[l]
      BY <3>1, <3>2, <3>3, CoveredBefore DEF LInv, MarkedAfterCommit, Marked
    <3>4. CASE journal'[l] # journal[l]
      <4>1. journal'[l].at = clock /\ acked[l] <= clock
        BY <1>1, <3>2, <3>4 DEF Onward, Appends, LInv, Traced
      <4> QED BY <1>1, <3>1, <3>2, <4>1, Instants, Ids
    <3> QED BY <3>3, <3>4
  <2> QED BY <2>1, <2>2
<1>3. LiftsHold'
  <2> SUFFICES ASSUME NEW l \in Lifts, Covered(Target[l])', Kept(l)'
               PROVE  \/ LiftedIn(rows', Target[l])
                      \/ /\ ~serving' /\ journal'[l].at >= from'
                         /\ l \in Claiming => claim'[Target[l]] # "finalized"
    BY DEF LiftsHold, LiftedIn
  <2>1. CASE l \in Added
    BY <2>1 DEF Added, LiftedIn
  <2>2. CASE l \notin Added
    <3>1. Kept(l) /\ acked[l] # None
      BY <2>2, KeptBefore DEF Kept
    <3>2. Covered(Target[l])
      BY <3>1, CoveredBefore
    <3>3. CASE LiftedIn(rows, Target[l])
      BY <1>1, <3>3 DEF LiftedIn, Onward, AddsRows
    <3>4. CASE /\ ~serving /\ journal[l].at >= from
               /\ l \in Claiming => claim[Target[l]] # "finalized"
      <4>1. journal[l] # None
        BY <3>1, <3>4 DEF LInv, Traced, Kept
      <4>2. journal'[l] = journal[l]
        BY <1>1, <4>1 DEF Onward, Appends
      <4> QED BY <3>4, <4>2 DEF Onward, recovery
    <3> QED BY <3>1, <3>2, <3>3, <3>4 DEF LInv, LiftsHold
  <2> QED BY <2>1, <2>2
<1>4. LiftsSurvive'
  <2> SUFFICES ASSUME saved # None, NEW l \in Lifts, Covered(Target[l])', Kept(l)'
               PROVE  \/ LiftedIn(saved.rows, Target[l])
                      \/ acked'[l] >= saved.at /\ (l \in Claiming => saved.claim[Target[l]] # "finalized")
    BY DEF LiftsSurvive, LiftedIn, Onward, recovery
  <2>1. CASE l \in Added
    <3>1. acked'[l] = clock /\ clock >= saved.at
      BY <1>1, <2>1, Instants DEF Onward, AddsRows
    <3>2. l \in Claiming => claim'[Target[l]] = "corrected"
      BY <2>1 DEF Onward, AddsRows
    <3>3. saved.claim[Target[l]] = "finalized" => claim'[Target[l]] = "finalized"
      <4>1. saved.claim[Target[l]] = "finalized" => claim[Target[l]] = "finalized"
        BY <1>1 DEF LInv, BackupBehind
      <4> QED BY <1>1, <4>1 DEF Onward, AddsRows
    <3> QED BY <3>1, <3>2, <3>3
  <2>2. CASE l \notin Added
    <3>1. Kept(l) /\ acked'[l] = acked[l] /\ acked[l] # None
      BY <2>2, KeptBefore DEF Kept
    <3>2. Covered(Target[l])
      BY <3>1, CoveredBefore
    <3> QED BY <3>1, <3>2 DEF LInv, LiftsSurvive
  <2> QED BY <2>1, <2>2
<1> QED BY <1>2, <1>3, <1>4

LEMMA OnwardCopies ==
  ASSUME IInv, IInv', LInv, Onward
  PROVE  CopiesReached'
<1> SUFFICES ASSUME NEW l \in Lifts, InHistory(l)', Copy[l] # None,
                    Covered(Target[l])', Covered(Copy[Target[l]])'
             PROVE  \E x \in Lifts : Target[x] = Copy[Target[l]] /\ acked'[x] # None
  BY DEF CopiesReached
<1> DEFINE s == Target[l]
           k == Copy[s]
<1>1. /\ s \in Stops /\ k \in Stops /\ k # None /\ l \in Events /\ s \in Events /\ k \in Events
      /\ \A x \in Lifts : Target[x] = s => Copy[x] # None
      /\ Lifts \subseteq Events
  BY Ids, IdsAssumption
<1> HIDE DEF s, k
<1>2. s = Target[l] /\ k = Copy[Target[l]]
  BY DEF s, k
<1>3. \A x \in Lifts : rows'[x] # None => acked'[x] # None
  BY DEF IInv, Sound
<1>4. \A x \in Lifts : acked[x] # None => acked'[x] # None
  BY <1>1, Instants, Ids DEF Onward, AddsRows
<1>5. ASSUME NEW x \in Lifts, Target[x] = s, rows'[x] # None, rows'[k] # None, x \in Added \/ k \in Added
      PROVE  \E y \in Lifts : Target[y] = k /\ acked'[y] # None
  <2>1. LiftedIn(rows', k)
    BY <1>1, <1>2, <1>5 DEF Onward, AddsCopies
  <2> QED BY <1>3, <2>1 DEF LiftedIn
<1>6. CASE l \in Added
  <2>1. rows'[l] # None
    BY <1>6 DEF Added
  <2>2. CASE rows'[k] # None
    BY <1>2, <1>5, <1>6, <2>1, <2>2
  <2>3. CASE rows'[k] = None
    <3>1. serving'
      BY <1>6 DEF Onward, AddsRows, recovery
    <3> QED BY <1>1, <1>2, <2>3, <3>1 DEF IInv, Restorable, Recorded
  <2> QED BY <2>2, <2>3
<1>7. CASE l \notin Added
  <2>1. InHistory(l) /\ acked[l] # None
    <3>1. CASE rows'[l] # None
      <4>1. rows[l] # None
        BY <1>1, <1>7, <3>1 DEF Added
      <4> QED BY <4>1 DEF InHistory, Recorded, IInv, Sound
    <3>2. CASE Kept(l)'
      BY <1>7, <3>2, KeptBefore DEF InHistory, Kept
    <3>3. CASE saved' # None /\ saved'.rows[l] # None
      <4>1. saved # None /\ saved.rows[l] # None
        BY <3>3 DEF Onward, recovery
      <4> QED BY <4>1 DEF InHistory, IInv, Sound
    <3> QED BY <3>1, <3>2, <3>3 DEF InHistory, Recorded
  <2>2. Covered(s)
    BY <1>2, <2>1, CoveredBefore
  <2>3. CASE k \notin Added
    <3>1. acked'[k] = acked[k] /\ acked[k] # None
      BY <1>1, <1>2, <2>3 DEF Onward, AddsRows, Covered
    <3>2. journal'[k] = journal[k]
      BY <1>1, <3>1 DEF IInv, Acknowledged, Onward, Appends
    <3>3. Covered(k)
      BY <1>2, <3>1, <3>2 DEF Covered
    <3>4. \E x \in Lifts : Target[x] = k /\ acked[x] # None
      BY <1>2, <2>1, <2>2, <3>3 DEF LInv, CopiesReached
    <3> QED BY <1>2, <1>4, <3>4
  <2>4. CASE k \in Added
    <3>1. serving /\ rows'[k] # None
      BY <2>4 DEF Onward, AddsRows, Added
    <3>2. \E x \in Lifts : Target[x] = s /\ rows[x] # None
      <4>1. CASE Recorded(l)
        BY <1>2, <4>1 DEF Recorded
      <4>2. CASE Kept(l)
        BY <1>2, <2>2, <3>1, <4>2 DEF LInv, LiftsHold, LiftedIn
      <4>3. CASE saved # None /\ saved.rows[l] # None
        BY <1>1, <1>2, <4>3 DEF LInv, BackupBehind, Recorded
      <4> QED BY <2>1, <4>1, <4>2, <4>3 DEF InHistory
    <3>3. PICK x \in Lifts : Target[x] = s /\ rows'[x] # None
      BY <1>1, <3>2 DEF Onward, AddsRows
    <3> QED BY <1>2, <1>5, <2>4, <3>1, <3>3
  <2> QED BY <2>3, <2>4
<1> QED BY <1>6, <1>7

LEMMA OnwardStep ==
  ASSUME IInv, IInv', LInv, Onward
  PROVE  LInv'
BY OnwardTraced, OnwardLifts, OnwardCopies DEF LInv

\* Only the running system has locks and lifts to write.
LEMMA RunningOnly ==
  ASSUME LInv, stopping # None \/ lifting # None \/ merging # None \/ unwritten # {}
  PROVE  serving
BY DEF LInv, Traced

LEMMA AppendsNothing == ASSUME UNCHANGED journal PROVE Appends
BY DEF Appends

LEMMA AppendsOne ==
  ASSUME IInv, NEW e \in Events, NEW recorded, NEW committed,
         journal' = Appended(journal, e, recorded, committed),
         recorded \in Ticks, committed \in BOOLEAN,
         committed /\ e \in Lifts => e \in unwritten
  PROVE  Appends /\ journal'[e] # None
<1> DEFINE new == [at |-> clock, recorded |-> recorded, committed |-> committed]
<1>1. journal \in [Events -> Objects \cup {None}] /\ clock \in Ticks
  BY Types DEF IInv, JournalTyped, DbTyped
<1>2. new \in Objects /\ (new.committed <=> committed) /\ new.at = clock
  BY <1>1 DEF Objects
<1>3. new # None
  BY <1>2, NullAssumption
<1>4. journal' = [journal EXCEPT ![e] = IF journal[e] = None THEN new ELSE journal[e]]
  BY <1>1 DEF Appended
<1> HIDE DEF new
<1>5. /\ \A f \in Events \ {e} : journal'[f] = journal[f]
      /\ journal'[e] = IF journal[e] = None THEN new ELSE journal[e]
  BY <1>1, <1>4
<1> QED BY <1>2, <1>3, <1>5 DEF Appends

\* A step that commits nothing.
LEMMA QuietOnward ==
  ASSUME IInv, UNCHANGED <<rows, recovery, acked>>, clock' >= clock, Appends,
         UNCHANGED <<commands, claim>> \/ serving,
         \A s \in Stops : claim[s] # "none" => claim'[s] = claim[s],
         lost \subseteq lost', unwritten' \subseteq unwritten,
         \A l \in unwritten : l \in unwritten' \/ l \in lost' \/ journal'[l] # None
  PROVE  Onward
<1>1. Added = {}
  BY DEF Added
<1>2. AddsRows
  BY <1>1 DEF AddsRows
<1>3. AddsCopies
  <2> SUFFICES ASSUME NEW l \in Lifts, Copy[l] # None, l \in Added \/ Copy[Target[l]] \in Added
               PROVE  FALSE
    BY DEF AddsCopies
  <2> QED BY <1>1
<1>4. WritesLifts
  BY DEF WritesLifts
<1> QED BY <1>2, <1>3, <1>4 DEF Onward

LEMMA CommandsOnward ==
  ASSUME IInv, LInv, NEW s \in Stops,
         JournalStop(s) \/ JournalCopy(s) \/ Finalize(s)
  PROVE  Onward
<1>1. UNCHANGED <<rows, recovery, acked, clock, lost, unwritten>>
  BY DEF JournalStop, JournalCopy, Finalize, db, commands
<1>2. serving
  BY RunningOnly DEF JournalStop, JournalCopy, Finalize
<1>3. Appends
  <2>1. CASE JournalStop(s)
    <3>1. journal' = Appended(journal, s, clock, FALSE)
      BY <2>1 DEF JournalStop
    <3> QED BY <3>1, AppendsOne, QuietFacts, Ids
  <2>2. CASE JournalCopy(s)
    <3>1. journal' = Appended(journal, Copy[s], merging.now, FALSE) /\ merging # None /\ Copy[s] # None
      BY <2>2 DEF JournalCopy, Uncopied
    <3>2. merging.now \in Ticks /\ Copy[s] \in Events
      BY <3>1, QuietFacts, Ids DEF LocksTyped, Commands
    <3> QED BY <3>1, <3>2, AppendsOne
  <2>3. CASE Finalize(s)
    BY <2>3, AppendsNothing DEF Finalize
  <2> QED BY <2>1, <2>2, <2>3
<1>4. \A t \in Stops : claim[t] # "none" => claim'[t] = claim[t]
  <2>1. CASE Finalize(s)
    BY <2>1, Types DEF Finalize, Claimable, IInv, DbTyped
  <2>2. CASE ~Finalize(s)
    BY <2>2 DEF JournalStop, JournalCopy, db
  <2> QED BY <2>1, <2>2
<1> QED BY <1>1, <1>2, <1>3, <1>4, QuietFacts, QuietOnward

LEMMA BeginMergeOnward ==
  ASSUME IInv, LInv, BeginMerge
  PROVE  Onward
<1>1. UNCHANGED <<rows, claim, recovery, acked, clock, lost, unwritten, journal>> /\ serving
  BY DEF BeginMerge, db
<1> QED BY <1>1, AppendsNothing, QuietFacts, QuietOnward

LEMMA RestOnward ==
  ASSUME IInv, LInv,
         \/ RollBackStop \/ RollBackLift \/ RollBackMerge \/ ClaimCorrection \/ Tick
         \/ UNCHANGED vars
  PROVE  Onward
<1>1. UNCHANGED <<rows, claim, recovery, acked, lost, unwritten, journal>>
  BY DEF RollBackStop, RollBackLift, RollBackMerge, ClaimCorrection, Tick, vars, db, commands
<1>2. serving \/ UNCHANGED commands
  BY RunningOnly DEF RollBackStop, RollBackLift, RollBackMerge, ClaimCorrection, Correcting, Tick, vars
<1>3. clock' >= clock
  <2>1. clock' = clock \/ clock' = clock + 1
    BY DEF RollBackStop, RollBackLift, RollBackMerge, ClaimCorrection, Tick, vars
  <2> QED BY <2>1, Instants
<1> QED BY <1>1, <1>2, <1>3, AppendsNothing, QuietOnward

LEMMA LiftsOnward ==
  ASSUME IInv, LInv, NEW l \in Lifts,
         \/ BeginCorrection(l) \/ BeginSupersession(l)
         \/ JournalLift(l) \/ LoseLift(l) \/ JournalLegacyLift(l)
  PROVE  Onward
<1>1. UNCHANGED <<rows, claim, recovery, acked, clock>> /\ lost \subseteq lost' /\ unwritten' \subseteq unwritten
  BY DEF BeginCorrection, BeginSupersession, JournalLift, LoseLift, JournalLegacyLift, db, commands
<1>2. serving
  BY RunningOnly DEF BeginCorrection, BeginSupersession, MayLift, JournalLift, LoseLift, JournalLegacyLift
<1>3. l \in Events
  BY Ids
<1>4. CASE JournalLift(l)
  <2>1. /\ l \in unwritten /\ unwritten' = unwritten \ {l}
        /\ journal' = Appended(journal, l, rows[l], TRUE)
    BY <1>4 DEF JournalLift
  <2>2. rows[l] \in Ticks
    BY <1>3, <2>1, QuietFacts, Types DEF IInv, DbTyped, Recorded
  <2>3. Appends /\ journal'[l] # None
    BY <1>3, <2>1, <2>2, AppendsOne
  <2> QED BY <1>1, <1>2, <2>1, <2>3, QuietFacts, QuietOnward
<1>5. CASE LoseLift(l)
  <2>1. unwritten' = unwritten \ {l} /\ l \in lost' /\ UNCHANGED journal
    BY <1>5 DEF LoseLift
  <2> QED BY <1>1, <1>2, <2>1, AppendsNothing, QuietFacts, QuietOnward
<1>6. CASE JournalLegacyLift(l)
  <2>1. journal' = Appended(journal, l, clock, FALSE) /\ UNCHANGED unwritten
    BY <1>6 DEF JournalLegacyLift, commands
  <2>2. Appends
    BY <1>3, <2>1, AppendsOne, QuietFacts
  <2> QED BY <1>1, <1>2, <2>1, <2>2, QuietFacts, QuietOnward
<1>7. CASE BeginCorrection(l) \/ BeginSupersession(l)
  <2>1. UNCHANGED <<journal, unwritten>>
    BY <1>7 DEF BeginCorrection, BeginSupersession
  <2> QED BY <1>1, <1>2, <2>1, AppendsNothing, QuietFacts, QuietOnward
<1> QED BY <1>4, <1>5, <1>6, <1>7

LEMMA CommitStopOnward ==
  ASSUME IInv, LInv, CommitStop
  PROVE  Onward
<1> DEFINE s == stopping.event
<1>1. /\ stopping # None /\ s \in Stops /\ s \in Events /\ stopping.now \in Ticks
      /\ s \notin Copies /\ rows[s] = None /\ serving
  BY RunningOnly, QuietFacts, Ids DEF CommitStop, LocksTyped, Commands, StoppingSound, Recorded
<1>2. /\ rows' = [rows EXCEPT ![s] = stopping.now] /\ acked' = [acked EXCEPT ![s] = clock]
      /\ IF s \in Manual THEN claim' = claim ELSE claim' = [claim EXCEPT ![s] = "finalized"]
      /\ UNCHANGED <<journal, unwritten, clock, recovery, lost>>
  BY DEF CommitStop
<1> HIDE DEF s
<1>3. DbTyped /\ HistoryTyped /\ Sound(rows, claim, hold, job)
  BY Types DEF IInv
<1>4. Added = {s} /\ \A e \in Events : e # s => rows'[e] = rows[e]
  BY <1>1, <1>2, <1>3, ClockIsNat DEF Added, DbTyped
<1>5. AddsRows
  <2>1. \A e \in Events : acked'[e] = IF e \in Added THEN clock ELSE acked[e]
    BY <1>1, <1>2, <1>3, <1>4 DEF HistoryTyped
  <2>2. \A t \in Stops : claim[t] # "none" => claim'[t] = claim[t]
    <3>1. claim[s] = "none"
      BY <1>1, <1>3 DEF Sound
    <3> QED BY <1>1, <1>2, <1>3, <3>1 DEF DbTyped
  <2>3. Added \cap Lifts = {}
    BY <1>1, <1>4, Ids
  <2>4. \A e \in Events : rows[e] # None => rows'[e] # None
    BY <1>1, <1>4
  <2> QED BY <1>1, <1>2, <2>1, <2>2, <2>3, <2>4 DEF AddsRows
<1>6. AddsCopies
  <2> SUFFICES ASSUME NEW l \in Lifts, Copy[l] # None, l \in Added \/ Copy[Target[l]] \in Added
               PROVE  FALSE
    BY DEF AddsCopies
  <2>1. Copy[Target[l]] # None /\ Target[l] \in Events
    BY CopiedLifts, Ids
  <2> QED BY <1>1, <1>4, <2>1, Ids DEF Copies
<1> QED BY <1>1, <1>2, <1>5, <1>6, AppendsNothing, QuietFacts DEF Onward, WritesLifts

LEMMA CommitLiftOnward ==
  ASSUME IInv, LInv, CommitLift
  PROVE  Onward
<1> DEFINE l == lifting.event
           s == Target[l]
           new == LiftedTogether(l)
<1>1. /\ lifting # None /\ l \in Lifts /\ s \in Stops /\ lifting.now \in Ticks
      /\ l \notin Copies /\ Effective(s) /\ serving
      /\ l \in Corrections => claim[s] = "none"
  BY RunningOnly, QuietFacts, Ids DEF CommitLift, LocksTyped, Commands, LiftingSound, Correcting
<1>2. /\ rows' = [e \in Events |-> IF e \in new THEN lifting.now ELSE rows[e]]
      /\ claim' = IF l \in Corrections THEN [claim EXCEPT ![s] = "corrected"] ELSE claim
      /\ unwritten' = unwritten \cup new
      /\ acked' = [e \in Events |-> IF e \in new THEN clock ELSE acked[e]]
      /\ UNCHANGED <<journal, clock, recovery, lost>>
  BY DEF CommitLift, Correcting
<1>3. /\ new \subseteq Lifts /\ l \in new
      /\ \A k \in new : Effective(Target[k])
      /\ \A k \in new : k = l \/ (k \in Copies /\ Copy[l] = k)
      /\ \A k \in Lifts : Copy[l] = k /\ Effective(Target[k]) => k \in new
  BY <1>1, Ids DEF LiftedTogether
<1>4. \A k \in Lifts : Copy[l] = k => Target[k] = Copy[s] /\ Copy[k] = None
  BY <1>1, Ids, IdsAssumption
<1> HIDE DEF l, s, new
<1>5. s = Target[l]
  BY DEF s
<1>6. DbTyped /\ HistoryTyped /\ Sound(rows, claim, hold, job)
  BY Types DEF IInv
<1>7. \A k \in new : rows[k] = None
  BY <1>3 DEF Effective, Unlifted, Recorded
<1>8. Added = new /\ \A e \in Events : e \notin new => rows'[e] = rows[e]
  BY <1>1, <1>2, <1>3, <1>7, ClockIsNat, Ids DEF Added
<1>9. AddsRows
  <2>1. \A e \in Events : acked'[e] = IF e \in Added THEN clock ELSE acked[e]
    BY <1>2, <1>8
  <2>2. \A t \in Stops : claim[t] # "none" => claim'[t] = claim[t]
    BY <1>1, <1>2, <1>6 DEF DbTyped
  <2>3. \A k \in Added : /\ k \in unwritten' /\ Unlifted(Target[k])
                         /\ k \in Claiming => claim'[Target[k]] = "corrected"
    <3>1. \A k \in Added \cap Claiming : k = l /\ l \in Corrections
      BY <1>3, <1>8 DEF Claiming
    <3>2. l \in Corrections => claim'[s] = "corrected"
      BY <1>1, <1>2, <1>6 DEF DbTyped
    <3> QED BY <1>2, <1>3, <1>5, <1>8, <3>1, <3>2 DEF Effective
  <2>4. \A e \in Events : rows[e] # None => rows'[e] # None
    BY <1>3, <1>7, <1>8
  <2> QED BY <1>1, <1>2, <2>1, <2>2, <2>3, <2>4 DEF AddsRows
<1>10. AddsCopies
  <2> SUFFICES ASSUME NEW x \in Lifts, Copy[x] # None, rows'[Copy[Target[x]]] # None,
                      x \in Added \/ Copy[Target[x]] \in Added
               PROVE  LiftedIn(rows', Copy[Target[x]])
    BY DEF AddsCopies
  <2>1. Copy[Target[x]] \in Stops /\ Copy[Target[x]] \in Events /\ Copy[x] \in Lifts
    BY CopiedLifts, Ids
  <2>2. x = l
    BY <1>3, <1>4, <1>8, <2>1, Ids
  <2>3. rows[Copy[s]] # None
    BY <1>3, <1>5, <1>8, <2>1, <2>2, Ids
  <2>4. CASE Unlifted(Copy[s])
    <3>1. Copy[l] \in new /\ Target[Copy[l]] = Copy[s]
      BY <1>3, <1>4, <2>1, <2>2, <2>3, <2>4 DEF Effective, Recorded
    <3> QED BY <1>3, <1>5, <1>8, <2>2, <3>1 DEF LiftedIn, Added
  <2>5. CASE ~Unlifted(Copy[s])
    BY <1>5, <1>9, <2>2, <2>5, Ids DEF Unlifted, Recorded, LiftedIn, AddsRows
  <2> QED BY <2>4, <2>5
<1> QED BY <1>1, <1>2, <1>8, <1>9, <1>10, AppendsNothing, QuietFacts DEF Onward, WritesLifts

LEMMA CommitMergeOnward ==
  ASSUME IInv, LInv, CommitMerge
  PROVE  Onward
<1> DEFINE new == {Copy[e] : e \in Uncopied}
<1>1. /\ merging # None /\ merging.now \in Ticks /\ serving
      /\ rows' = [e \in Events |-> IF e \in new THEN merging.now ELSE rows[e]]
      /\ acked' = [e \in Events |-> IF e \in new THEN clock ELSE acked[e]]
      /\ unwritten' = unwritten \cup (new \cap Lifts)
      /\ UNCHANGED <<claim, journal, clock, recovery, lost>>
      /\ \A l \in Uncopied \cap Lifts : Unlifted(Copy[Target[l]])
  BY RunningOnly, QuietFacts DEF CommitMerge, LocksTyped, Commands
<1>2. /\ new \subseteq Events /\ new \subseteq Copies
      /\ \A e \in new : rows[e] = None
      /\ \A e \in Events : Copy[e] # None /\ rows[e] # None /\ rows[Copy[e]] = None => Copy[e] \in new
  BY Ids DEF Uncopied, Recorded, Copies
<1>3. \A k \in new \cap Lifts : Unlifted(Target[k])
  <2> SUFFICES ASSUME NEW e \in Uncopied, Copy[e] \in Lifts PROVE Unlifted(Target[Copy[e]])
    OBVIOUS
  <2>1. e \in Events /\ Copy[e] # None
    BY DEF Uncopied
  <2>2. e \in Lifts
    BY <2>1, Ids DEF Events
  <2> QED BY <1>1, <2>1, <2>2, CopiedLifts
<1> HIDE DEF new
<1>4. Added = new /\ \A e \in Events : e \notin new => rows'[e] = rows[e]
  BY <1>1, <1>2, ClockIsNat DEF Added
<1>5. AddsRows
  <2>1. \A k \in new \cap Lifts : k \notin Claiming
    BY <1>2 DEF Claiming
  <2> QED BY <1>1, <1>2, <1>3, <1>4, <2>1 DEF AddsRows
<1>6. AddsCopies
  <2> SUFFICES ASSUME NEW x \in Lifts, Copy[x] # None, rows'[x] # None,
                      x \in Added \/ Copy[Target[x]] \in Added
               PROVE  LiftedIn(rows', Copy[Target[x]])
    BY DEF AddsCopies
  <2>1. x \in Events /\ Copy[x] \in Events /\ Copy[x] \in Lifts /\ Target[Copy[x]] = Copy[Target[x]]
    BY CopiedLifts, Ids
  <2>2. x \notin Copies
    <3> SUFFICES ASSUME NEW e \in Events, Copy[e] = x PROVE FALSE
      BY DEF Copies
    <3>1. Copy[e] # None /\ Copy[Copy[e]] # None
      BY Ids
    <3> QED BY <3>1, IdsAssumption DEF Events
  <2>3. rows[x] # None
    BY <1>2, <1>4, <2>1, <2>2
  <2>4. rows'[Copy[x]] # None
    BY <1>2, <1>4, <1>5, <2>1, <2>3 DEF Added, AddsRows
  <2> QED BY <2>1, <2>4 DEF LiftedIn
<1> QED BY <1>1, <1>4, <1>5, <1>6, AppendsNothing, QuietFacts DEF Onward, WritesLifts

LEMMA BackupHolds ==
  ASSUME IInv, LInv, Backup
  PROVE  LInv'
<1>1. /\ UNCHANGED <<rows, claim, journal, stopping, lifting, merging, unwritten, clock, from,
                     serving, acked, lost>>
      /\ serving /\ saved' = Current
  BY DEF Backup, db, commands
<1>2. saved'.at = clock /\ saved'.rows = rows /\ saved'.claim = claim
  BY <1>1 DEF Current
<1>3. Traced' /\ BackupBehind' /\ UncommittedLate'
  BY <1>1, <1>2 DEF LInv, Traced, BackupBehind, UncommittedLate, Recorded, Late
<1>4. MarkedAfterCommit' /\ LiftsHold'
  BY <1>1 DEF LInv, MarkedAfterCommit, LiftsHold, Kept, Marked, Covered, LiftedIn
<1>5. LiftsSurvive'
  BY <1>1, <1>2 DEF LInv, LiftsHold, LiftsSurvive, Kept, Marked, Covered, LiftedIn
<1>6. CopiesReached'
  BY <1>1, <1>2 DEF LInv, CopiesReached, InHistory, Recorded, Kept, Marked, Covered
<1> QED BY <1>3, <1>4, <1>5, <1>6 DEF LInv

LEMMA RestoreHolds ==
  ASSUME IInv, LInv, Restore
  PROVE  LInv'
<1>1. /\ saved # None /\ serving
      /\ rows' = saved.rows /\ claim' = saved.claim
      /\ stopping' = None /\ lifting' = None /\ merging' = None
      /\ unwritten' = {} /\ lost' = lost \cup unwritten
      /\ from' = IF saved.at < Margin THEN 0 ELSE saved.at - Margin
      /\ serving' = FALSE /\ saved' = None
      /\ UNCHANGED <<journal, clock, acked>>
  BY DEF Restore
<1>2. Stops \subseteq Events /\ Lifts \subseteq Events /\ \A l \in Lifts : Target[l] \in Stops
  BY Ids
<1>3. \A e \in Events : saved.rows[e] # None => rows[e] # None
  BY <1>1 DEF LInv, BackupBehind, Recorded
<1>4. Traced'
  BY <1>1, <1>2, <1>3 DEF LInv, Traced, Recorded
<1>5. BackupBehind' /\ LiftsSurvive'
  BY <1>1 DEF BackupBehind, LiftsSurvive
<1>6. UncommittedLate'
  <2> SUFFICES ASSUME NEW l \in Lifts, acked[l] # None, acked[Target[l]] = None
               PROVE  /\ journal[Target[l]] # None
                      /\ Late(Target[l]) \/ journal[Target[l]].at >= from'
    BY <1>1 DEF UncommittedLate, Late
  <2> DEFINE s == Target[l]
  <2>1. s \in Events /\ journal[s] # None
    BY <1>2 DEF LInv, UncommittedLate
  <2>2. journal[s].at \in Nat /\ saved.at \in Nat /\ saved.at <= clock /\ clock \in Nat /\ Margin \in Nat
    BY <1>1, <2>1, Instants
  <2> HIDE DEF s
  <2>3. journal[s].at >= from' \/ journal[s].at + Margin < clock
    BY <1>1, <2>2
  <2> QED BY <2>1, <2>3 DEF Late, s
<1>7. MarkedAfterCommit'
  BY <1>1 DEF LInv, MarkedAfterCommit, Marked, Covered
<1>8. LiftsHold'
  <2> SUFFICES ASSUME NEW l \in Lifts, Covered(Target[l]), acked[l] # None, journal[l] # None, Marked(l)
               PROVE  \/ LiftedIn(saved.rows, Target[l])
                      \/ journal[l].at >= from' /\ (l \in Claiming => saved.claim[Target[l]] # "finalized")
    BY <1>1 DEF LiftsHold, Kept, Marked, Covered, LiftedIn
  <2>1. CASE LiftedIn(saved.rows, Target[l])
    BY <2>1
  <2>2. CASE acked[l] >= saved.at /\ (l \in Claiming => saved.claim[Target[l]] # "finalized")
    <3>1. journal[l].at >= acked[l]
      BY DEF LInv, MarkedAfterCommit
    <3>2. /\ journal[l].at \in Nat /\ acked[l] \in Nat /\ saved.at \in Nat /\ Margin \in Nat
      BY <1>1, <1>2, Instants
    <3>3. from' <= saved.at /\ from' \in Nat
      BY <1>1, <3>2
    <3> QED BY <2>2, <3>1, <3>2, <3>3
  <2> QED BY <1>1, <2>1, <2>2 DEF LInv, LiftsSurvive, Kept
<1>9. CopiesReached'
  <2>1. \A l \in Lifts : InHistory(l)' => InHistory(l)
    BY <1>1 DEF InHistory, Recorded, Kept, Marked
  <2> QED BY <1>1, <2>1 DEF LInv, CopiesReached, Covered
<1> QED BY <1>4, <1>5, <1>6, <1>7, <1>8, <1>9 DEF LInv

LEMMA ReplayHolds ==
  ASSUME IInv, LInv, Replay
  PROVE  LInv'
<1>1. /\ rows' = [e \in Events |-> IF e \in Inserted THEN journal[e].recorded ELSE rows[e]]
      /\ claim' = [s \in Stops |-> IF s \in TakenBack THEN "corrected"
                                   ELSE IF s \in Finalized THEN "finalized" ELSE claim[s]]
      /\ serving' = TRUE
      /\ UNCHANGED <<journal, stopping, lifting, merging, unwritten, clock, saved, acked, lost>>
  BY DEF Replay, commands
<1>2. Stops \subseteq Events /\ Lifts \subseteq Events /\ \A l \in Lifts : Target[l] \in Stops
  BY Ids
<1>3. /\ \A e \in Events : rows[e] # None => rows'[e] # None
      /\ \A e \in Inserted : rows'[e] # None /\ journal[e] # None
      /\ \A e \in Events : rows'[e] # None => rows[e] # None \/ e \in Inserted
      /\ Missing \cap Stops \subseteq Inserted
  <2>1. \A e \in Missing : journal[e] # None
    BY DEF Missing, Read
  <2> QED BY <1>1, <2>1, Replayed, ClockIsNat
<1>4. Traced'
  BY <1>1, <1>2, <1>3 DEF LInv, Traced, Recorded
<1>5. BackupBehind'
  <2>1. \A s \in Stops : claim[s] # "none" => claim'[s] = claim[s]
    <3> SUFFICES ASSUME NEW s \in Stops, claim[s] # "none" PROVE claim'[s] = claim[s]
      OBVIOUS
    <3>1. rows[s] # None
      BY DEF IInv, Sound
    <3>2. s \notin Finalized
      BY <3>1, Replayed DEF Finalized, Returned
    <3>3. s \in TakenBack => claim[s] = "corrected"
      <4>1. s \in TakenBack => claim[s] # "finalized"
        BY Replayed DEF TakenBack, Stale
      <4> QED BY <4>1, Types DEF IInv, DbTyped, Outcomes
    <3> QED BY <1>1, <3>2, <3>3
  <2> QED BY <1>1, <1>3, <2>1 DEF LInv, BackupBehind, Recorded
<1>6. UncommittedLate'
  <2> SUFFICES ASSUME NEW l \in Lifts, acked[l] # None, acked[Target[l]] = None
               PROVE  journal[Target[l]] # None /\ (rows'[Target[l]] # None \/ Late(Target[l]))
    BY <1>1 DEF UncommittedLate, Recorded, Late
  <2> DEFINE s == Target[l]
  <2>1. s \in Stops /\ s \in Events /\ journal[s] # None
    BY <1>2 DEF LInv, UncommittedLate
  <2>2. CASE rows[s] # None \/ Late(s)
    BY <1>3, <2>1, <2>2
  <2>3. CASE rows[s] = None /\ journal[s].at >= from
    BY <1>3, <2>1, <2>3 DEF Missing, Read, Recorded
  <2> QED BY <2>1, <2>2, <2>3 DEF LInv, UncommittedLate, Recorded
<1>7. MarkedAfterCommit'
  BY <1>1 DEF LInv, MarkedAfterCommit, Marked, Covered
<1>8. LiftsHold'
  <2> SUFFICES ASSUME NEW l \in Lifts, Covered(Target[l]), Kept(l)
               PROVE  LiftedIn(rows', Target[l])
    BY <1>1 DEF LiftsHold, Kept, Marked, Covered, LiftedIn
  <2> DEFINE s == Target[l]
  <2>1. CASE LiftedIn(rows, s)
    BY <1>2, <1>3, <2>1 DEF LiftedIn
  <2>2. CASE /\ ~LiftedIn(rows, s)
             /\ ~serving /\ journal[l].at >= from /\ (l \in Claiming => claim[s] # "finalized")
    <3>1. journal[l] # None /\ Marked(l) /\ rows[l] = None
      BY <2>2 DEF LInv, Traced, Kept, LiftedIn
    <3>2. s \in Stops /\ s \in Events /\ l \in Events
      BY <1>2
    <3>3. rows[s] # None \/ s \in Missing
      BY <2>2, <3>2 DEF IInv, Restorable, Acknowledged, Covered, Missing, Read, Recorded
    <3>4. ~Stale(l)
      <4>1. l \in Claiming => s \in Manual
        BY DEF IInv, Acknowledged, Kept, Claiming
      <4> QED BY <2>2, <4>1 DEF Stale
    <3>5. l \in Valid
      BY <2>2, <3>1, <3>2, <3>4 DEF Valid, Missing, Read, Recorded
    <3>6. Unlifted(s)
      BY <2>2 DEF Unlifted, Recorded, LiftedIn
    <3>7. \E w \in Placed : Target[w] = s
      BY <3>3, <3>5, <3>6, ReplayLifts DEF Recorded
    <3> QED BY <1>3, <3>7, Replayed DEF LiftedIn
  <2> QED BY <2>1, <2>2 DEF LInv, LiftsHold
<1>9. LiftsSurvive'
  BY <1>1 DEF LInv, LiftsSurvive, Kept, Marked, Covered, LiftedIn
<1>10. CopiesReached'
  <2>1. \A l \in Lifts : InHistory(l)' => InHistory(l)
    <3> SUFFICES ASSUME NEW l \in Lifts, rows'[l] # None PROVE InHistory(l)
      BY <1>1 DEF InHistory, Recorded, Kept, Marked
    <3>1. CASE rows[l] # None
      BY <3>1 DEF InHistory, Recorded
    <3>2. CASE l \in Inserted
      <4>1. l \in Placed
        BY <3>2, Replayed
      <4>2. acked[l] # None /\ Marked(l) /\ journal[l] # None
        BY <4>1, Replayed DEF Placed, Winners, Valid, Missing, Read
      <4> QED BY <4>2 DEF InHistory, Kept
    <3> QED BY <1>2, <1>3, <3>1, <3>2
  <2> QED BY <1>1, <2>1 DEF LInv, CopiesReached, Covered
<1> QED BY <1>4, <1>5, <1>6, <1>7, <1>8, <1>9, <1>10 DEF LInv

LEMMA NextHolds == IInv /\ IInv' /\ LInv /\ [Next]_vars => LInv'
<1> SUFFICES ASSUME IInv, IInv', LInv, [Next]_vars PROVE LInv'
  OBVIOUS
<1>1. ASSUME NEW s \in Stops, JournalStop(s) \/ Finalize(s) \/ JournalCopy(s) PROVE LInv'
  BY <1>1, CommandsOnward, OnwardStep
<1>2. ASSUME NEW l \in Lifts,
             \/ BeginCorrection(l) \/ BeginSupersession(l)
             \/ JournalLift(l) \/ LoseLift(l) \/ JournalLegacyLift(l)
      PROVE  LInv'
  BY <1>2, LiftsOnward, OnwardStep
<1>3. CASE CommitStop \/ CommitLift \/ CommitMerge
  BY <1>3, CommitStopOnward, CommitLiftOnward, CommitMergeOnward, OnwardStep
<1>4. CASE \/ RollBackStop \/ RollBackLift \/ RollBackMerge \/ ClaimCorrection \/ Tick
           \/ UNCHANGED vars
  BY <1>4, RestOnward, OnwardStep
<1>5. CASE BeginMerge
  BY <1>5, BeginMergeOnward, OnwardStep
<1>6. CASE Backup \/ Restore \/ Replay
  BY <1>6, BackupHolds, RestoreHolds, ReplayHolds
<1> QED BY <1>1, <1>2, <1>3, <1>4, <1>5, <1>6 DEF Next

LEMMA Reached == LInv => LiftReachesSurvivor
<1> SUFFICES ASSUME LInv, serving, NEW l \in Lifts, Recorded(l), Copy[l] # None,
                    Covered(Target[l]), Covered(Copy[Target[l]])
             PROVE  ~Effective(Copy[Target[l]]) \/ \E x \in Lifts : Target[x] = Copy[Target[l]] /\ Unmarked(x)
  BY DEF LiftReachesSurvivor
<1>1. PICK x \in Lifts : Target[x] = Copy[Target[l]] /\ acked[x] # None
  BY DEF LInv, CopiesReached, InHistory
<1>2. CASE Unmarked(x)
  BY <1>1, <1>2
<1>3. CASE ~Unmarked(x)
  <2>1. Kept(x)
    BY <1>1, <1>3 DEF LInv, Traced, Kept, Unmarked
  <2>2. LiftedIn(rows, Copy[Target[l]])
    BY <1>1, <2>1 DEF LInv, LiftsHold
  <2> QED BY <2>2 DEF LiftedIn, Effective, Unlifted, Recorded
<1> QED BY <1>2, <1>3

\* A lift of a merged stop reaches the survivor's copy, whichever of merge and lift came first
\* and however many restores and replays undid and redid either (liftMergeCopies,
\* preserveFirmSuppressions, replaySuppressionJournal): only an unmarked lift can be missed.
THEOREM LiftReaches == Spec => []LiftReachesSurvivor
<1>1. IInv /\ IInv' /\ LInv /\ [Next]_vars => LInv'
  BY NextHolds
<1> QED BY <1>1, LInvInit, Reached, Invariance, PTL DEF Spec
=============================================================================
