------------------------- MODULE TerminalStopsProofs -------------------------
(***************************************************************************)
(* What holds of the terminal stops for any number of events, enrollments, *)
(* suppressions and workers, any limit of a drain and any fault bound.     *)
(***************************************************************************)
EXTENDS TerminalStops, FiniteSetTheorems, WellFoundedInduction, TLAPS

USE ConstantsAssumption

-----------------------------------------------------------------------------
(* The inductive invariant.                                                *)

Emitted == {e \in Events : ev[e].pc \in {"open", "committed"}}

\* Under the gate an event gets an instant nobody else has: at most one event is open, it
\* is the latest, and the clock counts the events that were stamped.
Stamps ==
  /\ clock = Cardinality(Emitted)
  /\ \A e \in Emitted : ev[e].at \in 1..clock
  /\ \A e \in Events : ev[e].pc = "open" => gate = e /\ ev[e].at = clock
  /\ \A e, f \in Emitted : e # f => ev[e].at # ev[f].at

\* The set an event owes parts the enrollments of its scope by their instants.
Recorded ==
  \A n \in Enrollments :
    /\ enr[n].state # "none" => enr[n].born <= clock
    /\ \A e \in Emitted :
         /\ n \in ev[e].owed =>
              n \in Scope[e] /\ enr[n].state # "none" /\ enr[n].born < ev[e].at
         /\ n \in (Live \cap Scope[e]) \ ev[e].owed => enr[n].born >= ev[e].at

\* What the cursor has passed is applied.
Consumed == \A e \in Committed \ Unread : Live \cap ev[e].owed = {}

\* A key is queued once, by the pass that found it, and run by one worker at a time.
Drains ==
  /\ found # None => job[found].state = "absent"
  /\ \A k \in Heads : /\ job[k].state = "absent" => job[k].attempts = 0
                      /\ job[k].state = "queued" => job[k].attempts < MaxAttempts
  /\ \A v, w \in Workers : v # w /\ wk[v] # None => wk[v] # wk[w]

IInv == TypeOK /\ Stamps /\ Recorded /\ Consumed /\ Drains

-----------------------------------------------------------------------------
(* Numbers, instants and rows.                                             *)

\* A set of numbers has a least one, a bounded set a largest one.
LEMMA LeastNatural ==
  ASSUME NEW S \in SUBSET Nat, S # {}
  PROVE  \E m \in S : \A n \in S : m <= n
<1> DEFINE R == OpToRel(<, Nat)
<1>1. \A a, b \in Nat : <<a, b>> \in R <=> a < b
  BY DEF OpToRel
<1>2. \E a \in S : \A b \in S : ~(<<b, a>> \in R)
  <2> HIDE DEF R
  <2>1. IsWellFoundedOn(R, Nat)
    BY NatLessThanWellFounded DEF R
  <2> QED BY <2>1, WFMin
<1>3. PICK m \in S : \A n \in S : ~(<<n, m>> \in R)
  BY <1>2
<1>4. ASSUME NEW n \in S PROVE m <= n
  <2>1. ~(n < m)
    BY <1>1, <1>3
  <2> QED BY <2>1
<1> QED BY <1>4

LEMMA LargestNatural ==
  ASSUME NEW S \in SUBSET Nat, S # {}, NEW bound \in Nat, \A n \in S : n <= bound
  PROVE  \E m \in S : \A n \in S : n <= m
<1> DEFINE T == {bound - n : n \in S}
<1>1. T \in SUBSET Nat /\ T # {}
  <2>1. \A n \in S : bound - n \in Nat
    OBVIOUS
  <2> QED BY <2>1
<1>2. PICK a \in T : \A b \in T : a <= b
  <2> HIDE DEF T
  <2> QED BY <1>1, LeastNatural
<1>3. PICK m \in S : a = bound - m
  OBVIOUS
<1>4. ASSUME NEW n \in S PROVE n <= m
  <2>1. bound - m <= bound - n
    BY <1>2, <1>3
  <2> QED BY <2>1
<1> QED BY <1>4

EventRows == [pc : {"none", "begun", "open", "committed"}, at : Instants,
              owed : SUBSET Enrollments]

\* The instants of two emitted events order them, whatever their ids.
LEMMA Ordered ==
  ASSUME TypeOK, Stamps, NEW e \in Emitted, NEW f \in Emitted
  PROVE  /\ e \in Nat /\ ev[e].at \in Nat
         /\ e # f => (Before(e, f) <=> ev[e].at < ev[f].at) /\ (Before(e, f) \/ Before(f, e))
         /\ ~(Before(e, f) /\ Before(f, e))
         /\ ~Before(e, e)
<1>1. e \in Nat /\ f \in Nat
  BY DEF Emitted, Events
<1>2. ev[e].at \in Nat /\ ev[f].at \in Nat
  BY DEF TypeOK, Instants, Emitted
<1>3. e # f => ev[e].at # ev[f].at
  BY DEF Stamps
<1> QED BY <1>1, <1>2, <1>3 DEF Before

\* A set of emitted events has a first and a last one.
LEMMA Extremes ==
  ASSUME TypeOK, Stamps, NEW S \in SUBSET Emitted, S # {}
  PROVE  /\ \E e \in S : \A f \in S \ {e} : Before(e, f)
         /\ \E e \in S : \A f \in S \ {e} : Before(f, e)
<1> DEFINE T == {ev[e].at : e \in S}
<1>1. T \in SUBSET Nat /\ T # {} /\ EventCount \in Nat /\ \A t \in T : t <= EventCount
  BY DEF TypeOK, Instants, Emitted
<1>2. /\ \E m \in T : \A t \in T : m <= t
      /\ \E m \in T : \A t \in T : t <= m
  <2> HIDE DEF T
  <2> QED BY <1>1, LeastNatural, LargestNatural
<1>3. PICK e \in S : \A t \in T : ev[e].at <= t
  BY <1>2
<1>4. PICK l \in S : \A t \in T : t <= ev[l].at
  BY <1>2
<1>5. \A f \in S : /\ ev[f].at \in Nat /\ ev[e].at <= ev[f].at /\ ev[f].at <= ev[l].at
                   /\ f # e => ev[e].at # ev[f].at
                   /\ f # l => ev[l].at # ev[f].at
  BY <1>1, <1>3, <1>4 DEF Stamps
<1>6. \A f \in S : (f # e => ev[e].at < ev[f].at) /\ (f # l => ev[f].at < ev[l].at)
  BY <1>5
<1> QED BY <1>6 DEF Before

LEMMA EmittedFinite == IsFiniteSet(Emitted) /\ Cardinality(Emitted) \in 0..EventCount
<1>1. IsFiniteSet(Events) /\ Cardinality(Events) = EventCount
  BY FS_Interval DEF Events
<1>2. Emitted \in SUBSET Events
  BY DEF Emitted
<1>3. IsFiniteSet(Emitted) /\ Cardinality(Emitted) <= EventCount
  BY <1>1, <1>2, FS_Subset
<1> QED BY <1>3, FS_CardinalityType

\* A step of the pass, of a job or of a suppression leaves events and enrollments alone.
LEMMA StopsKept ==
  ASSUME IInv, UNCHANGED <<gate, clock, ev, enr, cursor>>
  PROVE  Stamps' /\ Recorded' /\ Consumed'
BY DEF IInv, Stamps, Emitted, Recorded, Live, Consumed, Committed, Unread, Before

LEMMA DrainsKept ==
  ASSUME IInv, UNCHANGED <<job, found, wk>>
  PROVE  Drains'
BY DEF IInv, Drains

LEMMA InitInv == Init => IInv
<1> SUFFICES ASSUME Init PROVE IInv
  OBVIOUS
<1>1. Emitted = {} /\ Committed = {} /\ Live = {}
  BY DEF Init, Emitted, Committed, Live, NoEvent
<1>2. TypeOK
  <2>1. 0 \in Instants /\ 0 \in 0..MaxAttempts /\ 0 \in 0..MaxFaults
    BY DEF Instants
  <2> QED BY <1>1, <2>1 DEF Init, TypeOK, NoEvent
<1>3. Stamps
  BY <1>1, FS_EmptySet DEF Stamps, Init, NoEvent
<1>4. Recorded /\ Consumed
  BY <1>1 DEF Recorded, Consumed, Init
<1>5. Drains
  BY DEF Init, Drains
<1> QED BY <1>2, <1>3, <1>4, <1>5 DEF IInv

-----------------------------------------------------------------------------
(* Stop events.                                                            *)

LEMMA BeginStopStep ==
  ASSUME IInv, NEW e \in Events, BeginStop(e)
  PROVE  IInv'
<1> DEFINE row == [pc |-> "begun", at |-> clock, owed |-> {}]
<1>1. TypeOK /\ clock \in Instants
  BY DEF IInv, TypeOK
<1>2. ev' = [ev EXCEPT ![e] = row]
  BY DEF BeginStop
<1>3. row \in EventRows /\ row.pc = "begun"
  BY <1>1 DEF EventRows
<1> HIDE DEF row
<1>4. /\ ev' \in [Events -> EventRows] /\ ev'[e] = row
      /\ \A f \in Events \ {e} : ev'[f] = ev[f]
  BY <1>1, <1>2, <1>3 DEF TypeOK, EventRows
<1>5. /\ Emitted' = Emitted /\ Committed' = Committed /\ e \notin Emitted
      /\ {f \in Events : ev[f].pc = "open"}' = {f \in Events : ev[f].pc = "open"}
  BY <1>3, <1>4 DEF BeginStop, Emitted, Committed
<1>6. Committed \subseteq Emitted /\ Emitted \subseteq Events
  BY DEF Committed, Emitted
<1>7. UNCHANGED <<gate, clock, enr, marker, cursor, job, found, wk, faults>>
  BY DEF BeginStop
<1>8. TypeOK'
  BY <1>1, <1>4, <1>5, <1>7 DEF TypeOK, EventRows
<1>9. Stamps'
  BY <1>3, <1>4, <1>5, <1>6, <1>7 DEF IInv, Stamps
<1>10. Recorded'
  BY <1>4, <1>5, <1>6, <1>7 DEF IInv, Recorded, Live
<1>11. Consumed'
  <2>1. cursor \in Committed \cup {None}
    BY <1>1 DEF TypeOK
  <2>2. Unread' = Unread
    BY <1>4, <1>5, <1>6, <1>7, <2>1 DEF Unread, Before
  <2> QED BY <1>4, <1>5, <1>6, <1>7, <2>2 DEF IInv, Consumed, Live
<1> QED BY <1>7, <1>8, <1>9, <1>10, <1>11, DrainsKept DEF IInv

LEMMA EmitStopStep ==
  ASSUME IInv, NEW e \in Events, EmitStop(e)
  PROVE  IInv'
<1> DEFINE row == [pc |-> "open", at |-> clock + 1, owed |-> Live \cap Scope[e]]
<1>1. TypeOK /\ Stamps /\ clock \in Nat
  BY DEF IInv, TypeOK, Instants
<1>2. /\ ev' = [ev EXCEPT ![e] = row] /\ clock' = clock + 1 /\ gate' = e
      /\ UNCHANGED <<enr, marker, cursor, job, found, wk, faults>>
  BY DEF EmitStop, Stamp
<1>3. row.pc = "open" /\ row.at = clock + 1 /\ row.owed = Live \cap Scope[e]
  OBVIOUS
<1>4. /\ ev'[e] = row /\ \A f \in Events \ {e} : ev'[f] = ev[f]
  BY <1>1, <1>2 DEF TypeOK
<1>5. /\ Emitted' = Emitted \cup {e} /\ e \notin Emitted /\ Committed' = Committed
      /\ Committed \subseteq Emitted /\ Emitted \subseteq Events
  BY <1>3, <1>4 DEF EmitStop, Emitted, Committed
<1>6. \A f \in Events : ev[f].pc # "open"
  <2>1. \A f \in Events : f # None
    BY DEF Events
  <2> QED BY <1>1, <2>1 DEF EmitStop, GateFree, Stamps
<1>7. clock' = Cardinality(Emitted') /\ clock' \in Instants
  <2>1. Cardinality(Emitted \cup {e}) = Cardinality(Emitted) + 1
    BY <1>5, EmittedFinite, FS_AddElement
  <2>2. Cardinality(Emitted \cup {e}) <= EventCount
    <3>1. Emitted \cup {e} \in SUBSET Events
      BY <1>5
    <3>2. IsFiniteSet(Events) /\ Cardinality(Events) = EventCount
      BY FS_Interval DEF Events
    <3> QED BY <3>1, <3>2, FS_Subset
  <2> QED BY <1>1, <1>2, <1>5, <2>1, <2>2 DEF Stamps, Instants
<1>8. row \in EventRows
  BY <1>2, <1>7 DEF EventRows, Live
<1> HIDE DEF row
<1>9. ev' \in [Events -> EventRows]
  BY <1>1, <1>2, <1>8 DEF TypeOK, EventRows
<1>10. TypeOK'
  BY <1>1, <1>2, <1>3, <1>4, <1>5, <1>7, <1>9 DEF TypeOK, EventRows
<1>11. Stamps'
  <2>1. \A f \in Emitted' : ev'[f].at \in 1..clock'
    BY <1>1, <1>2, <1>3, <1>4, <1>5 DEF Stamps
  <2>2. \A f \in Events : ev'[f].pc = "open" => f = e
    BY <1>4, <1>6
  <2>3. \A f \in Emitted : ev'[f].at # ev'[e].at
    BY <1>1, <1>3, <1>4, <1>5 DEF Stamps
  <2>4. \A f, g \in Emitted' : f # g => ev'[f].at # ev'[g].at
    BY <1>1, <1>4, <1>5, <2>3 DEF Stamps
  <2> QED BY <1>2, <1>3, <1>4, <1>7, <2>1, <2>2, <2>4 DEF Stamps
<1>12. Recorded'
  <2> SUFFICES ASSUME NEW n \in Enrollments
               PROVE  /\ enr[n].state # "none" => enr[n].born <= clock + 1
                      /\ \A f \in Emitted' :
                           /\ n \in ev'[f].owed =>
                                n \in Scope[f] /\ enr[n].state # "none" /\ enr[n].born < ev'[f].at
                           /\ n \in (Live \cap Scope[f]) \ ev'[f].owed => enr[n].born >= ev'[f].at
    BY <1>2 DEF Recorded, Live
  <2>1. enr[n].born \in Nat /\ (enr[n].state # "none" => enr[n].born <= clock)
    BY <1>1 DEF IInv, Recorded, TypeOK, Instants
  <2>2. n \in Live => enr[n].state # "none"
    BY DEF Live
  <2>3. \A f \in Emitted : ev'[f] = ev[f]
    BY <1>4, <1>5
  <2> QED BY <1>1, <1>3, <1>4, <1>5, <2>1, <2>2, <2>3 DEF IInv, Recorded
<1>13. Consumed'
  <2>1. cursor \in Committed \cup {None}
    BY <1>1 DEF TypeOK
  <2>2. Unread' = Unread
    BY <1>2, <1>4, <1>5, <2>1 DEF Unread, Before
  <2> QED BY <1>2, <1>4, <1>5, <2>2 DEF IInv, Consumed, Live
<1> QED BY <1>2, <1>10, <1>11, <1>12, <1>13, DrainsKept DEF IInv

\* Enrollments that end keep their instant and were live.
LEMMA EndedFields ==
  ASSUME TypeOK, NEW stops, enr' = Ended(stops)
  PROVE  /\ enr' \in [Enrollments -> [state : {"none", "live", "ended"}, born : Instants]]
         /\ Live' = Live \ stops
         /\ \A n \in Enrollments : /\ enr'[n].born = enr[n].born
                                   /\ enr'[n].state = "none" <=> enr[n].state = "none"
                                   /\ enr'[n].state = "ended" => n \in stops \/ enr[n].state = "ended"
<1>1. ASSUME NEW n \in Enrollments
      PROVE  /\ enr'[n] \in [state : {"none", "live", "ended"}, born : Instants]
             /\ enr'[n].born = enr[n].born
             /\ enr'[n].state = "none" <=> enr[n].state = "none"
             /\ enr'[n].state = "live" <=> enr[n].state = "live" /\ n \notin stops
             /\ enr'[n].state = "ended" => n \in stops \/ enr[n].state = "ended"
  <2>1. enr[n] \in [state : {"none", "live", "ended"}, born : Instants]
    BY DEF TypeOK
  <2>2. CASE n \in stops /\ enr[n].state = "live"
    BY <2>1, <2>2 DEF Ended
  <2>3. CASE ~(n \in stops /\ enr[n].state = "live")
    BY <2>1, <2>3 DEF Ended
  <2> QED BY <2>2, <2>3
<1>2. enr' = [n \in Enrollments |-> enr'[n]]
  BY DEF Ended
<1> QED BY <1>1, <1>2 DEF Live

LEMMA CommitStopStep ==
  ASSUME IInv, NEW e \in Events, CommitStop(e)
  PROVE  IInv'
<1> DEFINE row == [pc |-> "committed", at |-> ev[e].at, owed |-> ev[e].owed]
<1>1. TypeOK /\ Stamps /\ ev[e] \in EventRows
  BY DEF IInv, TypeOK, EventRows
<1>2. /\ ev' = [ev EXCEPT ![e] = row] /\ gate' = None /\ clock' = clock
      /\ UNCHANGED <<marker, cursor, job, found, wk, faults>>
  <2>1. ev' = [ev EXCEPT ![e] = [ev[e] EXCEPT !.pc = "committed"]]
    BY <1>1 DEF CommitStop, TypeOK
  <2>2. [ev[e] EXCEPT !.pc = "committed"] = row
    BY <1>1 DEF EventRows
  <2> QED BY <2>1, <2>2 DEF CommitStop
<1>3. row \in EventRows /\ row.pc = "committed" /\ row.at = ev[e].at /\ row.owed = ev[e].owed
  BY <1>1 DEF EventRows
<1> HIDE DEF row
<1>4. /\ ev' \in [Events -> EventRows] /\ ev'[e] = row
      /\ \A f \in Events \ {e} : ev'[f] = ev[f]
  BY <1>1, <1>2, <1>3 DEF TypeOK, EventRows
<1>5. /\ Emitted' = Emitted /\ Committed' = Committed \cup {e} /\ e \in Emitted \ Committed
      /\ Committed \subseteq Emitted /\ Emitted \subseteq Events
  BY <1>3, <1>4 DEF CommitStop, Emitted, Committed
<1>6. \A f \in Emitted : ev'[f].at = ev[f].at /\ ev'[f].owed = ev[f].owed
  BY <1>3, <1>4, <1>5
<1>7. /\ enr' \in [Enrollments -> [state : {"none", "live", "ended"}, born : Instants]]
      /\ Live' \subseteq Live
      /\ \A n \in Enrollments : /\ enr'[n].born = enr[n].born
                                /\ enr'[n].state = "none" <=> enr[n].state = "none"
  <2>1. CASE e \in AtSource
    BY <1>1, <2>1, EndedFields DEF CommitStop
  <2>2. CASE e \notin AtSource
    BY <1>1, <2>2 DEF CommitStop, TypeOK, Live
  <2> QED BY <2>1, <2>2
<1>8. cursor \in Committed \cup {None}
  BY <1>1 DEF TypeOK
<1>9. TypeOK'
  BY <1>1, <1>2, <1>4, <1>5, <1>7, <1>8 DEF TypeOK, EventRows
<1>10. Stamps'
  <2>1. \A f \in Events : ev'[f].pc # "open"
    BY <1>1, <1>3, <1>4 DEF Stamps, CommitStop
  <2> QED BY <1>1, <1>2, <1>5, <1>6, <2>1 DEF Stamps
<1>11. Recorded'
  BY <1>2, <1>5, <1>6, <1>7 DEF IInv, Recorded
<1>12. Consumed'
  <2>1. ASSUME NEW f \in Committed PROVE f \in Unread' <=> f \in Unread
    BY <1>2, <1>5, <1>6, <1>8, <2>1 DEF Unread, Before
  <2>2. e \in Unread'
    <3>1. CASE cursor = None
      BY <1>2, <1>5, <3>1 DEF Unread
    <3>2. CASE cursor \in Committed
      <4>1. ev[e].at = clock /\ ev[cursor].at \in 1..clock /\ ev[cursor].at # ev[e].at /\ clock \in Nat
        BY <1>1, <1>5, <3>2 DEF Stamps, CommitStop, TypeOK, Instants
      <4>2. Before(cursor, e)'
        BY <1>2, <1>5, <1>6, <3>2, <4>1 DEF Before
      <4> QED BY <1>5, <4>2 DEF Unread
    <3> QED BY <1>8, <3>1, <3>2
  <2> QED BY <1>5, <1>6, <1>7, <2>1, <2>2 DEF IInv, Consumed
<1> QED BY <1>2, <1>9, <1>10, <1>11, <1>12, DrainsKept DEF IInv

-----------------------------------------------------------------------------
(* Enrollments and suppressions.                                           *)

LEMMA EnrollStep ==
  ASSUME IInv, NEW n \in Enrollments, Enroll(n)
  PROVE  IInv'
<1>1. TypeOK /\ Stamps /\ clock \in Nat /\ clock \in Instants
  BY DEF IInv, TypeOK, Instants
<1>2. /\ enr' = [enr EXCEPT ![n] = [state |-> "live", born |-> clock]] /\ enr[n].state = "none"
      /\ UNCHANGED <<gate, clock, ev, marker, cursor, job, found, wk, faults>>
  BY DEF Enroll
<1>3. /\ enr' \in [Enrollments -> [state : {"none", "live", "ended"}, born : Instants]]
      /\ enr'[n].state = "live" /\ enr'[n].born = clock
      /\ \A m \in Enrollments \ {n} : enr'[m] = enr[m]
  BY <1>1, <1>2 DEF TypeOK
<1>4. Live' = Live \cup {n} /\ Emitted' = Emitted /\ Committed' = Committed /\ Unread' = Unread
  BY <1>2, <1>3 DEF Live, Emitted, Committed, Unread, Before
<1>5. \A e \in Emitted : n \notin ev[e].owed /\ ev[e].at \in 1..clock
  BY <1>1, <1>2 DEF IInv, Recorded, Stamps
<1>6. TypeOK'
  BY <1>1, <1>2, <1>3, <1>4 DEF TypeOK
<1>7. Stamps'
  BY <1>1, <1>2, <1>4 DEF Stamps
<1>8. Recorded'
  BY <1>1, <1>2, <1>3, <1>4, <1>5 DEF IInv, Recorded
<1>9. Consumed'
  <2>1. Committed \subseteq Emitted
    BY DEF Committed, Emitted
  <2> QED BY <1>2, <1>4, <1>5, <2>1 DEF IInv, Consumed
<1> QED BY <1>2, <1>6, <1>7, <1>8, <1>9, DrainsKept DEF IInv

LEMMA SuppressionStep ==
  ASSUME IInv, NEW x \in Markers,
         RecordSuppression(x) \/ FinalizeSuppression(x) \/ LiftSuppression(x)
  PROVE  IInv'
<1>1. UNCHANGED <<gate, clock, ev, enr, cursor, job, found, wk, faults>>
  BY DEF RecordSuppression, FinalizeSuppression, LiftSuppression
<1>2. marker[x] \in [state : {"none", "recorded", "finalized", "lifted"}, owed : SUBSET Enrollments]
  BY DEF IInv, TypeOK
<1>3. PICK row \in {[state |-> "recorded", owed |-> marker[x].owed], [state |-> "finalized", owed |-> Live],
                    [state |-> "lifted", owed |-> marker[x].owed]} : marker' = [marker EXCEPT ![x] = row]
  <2>1. [marker[x] EXCEPT !.state = "recorded"] = [state |-> "recorded", owed |-> marker[x].owed]
    BY <1>2
  <2>2. [marker[x] EXCEPT !.state = "lifted"] = [state |-> "lifted", owed |-> marker[x].owed]
    BY <1>2
  <2>3. \/ marker' = [marker EXCEPT ![x] = [marker[x] EXCEPT !.state = "recorded"]]
        \/ marker' = [marker EXCEPT ![x] = [state |-> "finalized", owed |-> Live]]
        \/ marker' = [marker EXCEPT ![x] = [marker[x] EXCEPT !.state = "lifted"]]
    BY DEF IInv, TypeOK, RecordSuppression, FinalizeSuppression, LiftSuppression
  <2> QED BY <2>1, <2>2, <2>3
<1>4. row \in [state : {"none", "recorded", "finalized", "lifted"}, owed : SUBSET Enrollments]
  BY <1>2, <1>3 DEF Live
<1>5. TypeOK'
  <2>1. marker' \in [Markers -> [state : {"none", "recorded", "finalized", "lifted"}, owed : SUBSET Enrollments]]
    BY <1>3, <1>4 DEF IInv, TypeOK
  <2> QED BY <1>1, <2>1 DEF IInv, TypeOK, Committed
<1> QED BY <1>1, <1>5, StopsKept, DrainsKept DEF IInv

-----------------------------------------------------------------------------
(* The scheduler pass and the drain.                                       *)

\* A step of the jobs: what is left to show is about the jobs.
LEMMA JobsChange ==
  ASSUME IInv, UNCHANGED <<gate, clock, ev, enr, marker, cursor>>, Drains',
         job' \in [Heads -> [state : {"absent", "queued", "running", "done", "dead"},
                             attempts : 0..MaxAttempts]],
         found' \in Heads \cup {None}, faults' \in 0..MaxFaults,
         wk' \in [Workers -> {k \in Heads : job'[k].state = "running"} \cup {None}]
  PROVE  IInv'
<1>1. TypeOK'
  BY DEF IInv, TypeOK, Committed
<1> QED BY <1>1, StopsKept DEF IInv

LEMMA ReadWorkStep ==
  ASSUME IInv, ReadWork
  PROVE  IInv'
<1> DEFINE heads == <<OutboxHead, MarkerHead>>
<1>1. /\ UNCHANGED <<gate, clock, ev, enr, marker, cursor, job, wk, faults>>
      /\ found' = heads /\ job[heads].state = "absent"
  BY DEF ReadWork, Queueable, Key
<1>2. heads \in Heads
  <2>1. OutboxHead \in Events \cup {None}
    <3>1. CASE Unread # {}
      <4>1. Unread \in SUBSET Emitted /\ Unread \subseteq Events
        BY DEF Unread, Committed, Emitted
      <4>2. \E e \in Unread : \A f \in Unread \ {e} : Before(e, f)
        BY <3>1, <4>1, Extremes DEF IInv
      <4>3. OutboxHead \in Unread
        BY <3>1, <4>2 DEF OutboxHead
      <4> QED BY <4>1, <4>3
    <3> QED BY <3>1 DEF OutboxHead
  <2>2. MarkerHead \in Markers \cup {None}
    <3>1. CASE Covered # {}
      <4>1. Final # {} /\ Final \subseteq Markers
        BY <3>1 DEF Covered, Final, Effective, InForce
      <4> QED BY <3>1, <4>1 DEF MarkerHead
    <3> QED BY <3>1 DEF MarkerHead
  <2> QED BY <2>1, <2>2 DEF Heads
<1> HIDE DEF heads
<1>3. Drains'
  BY <1>1 DEF IInv, Drains
<1> QED BY <1>1, <1>2, <1>3, JobsChange DEF IInv, TypeOK

\* An open pass inserts the row of its key, which is not there yet.
LEMMA QueueDrainStep ==
  ASSUME IInv, QueueDrain
  PROVE  IInv'
<1> DEFINE k == found
<1>1. /\ TypeOK /\ k \in Heads /\ job[k].state = "absent" /\ job[k].attempts = 0
      /\ UNCHANGED <<gate, clock, ev, enr, marker, cursor, wk, faults>> /\ found' = None
  BY DEF IInv, TypeOK, Drains, QueueDrain
<1>2. job' = [job EXCEPT ![k].state = "queued"]
  BY DEF QueueDrain, Key
<1>3. /\ job' \in [Heads -> [state : {"absent", "queued", "running", "done", "dead"},
                             attempts : 0..MaxAttempts]]
      /\ job'[k].state = "queued" /\ job'[k].attempts = 0
      /\ \A h \in Heads \ {k} : job'[h] = job[h]
  BY <1>1, <1>2 DEF TypeOK
<1>4. wk' \in [Workers -> {h \in Heads : job'[h].state = "running"} \cup {None}]
  BY <1>1, <1>3 DEF TypeOK
<1>5. Drains'
  BY <1>1, <1>3 DEF IInv, Drains
<1> QED BY <1>1, <1>3, <1>4, <1>5, JobsChange DEF TypeOK

LEMMA ClaimDrainStep ==
  ASSUME IInv, NEW w \in Workers, NEW k \in Heads, ClaimDrain(w, k)
  PROVE  IInv'
<1>1. /\ TypeOK /\ job[k].state = "queued" /\ job[k].attempts \in 0..MaxAttempts
      /\ job[k].attempts < MaxAttempts
      /\ UNCHANGED <<gate, clock, ev, enr, marker, cursor, found, faults>>
      /\ job' = [job EXCEPT ![k] = [state |-> "running", attempts |-> job[k].attempts + 1]]
      /\ wk' = [wk EXCEPT ![w] = k]
  BY DEF IInv, TypeOK, Drains, ClaimDrain
<1>2. job[k].attempts + 1 \in 0..MaxAttempts
  BY <1>1
<1>3. /\ job' \in [Heads -> [state : {"absent", "queued", "running", "done", "dead"},
                             attempts : 0..MaxAttempts]]
      /\ job'[k].state = "running"
      /\ \A h \in Heads \ {k} : job'[h] = job[h]
  BY <1>1, <1>2 DEF TypeOK
<1>4. wk'[w] = k /\ \A v \in Workers \ {w} : wk'[v] = wk[v]
  BY <1>1 DEF TypeOK
<1>5. \A v \in Workers : wk[v] = None \/ (wk[v] \in Heads /\ job[wk[v]].state = "running")
  BY <1>1 DEF TypeOK
<1>6. wk' \in [Workers -> {h \in Heads : job'[h].state = "running"} \cup {None}]
  <2>1. \A v \in Workers : wk'[v] \in {h \in Heads : job'[h].state = "running"} \cup {None}
    BY <1>1, <1>3, <1>4, <1>5
  <2> QED BY <1>1, <2>1 DEF TypeOK
<1>7. Drains'
  BY <1>1, <1>3, <1>4, <1>5 DEF IInv, Drains
<1> QED BY <1>1, <1>3, <1>6, <1>7, JobsChange DEF TypeOK

\* A drain that ends, one way or the other, leaves the keys of the other workers alone.
LEMMA DrainOver ==
  ASSUME IInv, NEW w \in Workers, wk[w] # None, NEW state \in {"queued", "done", "dead"},
         state = "queued" => job[wk[w]].attempts < MaxAttempts, found' = found,
         job' = [job EXCEPT ![wk[w]].state = state], wk' = [wk EXCEPT ![w] = None]
  PROVE  /\ job' \in [Heads -> [state : {"absent", "queued", "running", "done", "dead"},
                                attempts : 0..MaxAttempts]]
         /\ wk' \in [Workers -> {h \in Heads : job'[h].state = "running"} \cup {None}]
         /\ Drains'
<1> DEFINE k == wk[w]
<1>1. TypeOK /\ k \in Heads /\ job[k].state = "running"
  BY DEF IInv, TypeOK
<1>2. /\ job' \in [Heads -> [state : {"absent", "queued", "running", "done", "dead"},
                             attempts : 0..MaxAttempts]]
      /\ job'[k].state = state /\ job'[k].attempts = job[k].attempts
      /\ \A h \in Heads \ {k} : job'[h] = job[h]
  BY <1>1 DEF TypeOK
<1>3. wk'[w] = None /\ \A v \in Workers \ {w} : wk'[v] = wk[v]
  BY <1>1 DEF TypeOK
<1>4. \A v \in Workers \ {w} :
        wk[v] = None \/ (wk[v] \in Heads /\ job[wk[v]].state = "running" /\ wk[v] # k)
  BY <1>1 DEF IInv, TypeOK, Drains
<1>5. wk' \in [Workers -> {h \in Heads : job'[h].state = "running"} \cup {None}]
  <2>1. \A v \in Workers : wk'[v] \in {h \in Heads : job'[h].state = "running"} \cup {None}
    BY <1>2, <1>3, <1>4
  <2> QED BY <1>1, <2>1 DEF TypeOK
<1>6. Drains'
  <2>1. found' # None => job'[found'].state = "absent"
    BY <1>1, <1>2 DEF IInv, TypeOK, Drains
  <2>2. \A h \in Heads : /\ job'[h].state = "absent" => job'[h].attempts = 0
                         /\ job'[h].state = "queued" => job'[h].attempts < MaxAttempts
    BY <1>2 DEF IInv, Drains
  <2>3. \A u, v \in Workers : u # v /\ wk'[u] # None => wk'[u] # wk'[v]
    BY <1>3 DEF IInv, Drains
  <2> QED BY <2>1, <2>2, <2>3 DEF Drains
<1> QED BY <1>2, <1>5, <1>6

LEMMA FailDrainStep ==
  ASSUME IInv, NEW w \in Workers, FailDrain(w)
  PROVE  IInv'
<1> DEFINE state == IF Spent(wk[w]) THEN "dead" ELSE "queued"
<1>1. /\ UNCHANGED <<gate, clock, ev, enr, marker, cursor, found>> /\ wk[w] # None
      /\ job' = [job EXCEPT ![wk[w]].state = state] /\ wk' = [wk EXCEPT ![w] = None]
      /\ faults' = faults + 1 /\ faults < MaxFaults
  BY DEF FailDrain
<1>2. job[wk[w]].attempts \in 0..MaxAttempts /\ faults \in 0..MaxFaults /\ found \in Heads \cup {None}
  BY <1>1 DEF IInv, TypeOK
<1>3. state \in {"queued", "done", "dead"} /\ (state = "queued" => job[wk[w]].attempts < MaxAttempts)
  BY <1>2 DEF Spent
<1>4. faults' \in 0..MaxFaults
  BY <1>1, <1>2
<1> HIDE DEF state
<1> QED BY <1>1, <1>2, <1>3, <1>4, DrainOver, JobsChange

\* A batch is an initial part of what is unread.
LEMMA BatchPrefix ==
  ASSUME TypeOK, Stamps, NEW l \in Batch, NEW e \in Unread, ~Before(l, e)
  PROVE  e \in Batch
<1>1. Unread \in SUBSET Emitted /\ l \in Unread
  BY DEF Unread, Committed, Emitted, Batch
<1>2. CASE e = l
  BY <1>2
<1>3. CASE e # l
  <2> DEFINE Earlier(x) == {f \in Unread : Before(f, x)}
  <2>1. Before(e, l)
    BY <1>1, <1>3, Ordered
  <2>2. Earlier(e) \in SUBSET Earlier(l)
    <3> SUFFICES ASSUME NEW f \in Unread, Before(f, e) PROVE Before(f, l)
      OBVIOUS
    <3>1. f \in Nat /\ e \in Nat /\ l \in Nat /\ ev[f].at \in Nat /\ ev[e].at \in Nat /\ ev[l].at \in Nat
      BY <1>1, Ordered
    <3> QED BY <2>1, <3>1 DEF Before
  <2>3. IsFiniteSet(Earlier(l))
    <3>1. Earlier(l) \in SUBSET Emitted
      BY <1>1
    <3> QED BY <3>1, EmittedFinite, FS_Subset
  <2>4. Cardinality(Earlier(l)) < DrainLimit
    BY DEF Batch
  <2>5. Cardinality(Earlier(e)) < DrainLimit
    <3> HIDE DEF Earlier
    <3>1. IsFiniteSet(Earlier(e)) /\ Cardinality(Earlier(e)) <= Cardinality(Earlier(l))
      BY <2>2, <2>3, FS_Subset
    <3>2. Cardinality(Earlier(e)) \in Nat /\ Cardinality(Earlier(l)) \in Nat
      BY <2>3, <3>1, FS_CardinalityType
    <3> QED BY <2>4, <3>1, <3>2
  <2> QED BY <2>5 DEF Batch
<1> QED BY <1>2, <1>3

\* What consumeTerminalStops leaves live is owed to nothing the cursor has passed.
LEMMA DrainStep ==
  ASSUME IInv, NEW w \in Workers, Drain(w)
  PROVE  IInv'
<1> DEFINE stops == (UNION {Owes(e) : e \in Batch}) \cup Covered
<1>1. /\ TypeOK /\ Stamps /\ enr' = Ended(stops) /\ wk[w] # None
      /\ UNCHANGED <<gate, clock, ev, marker, found, faults>>
      /\ job' = [job EXCEPT ![wk[w]].state = "done"] /\ wk' = [wk EXCEPT ![w] = None]
  BY DEF IInv, Drain
<1> HIDE DEF stops
<1>2. /\ job' \in [Heads -> [state : {"absent", "queued", "running", "done", "dead"},
                             attempts : 0..MaxAttempts]]
      /\ wk' \in [Workers -> {h \in Heads : job'[h].state = "running"} \cup {None}]
      /\ Drains'
  BY <1>1, DrainOver
<1>3. /\ enr' \in [Enrollments -> [state : {"none", "live", "ended"}, born : Instants]]
      /\ Live' = Live \ stops
      /\ \A n \in Enrollments : /\ enr'[n].born = enr[n].born
                                /\ enr'[n].state = "none" <=> enr[n].state = "none"
  BY <1>1, EndedFields
<1>4. Emitted' = Emitted /\ Committed' = Committed /\ Batch \subseteq Unread /\ Unread \subseteq Committed
      /\ Committed \subseteq Emitted
  BY <1>1 DEF Emitted, Committed, Batch, Unread
<1>5. Batch # {} => cursor' \in Batch
  <2> SUFFICES ASSUME Batch # {} PROVE LastOf(Batch) \in Batch
    BY DEF Drain
  <2>1. \E e \in Batch : \A f \in Batch \ {e} : Before(f, e)
    BY <1>1, <1>4, Extremes
  <2> QED BY <2>1 DEF LastOf
<1>6. Batch = {} => cursor' = cursor
  BY DEF Drain
<1>7. TypeOK'
  BY <1>1, <1>2, <1>3, <1>4, <1>5, <1>6 DEF TypeOK
<1>8. Stamps'
  BY <1>1, <1>4 DEF Stamps
<1>9. Recorded'
  BY <1>1, <1>3, <1>4 DEF IInv, Recorded
<1>10. Consumed'
  <2> SUFFICES ASSUME NEW e \in Committed, e \notin Unread' PROVE Live' \cap ev[e].owed = {}
    BY <1>1, <1>4 DEF Consumed
  <2>1. CASE e \notin Unread
    BY <1>3, <2>1 DEF IInv, Consumed
  <2>2. CASE e \in Unread
    <3>1. Batch # {}
      BY <1>1, <1>4, <1>6, <2>2 DEF Unread, Before
    <3>2. ~Before(cursor', e)
      BY <1>1, <1>4 DEF Unread, Before
    <3>3. e \in Batch
      BY <1>1, <1>5, <2>2, <3>1, <3>2, BatchPrefix
    <3>4. ev[e].owed \subseteq stops
      BY <3>3 DEF stops, Owes
    <3> QED BY <1>3, <3>4
  <2> QED BY <2>1, <2>2
<1> QED BY <1>2, <1>7, <1>8, <1>9, <1>10 DEF IInv

LEMMA NextStep == IInv /\ [Next]_vars => IInv'
<1> SUFFICES ASSUME IInv, [Next]_vars PROVE IInv'
  OBVIOUS
<1>1. CASE UNCHANGED vars
  <2>1. TypeOK'
    BY <1>1 DEF vars, IInv, TypeOK, Committed
  <2> QED BY <1>1, <2>1, StopsKept, DrainsKept DEF vars, IInv
<1> QED BY <1>1, BeginStopStep, EmitStopStep, CommitStopStep, EnrollStep, SuppressionStep,
       ReadWorkStep, QueueDrainStep, ClaimDrainStep, DrainStep, FailDrainStep DEF Next

-----------------------------------------------------------------------------
(* What follows.                                                           *)

THEOREM Invariance == Spec => []IInv
BY InitInv, NextStep, PTL DEF Spec

\* Every table keeps its type: the cursor stands on a committed event, a slot works on a
\* row that is `running`, and no drain is tried more often than its job allows.
THEOREM TypeCorrect == Spec => []TypeOK
<1>1. IInv => TypeOK
  BY DEF IInv
<1> QED BY <1>1, Invariance, PTL

\* What the cursor of consumeTerminalStops has passed is applied, and the enrollments it is
\* about that are live are later than it: the stamp under the gate lets no stop commit behind the
\* cursor, in batches of any size and after any number of failed drains.
THEOREM StopsConsumed == Spec => []ConsumedStopsAll
<1>1. IInv => ConsumedStopsAll
  <2> SUFFICES ASSUME IInv, NEW e \in Committed \ Unread, NEW n \in Live
               PROVE  n \notin ev[e].owed /\ (n \in Scope[e] => enr[n].born >= ev[e].at)
    BY DEF ConsumedStopsAll
  <2>1. n \in Enrollments /\ e \in Emitted
    BY DEF Live, Committed, Emitted
  <2>2. n \notin ev[e].owed
    BY DEF IInv, Consumed
  <2> QED BY <2>1, <2>2 DEF IInv, Recorded
<1> QED BY <1>1, Invariance, PTL

\* A drain ends nobody outside the stops it reads or enrolled after them, unless a suppression that is
\* effective now covers him (owedEnrollmentIds, OUTSTANDING_SUPPRESSION_STOPS).
THEOREM LaterGoOn == Spec => OnlyEarlierStopped
<1>1. ASSUME IInv, [Next]_vars, NEW w \in Workers, Drain(w), NEW n \in Live, enr'[n].state = "ended"
      PROVE  Final # {} \/ \E e \in Batch : n \in Scope[e] /\ enr[n].born < ev[e].at
  <2> DEFINE stops == (UNION {Owes(e) : e \in Batch}) \cup Covered
  <2>1. n \in Enrollments /\ enr[n].state # "ended" /\ TypeOK /\ enr' = Ended(stops)
    BY <1>1 DEF Live, IInv, Drain
  <2>2. n \in stops
    <3> HIDE DEF stops
    <3> QED BY <1>1, <2>1, EndedFields
  <2>3. CASE n \in Covered
    BY <2>3 DEF Covered
  <2>4. ASSUME NEW e \in Batch, n \in Owes(e) PROVE n \in Scope[e] /\ enr[n].born < ev[e].at
    <3>1. e \in Committed /\ e \in Emitted
      BY DEF Batch, Unread, Committed, Emitted
    <3> QED BY <1>1, <2>1, <2>4, <3>1 DEF IInv, Recorded, Owes
  <2>5. n \in Covered \/ \E e \in Batch : n \in Owes(e)
    <3>1. CASE n \in UNION {Owes(e) : e \in Batch}
      <4>1. PICK owed \in {Owes(e) : e \in Batch} : n \in owed
        BY <3>1
      <4> QED BY <4>1
    <3>2. n \in UNION {Owes(e) : e \in Batch} \/ n \in Covered
      BY <2>2 DEF stops
    <3> QED BY <3>1, <3>2
  <2> QED BY <2>3, <2>4, <2>5
<1>2. IInv /\ [Next]_vars =>
        [\A w \in Workers : Drain(w) =>
           \A n \in Live : enr'[n].state = "ended" =>
             Final # {} \/ \E e \in Batch : n \in Scope[e] /\ enr[n].born < ev[e].at]_vars
  BY <1>1
<1> QED BY <1>2, Invariance, PTL DEF Spec, OnlyEarlierStopped
=============================================================================
