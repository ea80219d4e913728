------------------------------- MODULE MCRamp -------------------------------
EXTENDS Ramp

\* One send a day at first, then two; a recovery climbs through the same caps.
MCScheduled == [h \in 0..LastDay |-> IF h = 0 THEN 1 ELSE 2]
MCStages == [i \in 0..1 |-> i + 1]

=============================================================================
