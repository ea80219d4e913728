--------------------------- MODULE MCSuppression ---------------------------
EXTENDS Suppression

CONSTANTS m, k, t,     \* a manual stop, its copy, a prospect's request
          c, a, ck, ak \* a correction and a supersession of m, and their copies

MCTarget == [l \in Lifts |-> IF l \in {c, a} THEN m ELSE k]
MCCopy == [e \in Events |->
             CASE e = m -> k [] e = c -> ck [] e = a -> ak [] OTHER -> None]

=============================================================================
